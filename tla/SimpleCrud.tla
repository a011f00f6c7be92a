------------------------------- MODULE SimpleCrud -------------------------------
(***************************************************************************)
(* crud/src/bin/simple.rs: employees in a map and a counter of ids, each    *)
(* behind a mutex.  A handler locks the map first and keeps it locked until *)
(* it returns; it awaits nothing, so that it runs to its end although its   *)
(* client hangs up.  Only handlers that have locked the map lock the        *)
(* counter.                                                                 *)
(***************************************************************************)
EXTENDS CrudRequests

VARIABLES
  id_counter,  \* IdGenerator.id
  db,          \* the requests whose handlers have locked the map
  new_id       \* the id under which a handler is to insert, None before it has one

simple == <<id_counter, db, new_id>>

SimpleOK ==
  /\ id_counter \in Nat
  /\ db \subseteq Request
  /\ new_id \in [Request -> Nat \cup {None}]

(* Three employees are there from the start. *)
SimpleInit ==
  /\ employees \in [0 .. 2 -> Body]
  /\ id_counter = 2

SimpleRequestsInit ==
  /\ db = {}
  /\ new_id = [r \in Request |-> None]

Handles(r) == request[r] # None /\ request[r].op # "rejected" /\ reply[r] = None /\ answer[r] = None

(* Names ending in _wrong are plausible mistakes, each in the definition    *)
(* that follows it: every property is shown to fail under one of them.      *)
LockDb_wrong(r) ==      \* the lock is one that readers and writers share
  /\ Handles(r) /\ r \notin db
  /\ db' = db \cup {r}
  /\ UNCHANGED <<shared, id_counter, new_id>>

LockDb(r) ==
  /\ Handles(r) /\ db = {}
  /\ db' = {r}
  /\ UNCHANGED <<shared, id_counter, new_id>>

Runs(r, op) == r \in db /\ request[r].op = op

(* The handler returns, and drops what it has locked. *)
Return(r, a) ==
  /\ Reply(r, a)
  /\ db' = db \ {r}
  /\ new_id' = [new_id EXCEPT ![r] = None]
  /\ UNCHANGED <<request, answer>>

GetEmployee(r) ==
  /\ Runs(r, "get")
  /\ Return(r, FoundOr404(employees, request[r].id))
  /\ UNCHANGED <<store, id_counter>>

GetAllEmployees(r) ==
  /\ Runs(r, "list")
  /\ Return(r, Ok(employees))
  /\ UNCHANGED <<store, id_counter>>

(* post_employee locks the counter, too, and generates an id. *)
Generate(r) ==
  /\ Runs(r, "post") /\ new_id[r] = None
  /\ id_counter' = id_counter + 1
  /\ new_id' = [new_id EXCEPT ![r] = id_counter']
  /\ UNCHANGED <<shared, db>>

(* put_employee looks first whether the employee is there. *)
Find(r) ==
  /\ Runs(r, "put") /\ new_id[r] = None
  /\ IF request[r].id \in DOMAIN employees
     THEN new_id' = [new_id EXCEPT ![r] = request[r].id] /\ UNCHANGED <<shared, db>>
     ELSE Return(r, NotFound) /\ UNCHANGED store
  /\ UNCHANGED id_counter

(* The insert of both. *)
InsertEmployee(r) ==
  /\ r \in db /\ new_id[r] # None
  /\ employees' = With(employees, new_id[r], request[r].body)
  /\ used' = used \cup {new_id[r]}
  /\ Return(r, Ok(One(new_id[r], request[r].body)))
  /\ UNCHANGED id_counter

DeleteEmployee(r) ==
  /\ Runs(r, "delete")
  /\ Return(r, FoundOr404(employees, request[r].id))
  /\ employees' = Without(employees, request[r].id)
  /\ UNCHANGED <<used, id_counter>>

SimpleStep(r) == \/ LockDb(r) \/ GetEmployee(r) \/ GetAllEmployees(r)
                 \/ Generate(r) \/ Find(r) \/ InsertEmployee(r) \/ DeleteEmployee(r)
================================================================================
