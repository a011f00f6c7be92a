------------------------------ MODULE EmployeeStore -----------------------------
(***************************************************************************)
(* What both programs of crud promise.  A request takes effect at once, at  *)
(* most once, and after it was made; what the client is answered is that    *)
(* effect.  A client that is answered an error, or has hung up, cannot know *)
(* whether its request has taken effect, or still will.                     *)
(***************************************************************************)
EXTENDS CrudRequests

Open(r, op) == request[r] # None /\ reply[r] = None /\ request[r].op = op

Get(r) ==
  /\ Open(r, "get")
  /\ Reply(r, FoundOr404(employees, request[r].id))
  /\ UNCHANGED <<store, request, answer>>

List(r) ==
  /\ Open(r, "list")
  /\ Reply(r, Ok(employees))
  /\ UNCHANGED <<store, request, answer>>

(* A new employee gets an id that no employee had before. *)
Post(r) ==
  /\ Open(r, "post")
  /\ \E i \in used' \ used : /\ i \in Nat
                             /\ used' = used \cup {i}
                             /\ employees' = With(employees, i, request[r].body)
                             /\ Reply(r, Ok(One(i, request[r].body)))
  /\ UNCHANGED <<request, answer>>

Put(r) ==
  /\ Open(r, "put")
  /\ IF request[r].id \in DOMAIN employees
     THEN /\ employees' = With(employees, request[r].id, request[r].body)
          /\ Reply(r, Ok(One(request[r].id, request[r].body)))
     ELSE Reply(r, NotFound) /\ UNCHANGED employees
  /\ UNCHANGED <<used, request, answer>>

Delete(r) ==
  /\ Open(r, "delete")
  /\ Reply(r, FoundOr404(employees, request[r].id))
  /\ employees' = Without(employees, request[r].id)
  /\ UNCHANGED <<used, request, answer>>

Fail(r) ==
  /\ request[r] # None
  /\ answer[r] = None
  /\ answer' = [answer EXCEPT ![r] = Failed]
  /\ UNCHANGED <<store, request, reply>>

Init == IsTable(employees) /\ RequestsInit

Next == \E r \in Request : \/ ClientStep(r)
                           \/ Get(r) \/ List(r) \/ Post(r) \/ Put(r) \/ Delete(r)
                           \/ Fail(r)

Spec == Init /\ [][Next]_shared
================================================================================
