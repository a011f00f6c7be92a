------------------------------ MODULE CrudRequests ------------------------------
(***************************************************************************)
(* What the two programs of crud have in common: the employees they store,  *)
(* the requests they route, and the answers they give.  Each request is     *)
(* made once, and is answered once, unless its client hangs up.  A name and *)
(* a role are one Body.                                                     *)
(***************************************************************************)
EXTENDS Naturals

CONSTANTS
  Request,   \* numbers: requests in the order in which they are made
  Id,        \* the ids clients ask for
  Body,
  None

ASSUME ConstantsAssumption == Request \cup Id \subseteq Nat /\ None \notin Nat \cup Body

VARIABLES
  employees,   \* the employees stored, by id
  used,        \* history: the ids under which an employee was ever stored
  request,     \* what each request was routed to, None before it is made
  reply,       \* what the store has answered to each request
  answer       \* what each client is answered

store == <<employees, used>>
clients == <<request, reply, answer>>
shared == <<store, clients>>

IsTable(f) == DOMAIN f \subseteq Nat /\ f \in [DOMAIN f -> Body]

With(f, i, b) == [j \in DOMAIN f \cup {i} |-> IF j = i THEN b ELSE f[j]]

Without(f, i) == [j \in DOMAIN f \ {i} |-> f[j]]

One(i, b) == [j \in {i} |-> b]

Ok(f) == [code |-> 200, employees |-> f]
NotFound == [code |-> 404, employees |-> <<>>]
Failed == [code |-> 500, employees |-> <<>>]
Nobody == [code |-> 0, employees |-> <<>>]   \* the client has hung up

ASSUME AnswersAssumption == None \notin {Failed, Nobody}

FoundOr404(f, i) == IF i \in DOMAIN f THEN Ok(One(i, f[i])) ELSE NotFound

Reply(r, a) == reply' = [reply EXCEPT ![r] = a]

Op == {"get", "list", "post", "put", "delete", "rejected"}

Routed == {q \in [op : Op, id : Id \cup {None}, body : Body \cup {None}] :
             /\ q.op \in {"get", "put", "delete"} => q.id \in Id
             /\ q.op \in {"post", "put"} => q.body \in Body}

RequestsOK ==
  /\ used \subseteq Nat
  /\ IsTable(employees) /\ DOMAIN employees \subseteq used
  /\ request \in [Request -> Routed \cup {None}]
  /\ DOMAIN reply = Request /\ DOMAIN answer = Request
  /\ \A r \in Request :
       /\ reply[r] # None => /\ request[r] # None /\ reply[r].code \in {200, 404}
                             /\ IsTable(reply[r].employees)
       /\ answer[r] \in {None, Failed, Nobody, reply[r]}
       /\ answer[r] # None => request[r] # None

RequestsInit ==
  /\ used = DOMAIN employees
  /\ request = [r \in Request |-> None]
  /\ reply = [r \in Request |-> None]
  /\ answer = [r \in Request |-> None]

--------------------------------------------------------------------------------
(* The routes, tried in this order: the list of all is what a GET without a *)
(* number for an id gets, and a POST may have anything after its path.      *)
Route(method, id, body) ==
  CASE method = "GET" /\ id # None -> [op |-> "get", id |-> id, body |-> None]
    [] method = "GET" /\ id = None -> [op |-> "list", id |-> None, body |-> None]
    [] method = "POST" /\ body # None -> [op |-> "post", id |-> None, body |-> body]
    [] method = "PUT" /\ id # None /\ body # None -> [op |-> "put", id |-> id, body |-> body]
    [] method = "DELETE" /\ id # None -> [op |-> "delete", id |-> id, body |-> None]
    [] OTHER -> [op |-> "rejected", id |-> None, body |-> None]

Ask(r, method, id, body) ==
  /\ request[r] = None
  /\ \A q \in Request : q < r => request[q] # None
  /\ request' = [request EXCEPT ![r] = Route(method, id, body)]
  /\ UNCHANGED <<store, reply, answer>>

(* handle_rejection: what no route takes is a server error to both programs. *)
Reject(r) ==
  /\ request[r] # None /\ request[r].op = "rejected"
  /\ answer[r] = None
  /\ answer' = [answer EXCEPT ![r] = Failed]
  /\ UNCHANGED <<store, request, reply>>

(* The handler returns the store's reply. *)
Answer(r) ==
  /\ reply[r] # None
  /\ answer[r] = None
  /\ answer' = [answer EXCEPT ![r] = reply[r]]
  /\ UNCHANGED <<store, request, reply>>

(* hyper drops the handler of a client that hangs up, at an await. *)
HangUp(r) ==
  /\ request[r] # None
  /\ answer[r] = None
  /\ answer' = [answer EXCEPT ![r] = Nobody]
  /\ UNCHANGED <<store, request, reply>>

ClientStep(r) ==
  \/ \E method \in {"GET", "POST", "PUT", "DELETE"}, id \in Id \cup {None},
        body \in Body \cup {None} : Ask(r, method, id, body)
  \/ Reject(r) \/ Answer(r) \/ HangUp(r)
================================================================================
