---------------------------------- MODULE Crud ----------------------------------
(***************************************************************************)
(* The two programs of crud, of which one is run: whichever it is, it keeps *)
(* the promise of EmployeeStore.                                            *)
(***************************************************************************)
EXTENDS SimpleCrud, PostgresCrud

VARIABLE program

vars == <<program, shared, simple, pg>>

Init ==
  /\ \/ program = "simple" /\ SimpleInit /\ sequence = 0 /\ max_open = 0
     \/ program = "with_postgres" /\ PgInit /\ id_counter = 0
  /\ RequestsInit
  /\ SimpleRequestsInit /\ PgRequestsInit

Simple(r) == program = "simple" /\ SimpleStep(r) /\ UNCHANGED <<program, pg>>

Postgres(r) == program = "with_postgres" /\ PgStep(r) /\ UNCHANGED <<program, simple>>

Client(r) == ClientStep(r) /\ UNCHANGED <<program, simple, pg>>

Next == \E r \in Request : Client(r) \/ Simple(r) \/ Postgres(r)

Spec == Init /\ [][Next]_vars

(* Tasks go on while they can, and so does the database with what it was    *)
(* sent.  Nobody must ask or hang up, and nothing must fail: EveryRequest-  *)
(* Answered does not rest on the pool's timeout.                            *)
Proceeds(r) ==
  \/ (Reject(r) \/ Answer(r)) /\ UNCHANGED <<program, simple, pg>>
  \/ Simple(r)
  \/ (Connect(r) \/ DatabaseStep(r)) /\ program = "with_postgres" /\ UNCHANGED <<program, simple>>

FairSpec == Spec /\ \A r \in Request : WF_vars(Proceeds(r))

--------------------------------------------------------------------------------
(* PROPERTIES *)

(* Requests take effect at once, at most once, and what a client is told is *)
(* true, however statements, failures and hung-up clients interleave.       *)
Store == INSTANCE EmployeeStore
ImplementsEmployeeStore == Store!Spec

(* An id is never given twice, and an employee that was deleted never comes *)
(* back, whatever updates were under way.                                   *)
DeletedStaysDeleted ==
  [][\A i \in used : i \notin DOMAIN employees => i \notin DOMAIN employees']_vars

(* Replies are given one at a time and for good, and nothing changes in the *)
(* store but the one row that a client is told of by then: a reader is told *)
(* what is stored, a writer what is stored from then on.                    *)
SameRow(f, g, i) == i \in DOMAIN f /\ i \in DOMAIN g /\ f[i] = g[i]

OneEffect ==
  \/ UNCHANGED <<employees, reply>>
  \/ \E r \in Request :
       /\ request[r] # None /\ reply[r] = None
       /\ \A q \in Request \ {r} : reply'[q] = reply[q]
       /\ reply'[r].code \in {200, 404}
       /\ request[r].op \in {"get", "list"} => UNCHANGED employees
       /\ request[r].op \in {"post", "put"} =>
            \A i \in DOMAIN reply'[r].employees : SameRow(reply'[r].employees, employees', i)
       /\ request[r].op \notin {"post", "put"} =>
            \A i \in DOMAIN reply'[r].employees : SameRow(reply'[r].employees, employees, i)
       /\ \A i \in (DOMAIN employees \cup DOMAIN employees') \ DOMAIN reply'[r].employees :
            SameRow(employees, employees', i)

EffectsOnce == [][OneEffect]_vars

(* Whoever adds an employee is told an id of their own, also when several   *)
(* do so at once.                                                           *)
Posted == {r \in Request : reply[r] # None /\ request[r].op = "post"}

PostedApart ==
  \A r \in Posted : \E i \in used : /\ DOMAIN reply[r].employees = {i}
                                   /\ \A q \in Posted \ {r} : i \notin DOMAIN reply[q].employees

(* The row a transaction has found stays until the transaction ends, which  *)
(* is why the error for an UPDATE that returns nothing is unexpected.       *)
FoundStays ==
  \A r \in Request : stage[r] \in {"found", "updated"} => request[r].id \in DOMAIN employees

(* Every request is answered, or its client hangs up: transactions that     *)
(* wait for each other's rows or connections come to an end, also after     *)
(* clients have left theirs unfinished.                                     *)
EveryRequestAnswered == \A r \in Request : request[r] # None ~> answer[r] # None

(* The inductive invariant. *)
TypeOK ==
  /\ RequestsOK
  /\ program \in {"simple", "with_postgres"}
  /\ SimpleOK
  /\ {sequence, max_open} \subseteq Nat
  /\ stage \in [Request -> Stage] /\ number \in [Request -> Nat]

(* Ids count up, and every INSERT that is under way has one of its own. *)
IdsAreFresh ==
  /\ program = "simple" => used \subseteq 0 .. id_counter
  /\ program = "with_postgres" => used \subseteq 0 .. sequence
  /\ \A r \in Request : stage[r] = "numbered" => /\ number[r] \in (0 .. sequence) \ used
                                                 /\ \A q \in Request \ {r} :
                                                      stage[q] = "numbered" => number[q] # number[r]

(* How far a request has come agrees with what it is and was told. *)
StagesAgree ==
  \A r \in Request :
    /\ program = "simple" => stage[r] = "waiting"
    /\ program = "with_postgres" => db = {}
    /\ program = "with_postgres" /\ stage[r] # "over" => reply[r] = None
    /\ stage[r] # "waiting" => request[r] # None
    /\ Locks(r) => request[r].op = "put"

(* One handler has the map, and what it is about to insert is a new row, or *)
(* one that is there.                                                       *)
MapIsHeld ==
  \A r \in Request :
    /\ r \in db => /\ request[r] # None /\ reply[r] = None
                   /\ \A q \in db : q = r
    /\ new_id[r] # None => /\ r \in db
                           /\ \/ /\ request[r].op = "post"
                                 /\ new_id[r] \in (0 .. id_counter) \ used
                              \/ /\ request[r].op = "put"
                                 /\ new_id[r] = request[r].id /\ new_id[r] \in DOMAIN employees

StepInv == TypeOK /\ IdsAreFresh /\ StagesAgree /\ MapIsHeld /\ FoundStays

IInv == StepInv /\ PostedApart
================================================================================
