------------------------------- MODULE Mailboxes -------------------------------
(***************************************************************************)
(* What the long-polling service promises its clients, without requests,    *)
(* channels or timers: one FIFO mailbox per client that has joined.         *)
(* A post reaches every mailbox but the poster's in one step, and a client  *)
(* takes the messages out of its own mailbox one at a time, oldest first.   *)
(***************************************************************************)
EXTENDS Naturals, Sequences

CONSTANTS Client,     \* the ids the service may hand out
          MaxSends    \* how many messages are ever posted

VARIABLES joined,     \* the clients that have a mailbox
          buf,        \* the mailbox of each client
          sent        \* the number of messages posted so far

vars == <<joined, buf, sent>>

Init == /\ joined = {}
        /\ buf = [c \in Client |-> <<>>]
        /\ sent = 0

Open(c) == /\ joined' = joined \cup {c}
           /\ UNCHANGED <<buf, sent>>

(* The poster need not have joined: any well-formed id is accepted. *)
Put(from) == /\ sent < MaxSends
             /\ sent' = sent + 1
             /\ buf' = [c \in Client |-> IF c \in joined \ {from}
                                         THEN Append(buf[c], sent + 1)
                                         ELSE buf[c]]
             /\ UNCHANGED joined

Take(c) == /\ c \in joined
           /\ buf[c] # <<>>
           /\ buf' = [buf EXCEPT ![c] = Tail(@)]
           /\ UNCHANGED <<joined, sent>>

Next == \E c \in Client : Open(c) \/ Put(c) \/ Take(c)

Spec == Init /\ [][Next]_vars
================================================================================
