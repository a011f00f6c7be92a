------------------------------ MODULE LongPolling ------------------------------
(***************************************************************************)
(* The long-polling chat server, long-polling/src/main.rs.                  *)
(*                                                                         *)
(* One hub (a HashMap behind a std Mutex) keeps for each client a message   *)
(* buffer and, while a GET /chat request of that client waits, the sending  *)
(* half of that request's notification channel (capacity one).  A step is   *)
(* what a request does between two points where another task can run: an    *)
(* await, or the acquisition of the hub's lock.                             *)
(*                                                                         *)
(* Poll and Post are slots for concurrent requests, reused when a request   *)
(* ends.  When a poll ends its receiver is dropped, so every reference to   *)
(* its channel becomes Gone: the slot's next request has a fresh channel.   *)
(* A message is the rank of the POST /send request that carries it.         *)
(***************************************************************************)
EXTENDS Naturals, Sequences, FiniteSets

CONSTANTS
  Client,      \* the ids GET /join may hand out
  Poll,        \* slots for GET /chat requests
  Post,        \* slots for POST /send requests
  MaxSends,    \* bound: messages ever posted
  MaxPolls,    \* bound: polls of one client running at once
  Disconnects, \* may a peer close its connection while its request waits?
  None,        \* no channel, no client, no message
  Gone         \* the sender of a channel whose receiver is dropped

ASSUME ConstantsAssumption ==
  /\ MaxSends \in Nat
  /\ MaxPolls \in Nat \ {0}
  /\ Disconnects \in BOOLEAN
  /\ None \notin Poll \cup Client \cup {Gone}
  /\ Gone \notin Poll

VARIABLES
  joined,      \* the clients in the hub
  buf,         \* MessageBuffer.buf of each client
  chan,        \* MessageBuffer.notification_chan of each client
  pollState,   \* where each poll is
  pollClient,  \* the client_id of each poll
  token,       \* how many () the poll's notification channel holds
  target,      \* the channel each post is awaiting sender.send(()) on
  pending,     \* the senders each post has yet to notify
  sent,        \* messages posted so far
  pushed,      \* history: messages ever put in each client's buffer
  popped       \* history: messages ever answered to each client's polls

hubVars  == <<joined, buf, chan>>
pollVars == <<pollState, pollClient, token>>
postVars == <<target, pending>>
history  == <<sent, pushed, popped>>
vars     == <<hubVars, pollVars, postVars, history>>

Message         == 1 .. MaxSends
ChannelCapacity == 1

TypeOK ==
  /\ joined \subseteq Client
  /\ buf \in [Client -> Seq(Message)]
  /\ chan \in [Client -> Poll \cup {None, Gone}]
  /\ pollState \in [Poll -> {"idle", "waiting", "woken", "timedout"}]
  /\ pollClient \in [Poll -> Client \cup {None}]
  /\ token \in [Poll -> 0 .. ChannelCapacity]
  /\ target \in [Post -> Poll \cup {None, Gone}]
  /\ pending \in [Post -> SUBSET (Poll \cup {Gone})]
  /\ sent \in 0 .. MaxSends
  /\ pushed \in [Client -> Seq(Message)]
  /\ popped \in [Client -> Seq(Message)]

Init ==
  /\ joined = {}
  /\ buf = [c \in Client |-> <<>>]
  /\ chan = [c \in Client |-> None]
  /\ pollState = [p \in Poll |-> "idle"]
  /\ pollClient = [p \in Poll |-> None]
  /\ token = [p \in Poll |-> 0]
  /\ target = [s \in Post |-> None]
  /\ pending = [s \in Post |-> {}]
  /\ sent = 0
  /\ pushed = [c \in Client |-> <<>>]
  /\ popped = [c \in Client |-> <<>>]

--------------------------------------------------------------------------------
(* GET /join. *)
Join(c) ==
  /\ c \notin joined
  /\ joined' = joined \cup {c}
  /\ UNCHANGED <<buf, chan, pollVars, postVars, history>>

--------------------------------------------------------------------------------
(* GET /chat. *)

(* Names ending in _wrong are plausible mistakes, each in the definition    *)
(* that follows it: every property is shown to fail under one of them.      *)
PopFront_wrong(c) ==      \* pop_back
  /\ buf' = [buf EXCEPT ![c] = SubSeq(@, 1, Len(@) - 1)]
  /\ popped' = [popped EXCEPT ![c] = Append(@, buf[c][Len(buf[c])])]
  /\ UNCHANGED <<joined, sent, pushed>>

(* The front of c's buffer becomes the answer of the request. *)
PopFront(c) ==
  /\ buf' = [buf EXCEPT ![c] = Tail(@)]
  /\ popped' = [popped EXCEPT ![c] = Append(@, Head(buf[c]))]
  /\ UNCHANGED <<joined, sent, pushed>>

Outstanding(c) == {p \in Poll : pollState[p] # "idle" /\ pollClient[p] = c}

Arrive(p, c) ==
  /\ pollState[p] = "idle"
  /\ c \in joined
  /\ Cardinality(Outstanding(c)) < MaxPolls

(* A buffered message is answered at once, and whichever poll of the client *)
(* is registered loses its sender.                                          *)
ChatAnswered(p, c) ==
  /\ Arrive(p, c)
  /\ buf[c] # <<>>
  /\ PopFront(c)
  /\ chan' = [chan EXCEPT ![c] = None]
  /\ UNCHANGED <<pollVars, postVars>>

ChatRegistered_wrong(p, c) ==      \* waits without looking at the buffer
  /\ Arrive(p, c)
  /\ chan' = [chan EXCEPT ![c] = p]
  /\ pollState' = [pollState EXCEPT ![p] = "waiting"]
  /\ pollClient' = [pollClient EXCEPT ![p] = c]
  /\ token' = [token EXCEPT ![p] = 0]
  /\ UNCHANGED <<joined, buf, postVars, history>>

ChatRegistered(p, c) ==
  /\ Arrive(p, c)
  /\ buf[c] = <<>>
  /\ chan' = [chan EXCEPT ![c] = p]
  /\ pollState' = [pollState EXCEPT ![p] = "waiting"]
  /\ pollClient' = [pollClient EXCEPT ![p] = c]
  /\ token' = [token EXCEPT ![p] = 0]
  /\ UNCHANGED <<joined, buf, postVars, history>>

Chat(c) == \E p \in Poll : ChatAnswered(p, c) \/ ChatRegistered(p, c)

Held(s) == pending[s] \cup {target[s]}

(* Somebody still owns a sender of p's channel. *)
Referenced(p) == \/ \E c \in Client : chan[c] = p
                 \/ \E s \in Post : p \in Held(s)

(* rx_for_notification.recv() completes: with the (), or with None because  *)
(* every sender has been dropped.                                           *)
Recv(p) ==
  /\ pollState[p] = "waiting"
  /\ token[p] > 0 \/ ~Referenced(p)
  /\ token' = [token EXCEPT ![p] = 0]
  /\ pollState' = [pollState EXCEPT ![p] = "woken"]
  /\ UNCHANGED <<hubVars, pollClient, postVars, history>>

(* The five-second timer wins the select!, whatever the channel holds. *)
Timeout(p) ==
  /\ pollState[p] = "waiting"
  /\ pollState' = [pollState EXCEPT ![p] = "timedout"]
  /\ UNCHANGED <<hubVars, pollClient, token, postVars, history>>

(* chat returns: p's receiver is dropped with the channel. *)
Rename(p, ref) == IF ref = p THEN Gone ELSE ref

EndPoll_wrong(p) ==      \* the receiver outlives the request
  /\ pollState' = [pollState EXCEPT ![p] = "idle"]
  /\ pollClient' = [pollClient EXCEPT ![p] = None]
  /\ UNCHANGED <<token, postVars>>

EndPoll(p) ==
  /\ pollState' = [pollState EXCEPT ![p] = "idle"]
  /\ pollClient' = [pollClient EXCEPT ![p] = None]
  /\ token' = [token EXCEPT ![p] = 0]
  /\ target' = [s \in Post |-> Rename(p, target[s])]
  /\ pending' = [s \in Post |-> {Rename(p, ref) : ref \in pending[s]}]

Deregister_wrong(p) == UNCHANGED chan      \* the sender stays in the hub

(* The branch of the select! takes the lock and clears notification_chan,   *)
(* which may by now be that of another poll of the same client.             *)
Deregister(p) == chan' = [chan EXCEPT ![pollClient[p]] = None]

AnswerWoken(p) ==
  /\ pollState[p] = "woken"
  /\ \/ buf[pollClient[p]] # <<>> /\ PopFront(pollClient[p])
     \/ buf[pollClient[p]] = <<>> /\ UNCHANGED <<joined, buf, history>>
  /\ Deregister(p)
  /\ EndPoll(p)

AnswerTimedOut(p) ==
  /\ pollState[p] = "timedout"
  /\ Deregister(p)
  /\ EndPoll(p)
  /\ UNCHANGED <<joined, buf, history>>

(* The peer of a waiting poll hangs up: the server drops the handler's      *)
(* future at its await, and nobody clears the hub's entry.                  *)
DropPoll(p) ==
  /\ Disconnects
  /\ pollState[p] = "waiting"
  /\ chan' = [c \in Client |-> Rename(p, chan[c])]
  /\ EndPoll(p)
  /\ UNCHANGED <<joined, buf, history>>

--------------------------------------------------------------------------------
(* POST /send. *)

(* The for loop goes on to one of the remaining senders, or ends.  The      *)
(* order is the HashMap's.                                                  *)
NextTarget(s, rest) ==
  \/ /\ rest = {}
     /\ target' = [target EXCEPT ![s] = None]
     /\ pending' = [pending EXCEPT ![s] = {}]
  \/ \E ref \in rest : /\ target' = [target EXCEPT ![s] = ref]
                       /\ pending' = [pending EXCEPT ![s] = rest \ {ref}]

Senders_wrong(clients) == {chan[c] : c \in joined} \ {None}      \* the poster's too

Senders(clients) == {chan[c] : c \in clients} \ {None}

Receivers_wrong(from) == joined      \* an echo to the poster

Receivers(from) == joined \ {from}

Send_wrong(s, from) ==      \* push_front
  /\ target[s] = None
  /\ sent < MaxSends
  /\ sent' = sent + 1
  /\ buf' = [c \in Client |-> IF c \in Receivers(from)
                              THEN <<sent + 1>> \o buf[c] ELSE buf[c]]
  /\ pushed' = [c \in Client |-> IF c \in Receivers(from)
                                 THEN Append(pushed[c], sent + 1) ELSE pushed[c]]
  /\ NextTarget(s, Senders(Receivers(from)))
  /\ UNCHANGED <<joined, chan, pollVars, popped>>

(* Under the lock: append to every other client's buffer and collect the    *)
(* senders of the polls to notify.  The poster need not have joined.        *)
Send(s, from) ==
  /\ target[s] = None
  /\ sent < MaxSends
  /\ sent' = sent + 1
  /\ buf' = [c \in Client |-> IF c \in Receivers(from)
                              THEN Append(buf[c], sent + 1) ELSE buf[c]]
  /\ pushed' = [c \in Client |-> IF c \in Receivers(from)
                                 THEN Append(pushed[c], sent + 1) ELSE pushed[c]]
  /\ NextTarget(s, Senders(Receivers(from)))
  /\ UNCHANGED <<joined, chan, pollVars, popped>>

(* sender.send(()).await: blocks while the channel is full, fails at once   *)
(* when the receiver is gone.                                               *)
Notify(s) ==
  /\ target[s] # None
  /\ \/ target[s] = Gone /\ UNCHANGED token
     \/ /\ target[s] \in Poll
        /\ token[target[s]] < ChannelCapacity
        /\ token' = [token EXCEPT ![target[s]] = @ + 1]
  /\ NextTarget(s, pending[s])
  /\ UNCHANGED <<hubVars, pollState, pollClient, history>>

(* The poster hangs up while its request is blocked in Notify. *)
DropPost(s) ==
  /\ Disconnects
  /\ target[s] # None
  /\ target' = [target EXCEPT ![s] = None]
  /\ pending' = [pending EXCEPT ![s] = {}]
  /\ UNCHANGED <<hubVars, pollVars, history>>

--------------------------------------------------------------------------------
ClientStep(c) == Join(c) \/ Chat(c) \/ \E s \in Post : Send(s, c)

PollStep(p) == \/ Recv(p) \/ AnswerWoken(p)
               \/ Timeout(p) \/ AnswerTimedOut(p)
               \/ DropPoll(p)

PostStep(s) == Notify(s) \/ DropPost(s)

Next == \/ \E c \in Client : ClientStep(c)
        \/ \E p \in Poll : PollStep(p)
        \/ \E s \in Post : PostStep(s)

Spec == Init /\ [][Next]_vars

(* The runtime polls every task that can make progress, and a timer that is *)
(* set fires.  That a client which has joined asks again whenever its last  *)
(* poll has ended is what the loop of client.sh does.                       *)
Fairness ==
  /\ \A p \in Poll : /\ WF_vars(Recv(p) \/ Timeout(p))
                     /\ WF_vars(AnswerWoken(p) \/ AnswerTimedOut(p))
  /\ \A s \in Post : WF_vars(Notify(s))
  /\ \A c \in Client : WF_vars(Chat(c))

FairSpec == Spec /\ Fairness

--------------------------------------------------------------------------------
(* PROPERTIES *)

(* No lost wakeup: a poll that waits while its client has a message is      *)
(* about to be woken.  Its channel holds a notification, or is closed, or   *)
(* some send that has already released the lock still has to notify it.     *)
(* Otherwise the message would sit there until the timer of the poll.       *)
NoLostWakeup ==
  \A p \in Poll :
    pollState[p] = "waiting" /\ buf[pollClient[p]] # <<>>
      => \/ token[p] > 0
         \/ ~Referenced(p)
         \/ \E s \in Post : p \in Held(s)

(* Only a poster that hangs up before it has notified everybody can lose a  *)
(* wakeup: no step of a poll, its timer, its peer or another send does.     *)
OnlyPostersLoseWakeups ==
  [][NoLostWakeup => NoLostWakeup' \/ \E s \in Post : DropPost(s)]_vars

(* A registration is that of a running poll of the same client, or of one   *)
(* whose receiver is gone; and senders never outlive an ended poll's        *)
(* channel unnoticed, so that no send waits on a channel nobody will drop.  *)
ReferencesAreLive ==
  /\ \A c \in Client : chan[c] \in Poll => pollClient[chan[c]] = c
  /\ \A p \in Poll : Referenced(p) => pollState[p] # "idle"
  /\ \A p \in Poll : pollState[p] # "idle" => pollClient[p] \in joined

(* Nothing is lost, duplicated or reordered between send and chat: what was *)
(* answered to c's polls followed by what is still buffered is exactly what *)
(* was put in c's buffer, even when several polls of c race with timers.    *)
FifoPerClient == \A c \in Client : pushed[c] = popped[c] \o buf[c]

(* All clients are answered in the one order in which the hub accepted the  *)
(* messages, and none sees a message twice.                                 *)
OneOrder ==
  \A c \in Client : \A i, j \in DOMAIN popped[c] :
    i < j => popped[c][i] < popped[c][j]

(* main.rs:96-97 says of a timer whose send fails, because the request has  *)
(* ended before it: "A message has already been sent."  That is, a poll     *)
(* that ends by a wakeup has answered with a message.                       *)
WokenPollAnswers ==
  [][\A p \in Poll : pollState[p] = "woken" /\ pollState'[p] = "idle"
       => popped'[pollClient[p]] # popped[pollClient[p]]]_vars

(* A POST /send returns: the capacity-one channels it may block on are      *)
(* drained or dropped by the polls that own them.                           *)
SendReturns == \A s \in Post : target[s] # None ~> target[s] = None

(* Every message a client was sent is eventually the answer of one of its   *)
(* polls, as long as it keeps polling, whoever hangs up in between.         *)
EveryMessageFetched ==
  \A c \in Client : \A n \in Message :
    Len(pushed[c]) >= n ~> Len(popped[c]) >= n

(* Requests, channels, timers and disconnections implement the mailboxes.   *)
Promise == INSTANCE Mailboxes
ImplementsMailboxes == Promise!Spec

(* The inductive invariant behind the safety properties when no poster      *)
(* hangs up, the only event that can lose a wakeup.                         *)
NotifyingHasTarget == \A s \in Post : target[s] = None => pending[s] = {}

PushedInOrder ==
  \A c \in Client : \A i \in DOMAIN pushed[c] :
    /\ pushed[c][i] <= sent
    /\ \A j \in DOMAIN pushed[c] : i < j => pushed[c][i] < pushed[c][j]

IInv == /\ TypeOK
        /\ ReferencesAreLive
        /\ NotifyingHasTarget
        /\ FifoPerClient
        /\ PushedInOrder

(* What makes WokenPollAnswers true when a client has one poll at a time:   *)
(* a poll that waits is the registered one, so only a notification wakes    *)
(* it, and whoever is or will be notified has a message of its client's     *)
(* left, which nobody else answers.                                         *)
OnePollInv ==
  /\ \A p, q \in Poll : (pollState[p] # "idle" /\ pollState[q] # "idle"
                          /\ pollClient[p] = pollClient[q]) => p = q
  /\ \A p \in Poll : pollState[p] = "waiting" => chan[pollClient[p]] = p
  /\ \A p \in Poll : pollState[p] = "idle" => token[p] = 0
  /\ \A p \in Poll : (\/ token[p] > 0 \/ pollState[p] = "woken"
                      \/ \E s \in Post : p \in Held(s)) => buf[pollClient[p]] # <<>>
================================================================================
