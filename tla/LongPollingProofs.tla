--------------------------- MODULE LongPollingProofs ---------------------------
(* Theorems about LongPolling, for any clients, requests and bounds. *)
EXTENDS LongPolling, FiniteSetTheorems, SequenceTheorems, TLAPS

USE DEF ChannelCapacity

(* Moving the front of one sequence to the end of another keeps their       *)
(* concatenation: the step of every answered poll.                          *)
LEMMA MoveFront ==
  ASSUME NEW S, NEW s \in Seq(S), NEW t \in Seq(S), t # <<>>
  PROVE  /\ Head(t) \in S
         /\ Tail(t) \in Seq(S)
         /\ Append(s, Head(t)) \in Seq(S)
         /\ Append(s, Head(t)) \o Tail(t) = s \o t
<1>1. Head(t) \in S /\ Tail(t) \in Seq(S)
  BY HeadTailProperties
<1>2. t = <<Head(t)>> \o Tail(t)
  BY <1>1, SMT
<1>3. Append(s, Head(t)) = s \o <<Head(t)>>
  BY <1>1, AppendIsConcat
<1>4. <<Head(t)>> \in Seq(S)
  BY <1>1
<1>5. (s \o <<Head(t)>>) \o Tail(t) = s \o (<<Head(t)>> \o Tail(t))
  BY <1>1, <1>4, ConcatAssociative
<1> QED
  BY <1>1, <1>2, <1>3, <1>5, AppendProperties

(* Appending to the second sequence appends to the concatenation: the step  *)
(* of every message that is sent.                                           *)
LEMMA AppendRight ==
  ASSUME NEW S, NEW s \in Seq(S), NEW t \in Seq(S), NEW e \in S
  PROVE  s \o Append(t, e) = Append(s \o t, e)
<1>1. Append(t, e) = t \o <<e>> /\ <<e>> \in Seq(S)
  BY AppendIsConcat
<1>2. (s \o t) \o <<e>> = s \o (t \o <<e>>)
  BY <1>1, ConcatAssociative
<1>3. s \o t \in Seq(S)
  BY ConcatProperties
<1> QED
  BY <1>1, <1>2, <1>3, AppendIsConcat

(* A sequence is a prefix of its concatenation with another. *)
LEMMA PrefixOfConcat ==
  ASSUME NEW S, NEW s \in Seq(S), NEW t \in Seq(S), NEW k \in DOMAIN s
  PROVE  k \in DOMAIN (s \o t) /\ (s \o t)[k] = s[k]
<1>1. DOMAIN s = 1 .. Len(s) /\ Len(s) \in Nat /\ Len(t) \in Nat
  BY LenProperties
<1>2. Len(s \o t) = Len(s) + Len(t) /\ DOMAIN (s \o t) = 1 .. Len(s \o t)
  BY ConcatProperties, LenProperties
<1> QED
  BY <1>1, <1>2, ConcatProperties

--------------------------------------------------------------------------------
(* The hub and the tables of polls and posts start well-typed. *)
LEMMA InitTypeOK == Init => TypeOK
BY ConstantsAssumption DEF Init, TypeOK

(* The steps that end a poll keep the types of what they touch. *)
LEMMA EndPollTypes ==
  ASSUME TypeOK, NEW p \in Poll, EndPoll(p)
  PROVE  /\ pollState' \in [Poll -> {"idle", "waiting", "woken", "timedout"}]
         /\ pollClient' \in [Poll -> Client \cup {None}]
         /\ token' \in [Poll -> 0 .. ChannelCapacity]
         /\ target' \in [Post -> Poll \cup {None, Gone}]
         /\ pending' \in [Post -> SUBSET (Poll \cup {Gone})]
BY DEF TypeOK, EndPoll, Rename

(* Popping a buffer's front keeps the types of buffers and histories. *)
LEMMA PopFrontTypes ==
  ASSUME TypeOK, NEW c \in Client, buf[c] # <<>>, PopFront(c)
  PROVE  /\ buf' \in [Client -> Seq(Message)]
         /\ popped' \in [Client -> Seq(Message)]
         /\ joined' = joined /\ sent' = sent /\ pushed' = pushed
         /\ \A d \in Client : popped'[d] \o buf'[d] = popped[d] \o buf[d]
<1>1. buf[c] \in Seq(Message) /\ popped[c] \in Seq(Message)
  BY DEF TypeOK
<1>2. /\ Tail(buf[c]) \in Seq(Message)
      /\ Append(popped[c], Head(buf[c])) \in Seq(Message)
      /\ Append(popped[c], Head(buf[c])) \o Tail(buf[c]) = popped[c] \o buf[c]
  BY <1>1, MoveFront
<1> QED
  BY <1>2 DEF TypeOK, PopFront

(* The loop over the targets keeps the type of the table of posts. *)
LEMMA NextTargetTypes ==
  ASSUME TypeOK, NEW s \in Post, NEW rest \in SUBSET (Poll \cup {Gone}),
         NextTarget(s, rest)
  PROVE  /\ target' \in [Post -> Poll \cup {None, Gone}]
         /\ pending' \in [Post -> SUBSET (Poll \cup {Gone})]
         /\ \A r \in Post \ {s} : target'[r] = target[r] /\ pending'[r] = pending[r]
         /\ rest \subseteq Held(s)'
         /\ Held(s)' \subseteq rest \cup {None}
         /\ target'[s] = None => pending'[s] = {}
<1>1. CASE rest = {} /\ target' = [target EXCEPT ![s] = None]
                    /\ pending' = [pending EXCEPT ![s] = {}]
  BY <1>1 DEF TypeOK, Held
<1>2. ASSUME NEW ref \in rest, target' = [target EXCEPT ![s] = ref],
             pending' = [pending EXCEPT ![s] = rest \ {ref}]
      PROVE  /\ target' \in [Post -> Poll \cup {None, Gone}]
             /\ pending' \in [Post -> SUBSET (Poll \cup {Gone})]
             /\ \A r \in Post \ {s} : target'[r] = target[r] /\ pending'[r] = pending[r]
             /\ target'[s] = ref /\ pending'[s] = rest \ {ref} /\ ref # None
  BY <1>2, ConstantsAssumption DEF TypeOK
<1> QED
  BY <1>1, <1>2 DEF NextTarget, Held

(* What a send does to the buffers. *)
LEMMA SendTypes ==
  ASSUME TypeOK, NEW s \in Post, NEW from \in Client, Send(s, from)
  PROVE  /\ sent' \in 0 .. MaxSends
         /\ sent + 1 \in Message
         /\ buf' \in [Client -> Seq(Message)]
         /\ pushed' \in [Client -> Seq(Message)]
         /\ Senders(Receivers(from)) \in SUBSET (Poll \cup {Gone})
<1>1. sent + 1 \in Message /\ sent' \in 0 .. MaxSends
  BY ConstantsAssumption DEF TypeOK, Send, Message
<1>2. \A c \in Client : /\ Append(buf[c], sent + 1) \in Seq(Message)
                        /\ Append(pushed[c], sent + 1) \in Seq(Message)
  BY <1>1, AppendProperties DEF TypeOK
<1> QED
  BY <1>1, <1>2 DEF TypeOK, Send, Senders, Receivers

(* The front of a buffer is only popped for a client the request named. *)
LEMMA NextTypeOK == TypeOK /\ ReferencesAreLive /\ [Next]_vars => TypeOK'
<1> SUFFICES ASSUME TypeOK, ReferencesAreLive, [Next]_vars PROVE TypeOK'
  OBVIOUS
<1>1. ASSUME NEW c \in Client, Join(c) PROVE TypeOK'
  BY <1>1 DEF TypeOK, Join, pollVars, postVars, history
<1>2. ASSUME NEW c \in Client, NEW p \in Poll, ChatAnswered(p, c) PROVE TypeOK'
  BY <1>2, PopFrontTypes DEF TypeOK, ChatAnswered, pollVars, postVars
<1>3. ASSUME NEW c \in Client, NEW p \in Poll, ChatRegistered(p, c) PROVE TypeOK'
  <2>1. /\ chan' \in [Client -> Poll \cup {None, Gone}]
        /\ pollClient' \in [Poll -> Client \cup {None}]
    BY <1>3 DEF TypeOK, ChatRegistered
  <2>2. pollState' \in [Poll -> {"idle", "waiting", "woken", "timedout"}]
    BY <1>3 DEF TypeOK, ChatRegistered
  <2>3. token' \in [Poll -> 0 .. ChannelCapacity]
    BY <1>3 DEF TypeOK, ChatRegistered
  <2>4. UNCHANGED <<joined, buf, target, pending, sent, pushed, popped>>
    BY <1>3 DEF ChatRegistered, postVars, history
  <2> QED
    BY <2>1, <2>2, <2>3, <2>4 DEF TypeOK
<1>4. ASSUME NEW c \in Client, NEW s \in Post, Send(s, c) PROVE TypeOK'
  <2>1. NextTarget(s, Senders(Receivers(c)))
    BY <1>4 DEF Send
  <2> QED
    BY <1>4, <2>1, SendTypes, NextTargetTypes DEF TypeOK, Send, pollVars
<1>5. ASSUME NEW p \in Poll, Recv(p) PROVE TypeOK'
  BY <1>5 DEF TypeOK, Recv, hubVars, postVars, history
<1>6. ASSUME NEW p \in Poll, Timeout(p) PROVE TypeOK'
  BY <1>6 DEF TypeOK, Timeout, hubVars, postVars, history
<1>7. ASSUME NEW p \in Poll, AnswerWoken(p) PROVE TypeOK'
  <2> DEFINE c == pollClient[p]
  <2>1. CASE c \in Client /\ buf[c] # <<>> /\ PopFront(c)
    BY <1>7, <2>1, EndPollTypes, PopFrontTypes DEF TypeOK, AnswerWoken, Deregister
  <2>2. CASE UNCHANGED <<joined, buf, history>>
    BY <1>7, <2>2, EndPollTypes DEF TypeOK, AnswerWoken, Deregister, history
  <2>3. c \in Client
    BY <1>7 DEF TypeOK, AnswerWoken, ReferencesAreLive
  <2> QED
    BY <1>7, <2>1, <2>2, <2>3 DEF AnswerWoken
<1>8. ASSUME NEW p \in Poll, AnswerTimedOut(p) PROVE TypeOK'
  BY <1>8, EndPollTypes DEF TypeOK, AnswerTimedOut, Deregister, history
<1>9. ASSUME NEW p \in Poll, DropPoll(p) PROVE TypeOK'
  BY <1>9, EndPollTypes DEF TypeOK, DropPoll, Rename, history
<1>10. ASSUME NEW s \in Post, Notify(s) PROVE TypeOK'
  <2>1. token' \in [Poll -> 0 .. ChannelCapacity]
    BY <1>10 DEF TypeOK, Notify
  <2>2. pending[s] \in SUBSET (Poll \cup {Gone}) /\ NextTarget(s, pending[s])
    BY <1>10 DEF TypeOK, Notify
  <2> QED
    BY <1>10, <2>1, <2>2, NextTargetTypes DEF TypeOK, Notify, hubVars, history
<1>11. ASSUME NEW s \in Post, DropPost(s) PROVE TypeOK'
  BY <1>11 DEF TypeOK, DropPost, hubVars, pollVars, history
<1>12. CASE UNCHANGED vars
  BY <1>12 DEF TypeOK, vars, hubVars, pollVars, postVars, history
<1> QED
  BY <1>1, <1>2, <1>3, <1>4, <1>5, <1>6, <1>7, <1>8, <1>9, <1>10, <1>11, <1>12
  DEF Next, ClientStep, PollStep, PostStep, Chat

--------------------------------------------------------------------------------
(* The end of a poll takes its channel away from everyone who had a sender. *)
LEMMA EndPollReferences ==
  ASSUME TypeOK, ReferencesAreLive, NEW p \in Poll, EndPoll(p),
         chan' \in [Client -> Poll \cup {None, Gone}],
         \A c \in Client : chan'[c] \in {chan[c], None, Gone} /\ chan'[c] # p,
         joined' = joined
  PROVE  ReferencesAreLive'
<1>1. p # Gone /\ p # None
  BY ConstantsAssumption
<1>2. \A c \in Client : chan'[c] \in Poll => chan'[c] = chan[c] /\ chan[c] # p
  BY ConstantsAssumption
<1>3. \A s \in Post : \A q \in Poll : q \in Held(s)' => q # p /\ q \in Held(s)
  BY <1>1, ConstantsAssumption DEF TypeOK, EndPoll, Rename, Held
<1>4. \A q \in Poll : Referenced(q)' => q # p /\ Referenced(q)
  BY <1>2, <1>3 DEF Referenced
<1>5. \A q \in Poll \ {p} : pollState'[q] = pollState[q] /\ pollClient'[q] = pollClient[q]
  BY DEF TypeOK, EndPoll
<1>6. pollState'[p] = "idle"
  BY DEF TypeOK, EndPoll
<1> QED
  BY <1>2, <1>4, <1>5, <1>6 DEF ReferencesAreLive, TypeOK

(* Steps that leave the polls alone and give nobody a sender it had not. *)
LEMMA FewerReferences ==
  ASSUME ReferencesAreLive, UNCHANGED <<chan, pollState, pollClient>>,
         joined \subseteq joined',
         \A q \in Poll : Referenced(q)' => Referenced(q)
  PROVE  ReferencesAreLive'
BY DEF ReferencesAreLive

(* Only live polls are referred to by registrations and by posts. *)
LEMMA NextReferencesAreLive ==
  TypeOK /\ ReferencesAreLive /\ [Next]_vars => ReferencesAreLive'
<1> SUFFICES ASSUME TypeOK, ReferencesAreLive, [Next]_vars
             PROVE  ReferencesAreLive'
  OBVIOUS
<1>0. TypeOK'
  BY NextTypeOK
<1>1. ASSUME NEW c \in Client, Join(c) PROVE ReferencesAreLive'
  BY <1>1 DEF Join, ReferencesAreLive, Referenced, Held, pollVars, postVars
<1>2. ASSUME NEW c \in Client, NEW p \in Poll, ChatAnswered(p, c) PROVE ReferencesAreLive'
  <2>1. \A d \in Client : chan'[d] \in Poll => chan'[d] = chan[d]
    BY <1>2, ConstantsAssumption DEF ChatAnswered, TypeOK
  <2> QED
    BY <1>2, <2>1
    DEF ChatAnswered, PopFront, ReferencesAreLive, Referenced, Held, pollVars, postVars
<1>3. ASSUME NEW c \in Client, NEW p \in Poll, ChatRegistered(p, c) PROVE ReferencesAreLive'
  <2>1. ~Referenced(p) /\ c \in joined
    BY <1>3 DEF ChatRegistered, Arrive, ReferencesAreLive
  <2>2. \A d \in Client \ {c} : chan'[d] = chan[d] /\ chan[d] # p
    BY <1>3, <2>1 DEF ChatRegistered, TypeOK, Referenced
  <2>3. chan'[c] = p
    BY <1>3 DEF ChatRegistered, TypeOK
  <2>4. \A q \in Poll \ {p} : /\ Referenced(q)' => Referenced(q)
                            /\ pollState'[q] = pollState[q]
                            /\ pollClient'[q] = pollClient[q]
    BY <1>3, <2>2, <2>3 DEF ChatRegistered, TypeOK, Referenced, Held, postVars
  <2>5. pollState'[p] = "waiting" /\ pollClient'[p] = c /\ joined' = joined
    BY <1>3 DEF ChatRegistered, TypeOK
  <2> QED
    BY <2>1, <2>2, <2>3, <2>4, <2>5 DEF ReferencesAreLive
<1>4. ASSUME NEW c \in Client, NEW s \in Post, Send(s, c) PROVE ReferencesAreLive'
  <2>1. /\ Senders(Receivers(c)) \in SUBSET (Poll \cup {Gone})
        /\ NextTarget(s, Senders(Receivers(c)))
    BY <1>4, SendTypes DEF Send
  <2>2. \A q \in Poll : q \in Senders(Receivers(c)) => Referenced(q)
    BY DEF Senders, Receivers, Referenced, TypeOK
  <2>3. /\ \A r \in Post \ {s} : Held(r)' = Held(r)
        /\ Held(s)' \subseteq Senders(Receivers(c)) \cup {None}
    BY <2>1, NextTargetTypes DEF Held
  <2>4. UNCHANGED <<joined, chan, pollState, pollClient>>
    BY <1>4 DEF Send, pollVars
  <2>5. \A q \in Poll : Referenced(q)' => Referenced(q)
    BY <2>2, <2>3, <2>4, ConstantsAssumption DEF Referenced
  <2> QED
    BY <2>4, <2>5, FewerReferences
<1>5. ASSUME NEW p \in Poll, Recv(p) PROVE ReferencesAreLive'
  BY <1>5 DEF Recv, TypeOK, ReferencesAreLive, Referenced, Held, hubVars, postVars
<1>6. ASSUME NEW p \in Poll, Timeout(p) PROVE ReferencesAreLive'
  BY <1>6 DEF Timeout, TypeOK, ReferencesAreLive, Referenced, Held, hubVars, postVars
<1>7. ASSUME NEW p \in Poll, AnswerWoken(p) \/ AnswerTimedOut(p) PROVE ReferencesAreLive'
  <2>1. EndPoll(p) /\ Deregister(p) /\ joined' = joined /\ pollState[p] # "idle"
    BY <1>7 DEF AnswerWoken, AnswerTimedOut, PopFront
  <2>2. \A c \in Client : chan'[c] \in {chan[c], None} /\ chan'[c] # p
    BY <2>1, ConstantsAssumption DEF Deregister, TypeOK, ReferencesAreLive
  <2> QED
    BY <1>0, <2>1, <2>2, EndPollReferences DEF TypeOK
<1>8. ASSUME NEW p \in Poll, DropPoll(p) PROVE ReferencesAreLive'
  <2>1. \A c \in Client : chan'[c] \in {chan[c], Gone} /\ chan'[c] # p
    BY <1>8, ConstantsAssumption DEF DropPoll, Rename
  <2> QED
    BY <1>0, <1>8, <2>1, EndPollReferences DEF DropPoll, TypeOK
<1>9. ASSUME NEW s \in Post, Notify(s) PROVE ReferencesAreLive'
  <2>1. pending[s] \in SUBSET (Poll \cup {Gone}) /\ NextTarget(s, pending[s])
    BY <1>9 DEF Notify, TypeOK
  <2>2. /\ \A r \in Post \ {s} : Held(r)' = Held(r)
        /\ Held(s)' \subseteq pending[s] \cup {None}
    BY <2>1, NextTargetTypes DEF Held
  <2>3. UNCHANGED <<joined, chan, pollState, pollClient>>
    BY <1>9 DEF Notify, hubVars
  <2>4. \A q \in Poll : Referenced(q)' => Referenced(q)
    BY <2>2, <2>3, ConstantsAssumption DEF Referenced, Held
  <2> QED
    BY <2>3, <2>4, FewerReferences
<1>10. ASSUME NEW s \in Post, DropPost(s) PROVE ReferencesAreLive'
  <2>1. \A r \in Post : Held(r)' \subseteq Held(r) \cup {None}
    BY <1>10 DEF DropPost, Held, TypeOK
  <2>2. UNCHANGED <<joined, chan, pollState, pollClient>>
    BY <1>10 DEF DropPost, hubVars, pollVars
  <2>3. \A q \in Poll : Referenced(q)' => Referenced(q)
    BY <2>1, <2>2, ConstantsAssumption DEF Referenced
  <2> QED
    BY <2>2, <2>3, FewerReferences
<1>11. CASE UNCHANGED vars
  BY <1>11 DEF vars, hubVars, pollVars, postVars, ReferencesAreLive, Referenced, Held
<1> QED
  BY <1>1, <1>2, <1>3, <1>4, <1>5, <1>6, <1>7, <1>8, <1>9, <1>10, <1>11
  DEF Next, ClientStep, PollStep, PostStep, Chat

--------------------------------------------------------------------------------
(* A post that is notifying has a target left. *)
LEMMA NextNotifyingHasTarget ==
  TypeOK /\ NotifyingHasTarget /\ [Next]_vars => NotifyingHasTarget'
<1> SUFFICES ASSUME TypeOK, NotifyingHasTarget, [Next]_vars PROVE NotifyingHasTarget'
  OBVIOUS
<1>1. ASSUME NEW s \in Post, NEW rest \in SUBSET (Poll \cup {Gone}), NextTarget(s, rest)
      PROVE  NotifyingHasTarget'
  BY <1>1, NextTargetTypes DEF NotifyingHasTarget
<1>2. ASSUME NEW c \in Client, NEW s \in Post, Send(s, c) PROVE NotifyingHasTarget'
  BY <1>1, <1>2, SendTypes DEF Send
<1>3. ASSUME NEW s \in Post, Notify(s) PROVE NotifyingHasTarget'
  BY <1>1, <1>3 DEF Notify, TypeOK
<1>4. ASSUME NEW s \in Post, DropPost(s) PROVE NotifyingHasTarget'
  BY <1>4 DEF DropPost, NotifyingHasTarget, TypeOK
<1>5. ASSUME NEW p \in Poll, EndPoll(p) PROVE NotifyingHasTarget'
  BY <1>5, ConstantsAssumption DEF EndPoll, Rename, NotifyingHasTarget, TypeOK
<1>6. CASE UNCHANGED postVars
  BY <1>6 DEF postVars, NotifyingHasTarget
<1> QED
  BY <1>2, <1>3, <1>4, <1>5, <1>6
  DEF Next, ClientStep, PollStep, PostStep, Chat, Join, ChatAnswered, ChatRegistered,
      Recv, AnswerWoken, Timeout, AnswerTimedOut, DropPoll, vars

--------------------------------------------------------------------------------
(* How a step may change the buffers: not at all, by an answer to one       *)
(* client, or by a send to all but the poster.                              *)
LEMMA BufferSteps ==
  ASSUME TypeOK, ReferencesAreLive, [Next]_vars
  PROVE  \/ UNCHANGED <<buf, history>>
         \/ \E c \in joined : buf[c] # <<>> /\ PopFront(c)
         \/ \E s \in Post, c \in Client : Send(s, c)
<1>1. ASSUME NEW p \in Poll, AnswerWoken(p)
      PROVE  \/ UNCHANGED <<buf, history>>
             \/ \E c \in joined : buf[c] # <<>> /\ PopFront(c)
  BY <1>1 DEF AnswerWoken, ReferencesAreLive
<1>2. ASSUME NEW p \in Poll, NEW c \in Client, ChatAnswered(p, c)
      PROVE  \E d \in joined : buf[d] # <<>> /\ PopFront(d)
  BY <1>2 DEF ChatAnswered, Arrive
<1> QED
  BY <1>1, <1>2
  DEF Next, ClientStep, PollStep, PostStep, Chat, Join, ChatRegistered, Recv, Timeout,
      AnswerTimedOut, DropPoll, Notify, DropPost, vars, hubVars, history

(* No step loses, duplicates or reorders what is pushed to a client. *)
LEMMA NextFifoPerClient ==
  TypeOK /\ ReferencesAreLive /\ FifoPerClient /\ [Next]_vars => FifoPerClient'
<1> SUFFICES ASSUME TypeOK, ReferencesAreLive, FifoPerClient, [Next]_vars
             PROVE  FifoPerClient'
  OBVIOUS
<1>1. CASE UNCHANGED <<buf, history>>
  BY <1>1 DEF FifoPerClient, history
<1>2. ASSUME NEW c \in joined, buf[c] # <<>>, PopFront(c) PROVE FifoPerClient'
  BY <1>2, PopFrontTypes DEF FifoPerClient, TypeOK
<1>3. ASSUME NEW s \in Post, NEW from \in Client, Send(s, from) PROVE FifoPerClient'
  <2>1. ASSUME NEW c \in Client
        PROVE  pushed'[c] = popped'[c] \o buf'[c]
    <3>1. /\ popped[c] \in Seq(Message) /\ buf[c] \in Seq(Message)
          /\ pushed[c] = popped[c] \o buf[c]
          /\ popped'[c] = popped[c] /\ sent + 1 \in Message
      BY <1>3, SendTypes DEF Send, TypeOK, FifoPerClient
    <3>2. popped[c] \o Append(buf[c], sent + 1) = Append(popped[c] \o buf[c], sent + 1)
      <4>1. \A u, t \in Seq(Message) : \A e \in Message :
              u \o Append(t, e) = Append(u \o t, e)
        BY AppendRight
      <4> QED
        BY <3>1, <4>1, Zenon
    <3> QED
      BY <1>3, <3>1, <3>2 DEF Send
  <2> QED
    BY <2>1 DEF FifoPerClient
<1> QED
  BY <1>1, <1>2, <1>3, BufferSteps DEF TypeOK

(* What is pushed to a client is pushed in the order of acceptance. *)
LEMMA NextPushedInOrder ==
  TypeOK /\ ReferencesAreLive /\ PushedInOrder /\ [Next]_vars => PushedInOrder'
<1> SUFFICES ASSUME TypeOK, ReferencesAreLive, PushedInOrder, [Next]_vars
             PROVE  PushedInOrder'
  OBVIOUS
<1>1. CASE UNCHANGED <<sent, pushed>>
  BY <1>1 DEF PushedInOrder
<1>2. ASSUME NEW s \in Post, NEW from \in Client, Send(s, from) PROVE PushedInOrder'
  <2> SUFFICES ASSUME NEW c \in Client, NEW i \in DOMAIN pushed'[c]
               PROVE  /\ pushed'[c][i] <= sent'
                      /\ \A j \in DOMAIN pushed'[c] : i < j => pushed'[c][i] < pushed'[c][j]
    BY DEF PushedInOrder
  <2>1. /\ pushed[c] \in Seq(Message) /\ sent \in Nat /\ sent' = sent + 1
        /\ \A k \in 1 .. Len(pushed[c]) : pushed[c][k] \in Nat
    <3>1. pushed[c] \in Seq(Message) /\ sent \in Nat /\ sent' = sent + 1
      BY <1>2 DEF Send, TypeOK
    <3>2. \A k \in 1 .. Len(pushed[c]) : pushed[c][k] \in Message
      BY <3>1, ElementOfSeq
    <3> QED
      BY <3>1, <3>2 DEF Message
  <2>2. /\ \A k \in 1 .. Len(pushed[c]) : pushed[c][k] <= sent
        /\ \A k, j \in 1 .. Len(pushed[c]) : k < j => pushed[c][k] < pushed[c][j]
    BY <2>1 DEF PushedInOrder
  <2>3. CASE pushed'[c] = pushed[c]
    BY <2>1, <2>2, <2>3
  <2>4. CASE pushed'[c] = Append(pushed[c], sent + 1)
    <3>1. DOMAIN pushed'[c] = 1 .. Len(pushed[c]) + 1
      BY <2>1, <2>4
    <3>2. /\ pushed'[c][Len(pushed[c]) + 1] = sent + 1
          /\ \A k \in 1 .. Len(pushed[c]) : pushed'[c][k] = pushed[c][k]
      BY <2>1, <2>4
    <3>3. Len(pushed[c]) \in Nat
      BY <2>1
    <3>4. \A k \in 1 .. Len(pushed[c]) : pushed'[c][k] < sent + 1
      BY <2>1, <2>2, <3>2
    <3>5. CASE i = Len(pushed[c]) + 1
      BY <2>1, <3>1, <3>2, <3>3, <3>5
    <3>6. CASE i \in 1 .. Len(pushed[c])
      <4>1. pushed'[c][i] <= sent'
        BY <2>1, <2>2, <3>2, <3>6
      <4>2. ASSUME NEW j \in 1 .. Len(pushed[c]) + 1, i < j
            PROVE  pushed'[c][i] < pushed'[c][j]
        <5>1. CASE j = Len(pushed[c]) + 1
          BY <3>2, <3>4, <3>6, <5>1
        <5>2. CASE j \in 1 .. Len(pushed[c])
          BY <2>2, <3>2, <3>6, <4>2, <5>2
        <5> QED
          BY <3>3, <5>1, <5>2
      <4> QED
        BY <3>1, <4>1, <4>2
    <3> QED
      BY <3>1, <3>3, <3>5, <3>6
  <2>5. pushed'[c] = pushed[c] \/ pushed'[c] = Append(pushed[c], sent + 1)
    BY <1>2 DEF Send
  <2> QED
    BY <2>3, <2>4, <2>5
<1> QED
  BY <1>1, <1>2, BufferSteps DEF history, PopFront

--------------------------------------------------------------------------------
(* The hub starts without polls, posts and messages. *)
LEMMA InitIInv == Init => IInv
<1> SUFFICES ASSUME Init PROVE IInv
  OBVIOUS
<1>1. ReferencesAreLive
  BY ConstantsAssumption DEF Init, ReferencesAreLive, Referenced, Held
<1>2. FifoPerClient /\ PushedInOrder /\ NotifyingHasTarget
  BY DEF Init, FifoPerClient, PushedInOrder, NotifyingHasTarget
<1> QED
  BY <1>1, <1>2, InitTypeOK DEF IInv

(* The inductive invariant: every registration is of a running poll of its  *)
(* client, and the buffers hold what was pushed and not yet popped.         *)
THEOREM Invariance == Spec => []IInv
<1>1. IInv /\ [Next]_vars => IInv'
  BY NextTypeOK, NextReferencesAreLive, NextNotifyingHasTarget, NextFifoPerClient,
     NextPushedInOrder DEF IInv
<1> QED
  BY InitIInv, <1>1, PTL DEF Spec

(* The hub's maps and the tables of polls and posts keep their types. *)
THEOREM TypeCorrect == Spec => []TypeOK
<1>1. IInv => TypeOK
  BY DEF IInv
<1> QED
  BY <1>1, Invariance, PTL

(* Between send and chat nothing is lost, duplicated or reordered, whatever *)
(* the number of clients, of overlapping polls and of disconnections.       *)
THEOREM NothingLost == Spec => []FifoPerClient
<1>1. IInv => FifoPerClient
  BY DEF IInv
<1> QED
  BY <1>1, Invariance, PTL

(* Every client is answered in the order in which the hub accepted.         *)
THEOREM AnsweredInOrder == Spec => []OneOrder
<1>1. IInv => OneOrder
  <2> SUFFICES ASSUME IInv, NEW c \in Client, NEW i \in DOMAIN popped[c],
                      NEW j \in DOMAIN popped[c], i < j
               PROVE  popped[c][i] < popped[c][j]
    BY DEF OneOrder
  <2>1. /\ popped[c] \in Seq(Message) /\ buf[c] \in Seq(Message)
        /\ pushed[c] = popped[c] \o buf[c] /\ pushed[c] \in Seq(Message)
    BY DEF IInv, TypeOK, FifoPerClient
  <2>2. \A k \in DOMAIN popped[c] : k \in DOMAIN pushed[c] /\ pushed[c][k] = popped[c][k]
    <3>1. \A u, t \in Seq(Message) : \A k \in DOMAIN u :
            k \in DOMAIN (u \o t) /\ (u \o t)[k] = u[k]
      BY PrefixOfConcat
    <3>2. \A k \in DOMAIN popped[c] :
            k \in DOMAIN (popped[c] \o buf[c]) /\ (popped[c] \o buf[c])[k] = popped[c][k]
      BY <2>1, <3>1, Zenon
    <3> QED
      BY <2>1, <3>2, Zenon
  <2> QED
    BY <2>2 DEF IInv, PushedInOrder
<1> QED
  BY <1>1, Invariance, PTL

--------------------------------------------------------------------------------
(* Every step but a poster's hanging up keeps a wakeup on its way.          *)
LEMMA NextNoLostWakeup ==
  IInv /\ NoLostWakeup /\ [Next]_vars => NoLostWakeup' \/ \E s \in Post : DropPost(s)
<1> SUFFICES ASSUME IInv, NoLostWakeup, [Next]_vars, ~\E s \in Post : DropPost(s),
                    NEW p \in Poll, pollState'[p] = "waiting", buf'[pollClient'[p]] # <<>>
             PROVE  \/ token'[p] > 0
                    \/ ~Referenced(p)'
                    \/ \E s \in Post : p \in Held(s)'
  BY DEF NoLostWakeup
<1> USE DEF IInv
<1> DEFINE Answered == \/ token'[p] > 0
                       \/ ~Referenced(p)'
                       \/ \E s \in Post : p \in Held(s)'
<1>0. p # None /\ p # Gone
  BY ConstantsAssumption
<1>1. ASSUME pollState[p] = "waiting", buf[pollClient[p]] # <<>>, token'[p] = token[p],
             \A c \in Client : chan'[c] = p => chan[c] = p,
             \A s \in Post : p \in Held(s)' <=> p \in Held(s)
      PROVE  Answered
  BY <1>1 DEF NoLostWakeup, Referenced
<1>2. ASSUME NEW c \in Client, Join(c) PROVE Answered
  BY <1>1, <1>2 DEF Join, Held, pollVars, postVars
<1>3. ASSUME NEW c \in Client, NEW q \in Poll, ChatAnswered(q, c) PROVE Answered
  <2>1. buf[pollClient[p]] # <<>>
    BY <1>3 DEF ChatAnswered, PopFront, TypeOK, pollVars
  <2>2. \A d \in Client : chan'[d] = p => chan[d] = p
    BY <1>0, <1>3 DEF ChatAnswered, TypeOK
  <2> QED
    BY <1>1, <1>3, <2>1, <2>2 DEF ChatAnswered, Held, pollVars, postVars
<1>4. ASSUME NEW c \in Client, NEW q \in Poll, ChatRegistered(q, c) PROVE Answered
  <2>1. p # q
    BY <1>4 DEF ChatRegistered, TypeOK
  <2>2. \A d \in Client : chan'[d] = p => chan[d] = p
    BY <1>4, <2>1 DEF ChatRegistered, TypeOK
  <2>3. pollState'[p] = pollState[p] /\ pollClient'[p] = pollClient[p] /\ token'[p] = token[p]
    BY <1>4, <2>1 DEF ChatRegistered, TypeOK
  <2> QED
    BY <1>1, <1>4, <2>2, <2>3 DEF ChatRegistered, Held, postVars
<1>5. ASSUME NEW from \in Client, NEW s \in Post, Send(s, from) PROVE Answered
  <2> DEFINE c == pollClient[p]
  <2>1. UNCHANGED <<joined, chan, pollState, pollClient, token>>
    BY <1>5 DEF Send, pollVars
  <2>2. c \in joined /\ c \in Client
    BY <2>1 DEF ReferencesAreLive, TypeOK
  <2>3. /\ \A r \in Post \ {s} : Held(r)' = Held(r)
        /\ Senders(Receivers(from)) \subseteq Held(s)'
    BY <1>5, SendTypes, NextTargetTypes DEF Send, Held
  <2>4. CASE chan[c] = p /\ c # from
    <3>1. p \in Senders(Receivers(from))
      BY <1>0, <2>2, <2>4 DEF Senders, Receivers
    <3> QED
      BY <2>3, <3>1
  <2>5. CASE chan[c] = p /\ c = from
    <3>1. buf'[c] = buf[c]
      BY <1>5, <2>2, <2>5 DEF Send, Receivers
    <3>2. token[p] > 0 \/ \E r \in Post : p \in Held(r)
      BY <2>1, <2>2, <2>5, <3>1 DEF NoLostWakeup, Referenced
    <3>3. p \notin Held(s)
      BY <1>0, <1>5 DEF Held, Send, NotifyingHasTarget
    <3> QED
      BY <2>1, <2>3, <3>2, <3>3
  <2>6. CASE chan[c] # p
    BY <2>1, <2>2, <2>6 DEF Referenced, ReferencesAreLive
  <2> QED
    BY <2>4, <2>5, <2>6
<1>6. ASSUME NEW q \in Poll, Recv(q) PROVE Answered
  <2>1. p # q
    BY <1>6 DEF Recv, TypeOK
  <2> QED
    BY <1>1, <1>6, <2>1 DEF Recv, TypeOK, Held, hubVars, postVars
<1>7. ASSUME NEW q \in Poll, Timeout(q) PROVE Answered
  <2>1. p # q
    BY <1>7 DEF Timeout, TypeOK
  <2> QED
    BY <1>1, <1>7, <2>1 DEF Timeout, TypeOK, Held, hubVars, postVars
<1>8. ASSUME NEW q \in Poll, EndPoll(q), buf[pollClient[p]] # <<>> \/ p = q,
             \A c \in Client : chan'[c] = p => chan[c] = p
      PROVE  Answered
  <2>1. p # q
    BY <1>8 DEF EndPoll, TypeOK
  <2>2. \A s \in Post : p \in Held(s)' <=> p \in Held(s)
    BY <1>0, <1>8, <2>1 DEF EndPoll, Rename, Held, TypeOK
  <2>3. pollState'[p] = pollState[p] /\ token'[p] = token[p]
    BY <1>8, <2>1 DEF EndPoll, TypeOK
  <2> QED
    BY <1>1, <1>8, <2>1, <2>2, <2>3
<1>9. ASSUME NEW q \in Poll, AnswerWoken(q) \/ AnswerTimedOut(q) PROVE Answered
  <2>1. EndPoll(q) /\ Deregister(q) /\ pollClient[q] \in Client
    BY <1>9 DEF AnswerWoken, AnswerTimedOut, ReferencesAreLive, TypeOK
  <2>2. \A c \in Client : chan'[c] = p => chan[c] = p
    BY <1>0, <2>1 DEF Deregister, TypeOK
  <2>3. p = q \/ pollClient'[p] = pollClient[p]
    BY <2>1 DEF EndPoll, TypeOK
  <2>4. buf[pollClient[p]] # <<>> \/ p = q
    <3>1. buf[pollClient[q]] # <<>> \/ buf' = buf
      BY <1>9 DEF AnswerWoken, AnswerTimedOut
    <3>2. \A c \in Client : c = pollClient[q] \/ buf'[c] = buf[c]
      BY <1>9, <2>1 DEF AnswerWoken, AnswerTimedOut, PopFront, TypeOK
    <3>3. p = q \/ pollClient[p] \in Client
      BY <1>9, <2>1 DEF EndPoll, TypeOK, ReferencesAreLive
    <3> QED
      BY <2>3, <3>1, <3>2, <3>3
  <2> QED
    BY <1>8, <2>1, <2>2, <2>4
<1>10. ASSUME NEW q \in Poll, DropPoll(q) PROVE Answered
  <2>1. EndPoll(q) /\ buf' = buf
    BY <1>10 DEF DropPoll
  <2>2. \A c \in Client : chan'[c] = p => chan[c] = p
    BY <1>0, <1>10 DEF DropPoll, Rename
  <2>3. p = q \/ pollClient'[p] = pollClient[p]
    BY <2>1 DEF EndPoll, TypeOK
  <2> QED
    BY <1>8, <2>1, <2>2, <2>3
<1>11. ASSUME NEW s \in Post, Notify(s) PROVE Answered
  <2>1. UNCHANGED <<joined, chan, buf, pollState, pollClient>>
    BY <1>11 DEF Notify, hubVars
  <2>2. \/ target[s] = Gone /\ token' = token
        \/ /\ target[s] \in Poll
           /\ token' = [token EXCEPT ![target[s]] = token[target[s]] + 1]
    BY <1>11, Zenon DEF Notify
  <2>3. token \in [Poll -> 0 .. ChannelCapacity]
    BY DEF TypeOK
  <2>4. CASE target[s] = p
    <3>1. token' = [token EXCEPT ![p] = token[p] + 1]
      BY <1>0, <2>2, <2>4
    <3>2. token[p] \in 0 .. 1
      BY <2>3
    <3>3. token'[p] = token[p] + 1
      BY <2>3, <3>1
    <3> QED
      BY <3>2, <3>3
  <2>5. CASE target[s] # p
    <3>1. token'[p] = token[p]
      BY <2>2, <2>3, <2>5
    <3>2. NextTarget(s, pending[s]) /\ pending[s] \in SUBSET (Poll \cup {Gone})
      BY <1>11 DEF Notify, TypeOK
    <3>3. /\ \A r \in Post \ {s} : Held(r)' = Held(r)
          /\ pending[s] \subseteq Held(s)'
          /\ Held(s)' \subseteq pending[s] \cup {None}
      BY <3>2, NextTargetTypes DEF Held
    <3>4. p \in Held(s)' <=> p \in Held(s)
      BY <1>0, <2>5, <3>3 DEF Held
    <3> QED
      BY <1>1, <2>1, <3>1, <3>3, <3>4
  <2> QED
    BY <2>4, <2>5
<1>12. CASE UNCHANGED vars
  BY <1>1, <1>12 DEF vars, hubVars, pollVars, postVars, Held
<1> QED
  BY <1>2, <1>3, <1>4, <1>5, <1>6, <1>7, <1>9, <1>10, <1>11, <1>12
  DEF Next, ClientStep, PollStep, PostStep, Chat

(* No poll is left asleep on a buffered message, whatever overlaps and      *)
(* whichever polls hang up, unless its poster hangs up.                     *)
THEOREM OnlyPostersLose == Spec => OnlyPostersLoseWakeups
BY NextNoLostWakeup, Invariance, PTL DEF Spec, OnlyPostersLoseWakeups

(* So none ever is when no poster hangs up.                                 *)
THEOREM NoWakeupIsLost ==
  ASSUME ~Disconnects
  PROVE  Spec => []NoLostWakeup
<1>1. Init => NoLostWakeup
  BY DEF Init, NoLostWakeup
<1>2. IInv /\ NoLostWakeup /\ [Next]_vars => NoLostWakeup'
  BY NextNoLostWakeup DEF DropPost
<1> QED
  BY <1>1, <1>2, Invariance, PTL DEF Spec

--------------------------------------------------------------------------------
(* The service with its requests, channels and timers implements the        *)
(* mailboxes: a chat or wakeup that answers is a Take, a send is a Put.    *)
LEMMA NextImplements == IInv /\ [Next]_vars => [Promise!Next]_(Promise!vars)
<1> SUFFICES ASSUME IInv, [Next]_vars PROVE [Promise!Next]_(Promise!vars)
  OBVIOUS
<1> USE DEF Promise!vars, Promise!Next
<1>1. ASSUME NEW c \in joined, buf[c] # <<>>, PopFront(c) PROVE Promise!Next
  BY <1>1 DEF PopFront, Promise!Take, IInv, TypeOK
<1>2. ASSUME NEW s \in Post, NEW from \in Client, Send(s, from) PROVE Promise!Next
  <2>1. Promise!Put(from)
    BY <1>2 DEF Send, Receivers, Promise!Put
  <2> QED
    BY <2>1
<1>3. ASSUME NEW c \in Client, Join(c) PROVE Promise!Next
  BY <1>3 DEF Join, history, Promise!Open
<1>4. ASSUME NEW p \in Poll, NEW c \in Client, ChatAnswered(p, c) PROVE Promise!Next
  BY <1>1, <1>4 DEF ChatAnswered, Arrive
<1>5. ASSUME NEW p \in Poll, AnswerWoken(p)
      PROVE  Promise!Next \/ UNCHANGED Promise!vars
  <2>1. pollClient[p] \in joined
    BY <1>5 DEF AnswerWoken, IInv, ReferencesAreLive
  <2> QED
    BY <1>1, <1>5, <2>1 DEF AnswerWoken, history
<1> QED
  BY <1>2, <1>3, <1>4, <1>5
  DEF Next, ClientStep, PollStep, PostStep, Chat, ChatRegistered, Recv, Timeout,
      AnswerTimedOut, DropPoll, Notify, DropPost, vars, hubVars, history

(* The long-polling server keeps the promise of Mailboxes.                  *)
THEOREM KeepsPromise == Spec => ImplementsMailboxes
<1>1. Init => Promise!Init
  BY DEF Init, Promise!Init
<1> QED
  BY <1>1, NextImplements, Invariance, PTL DEF Spec, ImplementsMailboxes, Promise!Spec

--------------------------------------------------------------------------------
(* A client with one poll at a time has none when a request arrives. *)
LEMMA ArrivesAlone ==
  ASSUME MaxPolls = 1, IsFiniteSet(Poll), NEW p \in Poll, NEW c \in Client, Arrive(p, c)
  PROVE  \A q \in Poll : pollState[q] # "idle" => pollClient[q] # c
<1>1. IsFiniteSet(Outstanding(c))
  BY FS_Subset DEF Outstanding
<1>2. Cardinality(Outstanding(c)) \in Nat /\ Cardinality(Outstanding(c)) < 1
  BY <1>1, FS_CardinalityType DEF Arrive
<1>3. Cardinality(Outstanding(c)) = 0
  BY <1>2
<1>4. Outstanding(c) = {}
  BY <1>1, <1>3, FS_EmptySet
<1> QED
  BY <1>4 DEF Outstanding

(* Whoever is or will be notified is a running poll. *)
LEMMA NotifiedIsRunning ==
  ASSUME IInv, OnePollInv, NEW p \in Poll,
         token[p] > 0 \/ pollState[p] = "woken" \/ \E s \in Post : p \in Held(s)
  PROVE  pollState[p] # "idle" /\ pollClient[p] \in Client /\ buf[pollClient[p]] # <<>>
BY DEF IInv, TypeOK, ReferencesAreLive, Referenced, OnePollInv

(* The end of a poll, which may have taken a message of its client's. *)
LEMMA EndPollAlone ==
  ASSUME IInv, OnePollInv, NEW p \in Poll, pollState[p] # "idle", EndPoll(p),
         \A c \in Client : c # pollClient[p] => buf'[c] = buf[c] /\ chan'[c] = chan[c]
  PROVE  OnePollInv'
<1>1. \A q \in Poll \ {p} : /\ pollState'[q] = pollState[q]
                            /\ pollClient'[q] = pollClient[q]
                            /\ token'[q] = token[q]
  BY DEF IInv, TypeOK, EndPoll
<1>2. pollState'[p] = "idle" /\ token'[p] = 0
  BY DEF IInv, TypeOK, EndPoll
<1>3. p # Gone /\ p # None
  BY ConstantsAssumption
<1>4. \A s \in Post : \A q \in Poll : q \in Held(s)' => q # p /\ q \in Held(s)
  BY <1>3, ConstantsAssumption DEF IInv, TypeOK, EndPoll, Rename, Held
<1>5. \A q \in Poll \ {p} : pollState[q] # "idle" =>
        /\ pollClient[q] \in Client
        /\ buf'[pollClient[q]] = buf[pollClient[q]]
        /\ chan'[pollClient[q]] = chan[pollClient[q]]
  BY DEF OnePollInv, IInv, TypeOK, ReferencesAreLive
<1>6. \A q \in Poll \ {p} : (\/ token'[q] > 0 \/ pollState'[q] = "woken"
                             \/ \E s \in Post : q \in Held(s)')
                           => buf'[pollClient'[q]] # <<>>
  BY <1>1, <1>4, <1>5, NotifiedIsRunning
<1>7. ~(\/ token'[p] > 0 \/ pollState'[p] = "woken" \/ \E s \in Post : p \in Held(s)')
  BY <1>2, <1>4
<1>8. \A q \in Poll : pollState'[q] = "waiting" => chan'[pollClient'[q]] = q
  BY <1>1, <1>2, <1>5 DEF OnePollInv
<1>9. \A q, r \in Poll : (pollState'[q] # "idle" /\ pollState'[r] # "idle"
                           /\ pollClient'[q] = pollClient'[r]) => q = r
  BY <1>1, <1>2 DEF OnePollInv
<1>10. \A q \in Poll : pollState'[q] = "idle" => token'[q] = 0
  BY <1>1, <1>2 DEF OnePollInv
<1> QED
  BY <1>6, <1>7, <1>8, <1>9, <1>10 DEF OnePollInv

(* Steps that start and end no poll, and empty no buffer of a poll that is  *)
(* or becomes notified.                                                     *)
LEMMA SamePolls ==
  ASSUME IInv, OnePollInv, UNCHANGED <<chan, pollClient>>,
         \A q \in Poll : pollState'[q] = pollState[q] \/ pollState'[q] # "waiting",
         \A q \in Poll : pollState'[q] = "idle" <=> pollState[q] = "idle",
         \A q \in Poll : pollState'[q] = "idle" => token'[q] = 0,
         \A q \in Poll : (\/ token'[q] > 0 \/ pollState'[q] = "woken"
                          \/ \E s \in Post : q \in Held(s)') => buf'[pollClient[q]] # <<>>
  PROVE  OnePollInv'
BY DEF OnePollInv

(* A client that polls alone stays the only one to be woken for its buffer. *)
LEMMA NextOnePollInv ==
  ASSUME MaxPolls = 1, IsFiniteSet(Poll)
  PROVE  IInv /\ OnePollInv /\ [Next]_vars => OnePollInv'
<1> SUFFICES ASSUME IInv, OnePollInv, [Next]_vars PROVE OnePollInv'
  OBVIOUS
<1>0. TypeOK /\ ReferencesAreLive
  BY DEF IInv
<1>1. ASSUME NEW c \in Client, Join(c) PROVE OnePollInv'
  BY <1>1 DEF Join, OnePollInv, Held, pollVars, postVars
<1>2. ASSUME NEW c \in Client, NEW p \in Poll, ChatAnswered(p, c) PROVE OnePollInv'
  <2>1. \A q \in Poll : pollState[q] # "idle" => pollClient[q] # c
    BY <1>2, ArrivesAlone DEF ChatAnswered
  <2>2. \A d \in Client : d # c => buf'[d] = buf[d] /\ chan'[d] = chan[d]
    BY <1>0, <1>2 DEF ChatAnswered, PopFront, TypeOK
  <2>3. UNCHANGED <<pollState, pollClient, token, target, pending>>
    BY <1>2 DEF ChatAnswered, pollVars, postVars
  <2>4. \A q \in Poll : pollState[q] # "idle" =>
          /\ buf'[pollClient[q]] = buf[pollClient[q]]
          /\ chan'[pollClient[q]] = chan[pollClient[q]]
    BY <1>0, <2>1, <2>2 DEF TypeOK, ReferencesAreLive
  <2>5. \A q \in Poll : (\/ token'[q] > 0 \/ pollState'[q] = "woken"
                         \/ \E s \in Post : q \in Held(s)')
                       => buf'[pollClient'[q]] # <<>>
    BY <2>3, <2>4, NotifiedIsRunning DEF Held
  <2>6. \A q \in Poll : pollState'[q] = "waiting" => chan'[pollClient'[q]] = q
    BY <2>3, <2>4 DEF OnePollInv
  <2> QED
    BY <2>3, <2>5, <2>6 DEF OnePollInv
<1>3. ASSUME NEW c \in Client, NEW p \in Poll, ChatRegistered(p, c) PROVE OnePollInv'
  <2>1. \A q \in Poll : pollState[q] # "idle" => pollClient[q] # c
    BY <1>3, ArrivesAlone DEF ChatRegistered
  <2>2. /\ chan'[c] = p /\ pollState'[p] = "waiting" /\ pollClient'[p] = c /\ token'[p] = 0
        /\ \A d \in Client : d # c => chan'[d] = chan[d]
    BY <1>0, <1>3 DEF ChatRegistered, TypeOK
  <2>3. \A q \in Poll \ {p} : /\ pollState'[q] = pollState[q]
                              /\ pollClient'[q] = pollClient[q]
                              /\ token'[q] = token[q]
    BY <1>0, <1>3 DEF ChatRegistered, TypeOK
  <2>4. UNCHANGED <<buf, target, pending>>
    BY <1>3 DEF ChatRegistered, postVars
  <2>5. \A s \in Post : p \notin Held(s)
    BY <1>0, <1>3 DEF ChatRegistered, Arrive, ReferencesAreLive, Referenced
  <2>6. \A q \in Poll : (\/ token'[q] > 0 \/ pollState'[q] = "woken"
                         \/ \E s \in Post : q \in Held(s)')
                       => buf'[pollClient'[q]] # <<>>
    BY <2>2, <2>3, <2>4, <2>5, NotifiedIsRunning DEF Held
  <2>7. \A q \in Poll : pollState'[q] = "waiting" => chan'[pollClient'[q]] = q
    <3>1. \A q \in Poll \ {p} : pollState[q] = "waiting" =>
            pollClient[q] \in Client /\ pollClient[q] # c /\ chan[pollClient[q]] = q
      BY <1>0, <2>1 DEF OnePollInv, TypeOK, ReferencesAreLive
    <3> QED
      BY <2>2, <2>3, <3>1
  <2>8. \A q, r \in Poll : (pollState'[q] # "idle" /\ pollState'[r] # "idle"
                             /\ pollClient'[q] = pollClient'[r]) => q = r
    BY <2>1, <2>2, <2>3 DEF OnePollInv
  <2>9. \A q \in Poll : pollState'[q] = "idle" => token'[q] = 0
    BY <2>2, <2>3 DEF OnePollInv
  <2> QED
    BY <2>6, <2>7, <2>8, <2>9 DEF OnePollInv
<1>4. ASSUME NEW from \in Client, NEW s \in Post, Send(s, from) PROVE OnePollInv'
  <2>1. UNCHANGED <<chan, pollState, pollClient, token>>
    BY <1>4 DEF Send, pollVars
  <2>2. \A c \in Client : buf[c] # <<>> \/ c \in Receivers(from) => buf'[c] # <<>>
    <3>1. \A c \in Client : buf[c] \in Seq(Message) /\ sent + 1 \in Message
      BY <1>0, <1>4, SendTypes DEF TypeOK
    <3>2. \A c \in Client : Append(buf[c], sent + 1) # <<>>
      BY <3>1, AppendProperties
    <3> QED
      BY <1>4, <3>2 DEF Send
  <2>3. /\ \A r \in Post \ {s} : Held(r)' = Held(r)
        /\ Held(s)' \subseteq Senders(Receivers(from)) \cup {None}
    BY <1>0, <1>4, SendTypes, NextTargetTypes DEF Send, Held
  <2>4. \A q \in Poll : q \in Senders(Receivers(from)) =>
          pollClient[q] \in Client /\ pollClient[q] \in Receivers(from)
    BY <1>0 DEF Senders, Receivers, TypeOK, ReferencesAreLive
  <2>5. ASSUME NEW q \in Poll,
               token'[q] > 0 \/ pollState'[q] = "woken" \/ \E r \in Post : q \in Held(r)'
        PROVE  buf'[pollClient[q]] # <<>>
    <3>1. CASE q \in Senders(Receivers(from))
      BY <2>2, <2>4, <3>1
    <3>2. CASE q \notin Senders(Receivers(from))
      <4>1. token[q] > 0 \/ pollState[q] = "woken" \/ \E r \in Post : q \in Held(r)
        BY <2>1, <2>3, <2>5, <3>2, ConstantsAssumption
      <4> QED
        BY <2>2, <4>1, NotifiedIsRunning
    <3> QED
      BY <3>1, <3>2
  <2>6. \A q \in Poll : pollState'[q] = "idle" => token'[q] = 0
    BY <2>1 DEF OnePollInv
  <2> QED
    BY <2>1, <2>5, <2>6, SamePolls
<1>5. ASSUME NEW p \in Poll, Recv(p) PROVE OnePollInv'
  <2>1. Referenced(p)
    BY <1>0, <1>5 DEF Recv, Referenced, ReferencesAreLive, TypeOK, OnePollInv
  <2>2. token[p] > 0
    BY <1>5, <2>1 DEF Recv
  <2>3. UNCHANGED <<chan, buf, pollClient, target, pending>>
    BY <1>5 DEF Recv, hubVars, postVars
  <2>4. /\ pollState'[p] = "woken" /\ pollState[p] = "waiting"
        /\ \A q \in Poll \ {p} : pollState'[q] = pollState[q] /\ token'[q] = token[q]
    BY <1>0, <1>5 DEF Recv, TypeOK
  <2>5. \A q \in Poll : (\/ token'[q] > 0 \/ pollState'[q] = "woken"
                         \/ \E s \in Post : q \in Held(s)')
                       => buf'[pollClient[q]] # <<>>
    BY <2>2, <2>3, <2>4, NotifiedIsRunning DEF Held
  <2> QED
    BY <2>3, <2>4, <2>5, SamePolls DEF OnePollInv
<1>6. ASSUME NEW p \in Poll, Timeout(p) PROVE OnePollInv'
  <2>1. UNCHANGED <<chan, buf, pollClient, token, target, pending>>
    BY <1>6 DEF Timeout, hubVars, postVars
  <2>2. /\ pollState'[p] = "timedout" /\ pollState[p] = "waiting"
        /\ \A q \in Poll \ {p} : pollState'[q] = pollState[q]
    BY <1>0, <1>6 DEF Timeout, TypeOK
  <2>3. \A q \in Poll : (\/ token'[q] > 0 \/ pollState'[q] = "woken"
                         \/ \E s \in Post : q \in Held(s)')
                       => buf'[pollClient[q]] # <<>>
    BY <2>1, <2>2, NotifiedIsRunning DEF Held
  <2> QED
    BY <2>1, <2>2, <2>3, SamePolls DEF OnePollInv
<1>7. ASSUME NEW p \in Poll, AnswerWoken(p) \/ AnswerTimedOut(p) PROVE OnePollInv'
  <2>1. EndPoll(p) /\ Deregister(p) /\ pollState[p] # "idle"
    BY <1>7 DEF AnswerWoken, AnswerTimedOut
  <2>2. \A c \in Client : c # pollClient[p] => buf'[c] = buf[c] /\ chan'[c] = chan[c]
    BY <1>0, <1>7, <2>1 DEF AnswerWoken, AnswerTimedOut, PopFront, Deregister, TypeOK
  <2> QED
    BY <2>1, <2>2, EndPollAlone
<1>8. ASSUME NEW p \in Poll, DropPoll(p) PROVE OnePollInv'
  <2>1. \A c \in Client : c # pollClient[p] => chan'[c] = chan[c]
    BY <1>0, <1>8 DEF DropPoll, Rename, ReferencesAreLive
  <2> QED
    BY <1>8, <2>1, EndPollAlone DEF DropPoll
<1>9. ASSUME NEW s \in Post, Notify(s) PROVE OnePollInv'
  <2>1. UNCHANGED <<chan, buf, pollState, pollClient>>
    BY <1>9 DEF Notify, hubVars
  <2>2. pending[s] \in SUBSET (Poll \cup {Gone}) /\ NextTarget(s, pending[s])
    BY <1>0, <1>9 DEF Notify, TypeOK
  <2>3. /\ \A r \in Post \ {s} : Held(r)' = Held(r)
        /\ Held(s)' \subseteq pending[s] \cup {None}
    BY <1>0, <2>2, NextTargetTypes DEF Held
  <2>4. \A q \in Poll : token'[q] = token[q] \/ q \in Held(s)
    BY <1>0, <1>9 DEF Notify, Held, TypeOK
  <2>5. ASSUME NEW q \in Poll,
               token'[q] > 0 \/ pollState'[q] = "woken" \/ \E r \in Post : q \in Held(r)'
        PROVE  token[q] > 0 \/ pollState[q] = "woken" \/ \E r \in Post : q \in Held(r)
    BY <2>1, <2>3, <2>4, <2>5, ConstantsAssumption DEF Held
  <2>6. \A q \in Poll : pollState'[q] = "idle" => token'[q] = 0
    BY <1>0, <2>1, <2>4 DEF OnePollInv, ReferencesAreLive, Referenced
  <2> QED
    BY <2>1, <2>5, <2>6, SamePolls, NotifiedIsRunning
<1>10. ASSUME NEW s \in Post, DropPost(s) PROVE OnePollInv'
  <2>1. UNCHANGED <<chan, buf, pollState, pollClient, token>>
    BY <1>10 DEF DropPost, hubVars, pollVars
  <2>2. \A r \in Post : Held(r)' \subseteq Held(r) \cup {None}
    BY <1>0, <1>10 DEF DropPost, Held, TypeOK
  <2>3. \A q \in Poll : (\E r \in Post : q \in Held(r)') => \E r \in Post : q \in Held(r)
    BY <2>2, ConstantsAssumption
  <2> QED
    BY <2>1, <2>3, SamePolls DEF OnePollInv
<1>11. CASE UNCHANGED vars
  BY <1>11 DEF vars, hubVars, pollVars, postVars, OnePollInv, Held
<1> QED
  BY <1>1, <1>2, <1>3, <1>4, <1>5, <1>6, <1>7, <1>8, <1>9, <1>10, <1>11
  DEF Next, ClientStep, PollStep, PostStep, Chat

(* A woken poll always answers with a message, whatever the number of       *)
(* clients and sends and whoever hangs up, when each client polls alone.    *)
THEOREM WokenAnswersAlone ==
  ASSUME MaxPolls = 1, IsFiniteSet(Poll)
  PROVE  Spec => WokenPollAnswers
<1> DEFINE Answers == \A p \in Poll : pollState[p] = "woken" /\ pollState'[p] = "idle"
                        => popped'[pollClient[p]] # popped[pollClient[p]]
<1>1. Init => OnePollInv
  BY ConstantsAssumption DEF Init, OnePollInv, Held
<1>2. IInv /\ OnePollInv /\ [Next]_vars => OnePollInv'
  BY NextOnePollInv
<1>3. IInv /\ OnePollInv /\ [Next]_vars => [Answers]_vars
  <2> SUFFICES ASSUME IInv, OnePollInv, Next,
                      NEW p \in Poll, pollState[p] = "woken", pollState'[p] = "idle"
               PROVE  popped'[pollClient[p]] # popped[pollClient[p]]
    OBVIOUS
  <2>0. TypeOK /\ pollClient[p] \in Client /\ buf[pollClient[p]] # <<>>
    BY NotifiedIsRunning DEF IInv
  <2>1. AnswerWoken(p)
    <3>1. pollState' # pollState
      OBVIOUS
    <3>2. ASSUME NEW q \in Poll, NEW c \in Client, ChatRegistered(q, c) PROVE FALSE
      BY <2>0, <3>2 DEF ChatRegistered, Arrive, TypeOK
    <3>3. ASSUME NEW q \in Poll, Recv(q) \/ Timeout(q) PROVE FALSE
      BY <2>0, <3>3 DEF Recv, Timeout, TypeOK
    <3>4. ASSUME NEW q \in Poll, AnswerWoken(q) \/ AnswerTimedOut(q) \/ DropPoll(q)
          PROVE  q = p /\ AnswerWoken(q)
      <4>1. EndPoll(q) /\ (pollState[q] = "woken" => AnswerWoken(q))
        BY <3>4 DEF AnswerWoken, AnswerTimedOut, DropPoll
      <4>2. q = p
        BY <2>0, <4>1 DEF EndPoll, TypeOK
      <4> QED
        BY <4>1, <4>2
    <3>5. ASSUME NEW c \in Client, Join(c) \/ (\E q \in Poll : ChatAnswered(q, c))
                                  \/ (\E s \in Post : Send(s, c))
          PROVE  FALSE
      BY <3>1, <3>5 DEF Join, ChatAnswered, Send, pollVars
    <3>6. ASSUME NEW s \in Post, Notify(s) \/ DropPost(s) PROVE FALSE
      BY <3>1, <3>6 DEF Notify, DropPost, pollVars
    <3> QED
      BY <3>2, <3>3, <3>4, <3>5, <3>6 DEF Next, ClientStep, PollStep, PostStep, Chat
  <2>2. PopFront(pollClient[p])
    BY <2>0, <2>1 DEF AnswerWoken
  <2>3. /\ popped[pollClient[p]] \in Seq(Message)
        /\ Head(buf[pollClient[p]]) \in Message
        /\ popped'[pollClient[p]] = Append(popped[pollClient[p]], Head(buf[pollClient[p]]))
    BY <2>0, <2>2, HeadTailProperties DEF PopFront, TypeOK
  <2> QED
    BY <2>3, AppendProperties
<1> QED
  BY <1>1, <1>2, <1>3, Invariance, PTL DEF Spec, WokenPollAnswers
================================================================================
