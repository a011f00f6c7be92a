--------------------------- MODULE EventEmitterProofs ---------------------------
(* Theorems about EventEmitter, for any calls and events. *)
EXTENDS EventEmitter, SequenceTheorems, TLAPS

(* Prefixes, place by place. *)
LEMMA PrefixByPlaces ==
  ASSUME NEW S, NEW s \in Seq(S), NEW t \in Seq(S)
  PROVE  IsPrefix(s, t) <=> Len(s) <= Len(t) /\ \A i \in 1 .. Len(s) : s[i] = t[i]
<1>1. Len(s) \in Nat /\ Len(t) \in Nat
  BY LenProperties
<1>2. SubSeq(s, 1, Len(s)) = s
  BY <1>1
<1>3. CASE Len(s) <= Len(t)
  <2>1. /\ SubSeq(t, 1, Len(s)) \in Seq(S) /\ Len(SubSeq(t, 1, Len(s))) = Len(s)
        /\ \A i \in 1 .. Len(s) : SubSeq(t, 1, Len(s))[i] = t[i]
    BY <1>1, <1>3
  <2>2. s = SubSeq(t, 1, Len(s)) <=> \A i \in 1 .. Len(s) : s[i] = t[i]
    BY <1>1, <2>1, SeqEqual
  <2> QED
    BY <1>2, <1>3, <2>2 DEF IsPrefix
<1>4. CASE ~(Len(s) <= Len(t))
  BY <1>4 DEF IsPrefix
<1> QED
  BY <1>3, <1>4

LEMMA EmptyPrefix ==
  ASSUME NEW S, NEW t \in Seq(S)
  PROVE  IsPrefix(<<>>, t)
<1>1. Len(<<>>) = 0 /\ Len(t) \in Nat /\ <<>> \in Seq(S)
  BY EmptySeq, LenProperties
<1>2. SubSeq(<<>>, 1, 0) = <<>> /\ SubSeq(t, 1, 0) = <<>>
  BY <1>1
<1> QED
  BY <1>1, <1>2 DEF IsPrefix

(* A new element at the end of a sequence without repetition. *)
LEMMA AppendNew ==
  ASSUME NEW S, NEW s \in Seq(S), NEW x \in S \ ToSet(s), IsInjective(s)
  PROVE  /\ Append(s, x) \in Seq(S) /\ IsInjective(Append(s, x))
         /\ ToSet(Append(s, x)) = ToSet(s) \cup {x}
<1> DEFINE t == Append(s, x)
<1>1. /\ t \in Seq(S) /\ Len(s) \in Nat /\ DOMAIN s = 1 .. Len(s)
      /\ DOMAIN t = 1 .. Len(s) + 1
      /\ \A i \in 1 .. Len(s) : t[i] = s[i]
      /\ t[Len(s) + 1] = x
  BY AppendProperties, LenProperties
<1> HIDE DEF t
<1>2. \A i \in DOMAIN s : s[i] # x
  BY DEF ToSet
<1>3. IsInjective(t)
  BY <1>1, <1>2 DEF IsInjective
<1>4. ToSet(t) = ToSet(s) \cup {x}
  BY <1>1 DEF ToSet
<1> QED
  BY <1>1, <1>3, <1>4 DEF t

(* What is left without the first of a sequence without repetition. *)
LEMMA TailOfInjective ==
  ASSUME NEW S, NEW s \in Seq(S), s # <<>>, IsInjective(s)
  PROVE  /\ Tail(s) \in Seq(S) /\ IsInjective(Tail(s))
         /\ ToSet(Tail(s)) = ToSet(s) \ {Head(s)}
         /\ Head(s) \in ToSet(s) /\ Head(s) \in S
<1> DEFINE t == Tail(s)
           h == Head(s)
<1>1. /\ t \in Seq(S) /\ Len(s) \in Nat \ {0} /\ Len(t) = Len(s) - 1 /\ h \in S
      /\ \A i \in 1 .. Len(t) : t[i] = s[i + 1]
      /\ DOMAIN s = 1 .. Len(s) /\ DOMAIN t = 1 .. Len(t) /\ h = s[1]
  BY HeadTailProperties, LenProperties, EmptySeq
<1> HIDE DEF t, h
<1>2. /\ DOMAIN t = 1 .. Len(s) - 1 /\ \A i \in DOMAIN t : t[i] = s[i + 1]
  BY <1>1
<1>3. IsInjective(t)
  <2> SUFFICES ASSUME NEW i \in DOMAIN t, NEW j \in DOMAIN t, t[i] = t[j] PROVE i = j
    BY DEF IsInjective
  <2>1. i + 1 \in DOMAIN s /\ j + 1 \in DOMAIN s /\ s[i + 1] = s[j + 1]
    BY <1>1, <1>2
  <2>2. i + 1 = j + 1
    BY <2>1 DEF IsInjective
  <2> QED
    BY <1>1, <1>2, <2>2
<1>4. h \in ToSet(s)
  BY <1>1 DEF ToSet
<1>5. ToSet(t) \subseteq ToSet(s) \ {h}
  <2> SUFFICES ASSUME NEW i \in DOMAIN t PROVE t[i] \in ToSet(s) \ {h}
    BY DEF ToSet
  <2>1. i + 1 \in DOMAIN s /\ 1 \in DOMAIN s /\ i + 1 # 1 /\ t[i] = s[i + 1]
    BY <1>1, <1>2
  <2>2. s[i + 1] # s[1]
    BY <2>1 DEF IsInjective
  <2> QED
    BY <1>1, <2>1, <2>2 DEF ToSet
<1>6. ToSet(s) \ {h} \subseteq ToSet(t)
  <2> SUFFICES ASSUME NEW i \in DOMAIN s, s[i] # h PROVE s[i] \in ToSet(t)
    BY DEF ToSet
  <2>1. i # 1 /\ i - 1 \in DOMAIN t /\ t[i - 1] = s[i]
    BY <1>1, <1>2
  <2> QED
    BY <2>1 DEF ToSet
<1> QED
  BY <1>1, <1>3, <1>4, <1>5, <1>6 DEF t, h

(* A prefix of a sequence without repetition has none; one of full length   *)
(* is the sequence; and nothing comes before the first element.             *)
LEMMA PrefixProperties ==
  ASSUME NEW S, NEW s \in Seq(S), NEW t \in Seq(S), IsPrefix(s, t)
  PROVE  /\ IsInjective(t) => IsInjective(s)
         /\ Len(s) = Len(t) => s = t
         /\ \A x \in S : IsPrefix(s, Append(t, x))
         /\ Len(s) < Len(t) => /\ t[Len(s) + 1] \in S
                               /\ IsPrefix(Append(s, t[Len(s) + 1]), t)
<1>1. /\ Len(s) \in Nat /\ Len(t) \in Nat /\ DOMAIN s = 1 .. Len(s) /\ DOMAIN t = 1 .. Len(t)
      /\ Len(s) <= Len(t) /\ \A i \in 1 .. Len(s) : s[i] = t[i]
  BY LenProperties, PrefixByPlaces
<1>2. IsInjective(t) => IsInjective(s)
  BY <1>1 DEF IsInjective
<1>3. Len(s) = Len(t) => s = t
  BY <1>1, SeqEqual
<1>4. ASSUME NEW x \in S PROVE IsPrefix(s, Append(t, x))
  <2> DEFINE u == Append(t, x)
  <2>1. u \in Seq(S) /\ Len(u) = Len(t) + 1 /\ \A i \in 1 .. Len(t) : u[i] = t[i]
    BY AppendProperties
  <2> HIDE DEF u
  <2>2. Len(s) <= Len(u) /\ \A i \in 1 .. Len(s) : s[i] = u[i]
    BY <1>1, <2>1
  <2>3. IsPrefix(s, u)
    BY <2>1, <2>2, PrefixByPlaces
  <2> QED
    BY <2>3 DEF u
<1>5. ASSUME Len(s) < Len(t)
      PROVE  t[Len(s) + 1] \in S /\ IsPrefix(Append(s, t[Len(s) + 1]), t)
  <2> DEFINE x == t[Len(s) + 1]
             u == Append(s, x)
  <2>1. x \in S
    BY <1>1, <1>5, ElementOfSeq
  <2>2. /\ u \in Seq(S) /\ Len(u) = Len(s) + 1 /\ \A i \in 1 .. Len(s) : u[i] = s[i]
        /\ u[Len(s) + 1] = t[Len(s) + 1]
    BY <2>1, AppendProperties
  <2> HIDE DEF u, x
  <2>3. Len(u) <= Len(t) /\ \A i \in 1 .. Len(u) : u[i] = t[i]
    BY <1>1, <1>5, <2>2
  <2>4. IsPrefix(u, t)
    BY <2>2, <2>3, PrefixByPlaces
  <2> QED
    BY <2>1, <2>4 DEF u, x
<1> QED
  BY <1>2, <1>3, <1>4, <1>5

(* Nothing is registered and nothing is called at first. *)
LEMMA InitIInv == Init => IInv
<1> SUFFICES ASSUME Init PROVE IInv
  OBVIOUS
<1>1. ToSet(<<>>) = {} /\ IsInjective(<<>>)
  BY DEF ToSet, IsInjective
<1>2. \A c \in Call : call[c] = NotMade
  BY DEF Init
<1>3. \A c \in Call : call[c].op = "none"
  BY <1>2 DEF NotMade
<1>4. TypeOK
  BY <1>1 DEF Init, TypeOK
<1>5. CallsAgree
  BY <1>1, <1>3 DEF Init, CallsAgree, Emits
<1>6. CalledAsRegistered
  BY <1>3 DEF CalledAsRegistered, Emits
<1>7. ReenteredStuck
  BY <1>2 DEF ReenteredStuck
<1> QED
  BY <1>4, <1>5, <1>6, <1>7 DEF IInv

(* What is known of a call from its record. *)
LEMMA MadeCall ==
  ASSUME TypeOK, NEW c \in Call
  PROVE  /\ call[c] # NotMade => call[c] \in Made
         /\ call[c].op \in {"on", "emit"} => call[c] # NotMade
BY DEF TypeOK, NotMade

(* The call that holds the mutex has been made and has not returned. *)
LEMMA HolderIsMade ==
  ASSUME TypeOK, NEW c \in Call, Holds(c)
  PROVE  /\ queue # <<>> /\ Head(queue) = c /\ c \notin ended /\ call[c] \in Made
         /\ Tail(queue) \in Seq(Call) /\ IsInjective(Tail(queue))
         /\ ToSet(Tail(queue)) = ToSet(queue) \ {c}
<1>1. queue \in Seq(Call) /\ IsInjective(queue) /\ queue # <<>> /\ Head(queue) = c
  BY DEF TypeOK, Holds
<1>2. /\ Tail(queue) \in Seq(Call) /\ IsInjective(Tail(queue))
      /\ ToSet(Tail(queue)) = ToSet(queue) \ {c} /\ c \in ToSet(queue)
  BY <1>1, TailOfInjective
<1>3. c \notin ended /\ call[c] # NotMade
  BY <1>2 DEF TypeOK
<1> QED
  BY <1>1, <1>2, <1>3, MadeCall

(* Somebody whose handler waits for the emitter holds the mutex, so nobody  *)
(* returns.                                                                 *)
LEMMA NobodyReturns ==
  ASSUME IInv, NEW c \in Call, On(c) \/ Emitted(c)
  PROVE  ~Reentered
<1> SUFFICES ASSUME NEW d \in Call, call[d] # NotMade, call[d].caller # Outside
             PROVE  FALSE
  BY DEF Reentered
<1>1. call[d].caller \in running
  BY DEF IInv, ReenteredStuck
<1>2. Holds(call[d].caller) /\ call[call[d].caller].op = "emit"
  BY <1>1 DEF IInv, CallsAgree
<1>3. call[d].caller = c
  BY <1>2 DEF On, Emitted, Holds
<1> QED
  BY <1>1, <1>2, <1>3 DEF On, Emitted

(* Whoever asks is put behind all others. *)
LEMMA AskKeeps ==
  ASSUME IInv, NEW c \in Call, NEW op \in {"on", "emit"}, NEW e \in Event,
         NEW caller \in Call \cup {Outside}, Ask(c, op, e, caller)
  PROVE  IInv'
<1> DEFINE new == [op |-> op, event |-> e, caller |-> caller, known |-> ToSet(handlers[e])]
<1>1. /\ call[c] = NotMade /\ call' = [call EXCEPT ![c] = new] /\ queue' = Append(queue, c)
      /\ UNCHANGED <<handlers, running, ended, ran>>
      /\ caller # Outside => caller \in running
  BY DEF Ask
<1>2. c \notin ToSet(queue) /\ c \notin ended /\ ran[c] = <<>> /\ c \notin running
  BY <1>1 DEF IInv, TypeOK, CallsAgree
<1>3. handlers[e] \in Seq(Call) /\ ToSet(handlers[e]) \subseteq Call
  <2>1. handlers[e] \in Seq(Call)
    BY DEF IInv, TypeOK
  <2> QED
    BY <2>1, ElementOfSeq, LenProperties DEF ToSet
<1>4. /\ new \in Made /\ new # NotMade /\ new.op = op /\ new.event = e /\ new.caller = caller
      /\ new.known = ToSet(handlers[e])
  BY <1>3 DEF Made, NotMade
<1> HIDE DEF new
<1>5. call'[c] = new /\ \A d \in Call \ {c} : call'[d] = call[d]
  BY <1>1 DEF IInv, TypeOK
<1>6. /\ queue' \in Seq(Call) /\ IsInjective(queue') /\ ToSet(queue') = ToSet(queue) \cup {c}
  BY <1>1, <1>2, AppendNew DEF IInv, TypeOK
<1>7. TypeOK'
  <2>1. call' \in [Call -> Made \cup {NotMade}]
    BY <1>1, <1>4 DEF IInv, TypeOK
  <2>2. ToSet(queue') = {d \in Call : call'[d] # NotMade} \ ended'
    BY <1>1, <1>2, <1>4, <1>5, <1>6 DEF IInv, TypeOK
  <2>3. running' \subseteq ToSet(queue')
    BY <1>1, <1>6 DEF IInv, TypeOK
  <2> QED
    BY <1>1, <1>6, <2>1, <2>2, <2>3 DEF IInv, TypeOK
<1>8. CallsAgree'
  <2>1. ASSUME NEW d \in running PROVE Holds(d)' /\ call'[d].op = "emit"
    <3>1. queue # <<>> /\ Head(queue) = d /\ call[d].op = "emit" /\ d \in Call /\ d # c
      BY <1>2 DEF IInv, CallsAgree, Holds, TypeOK
    <3>2. Append(queue, c) # <<>> /\ Head(Append(queue, c)) = Head(queue)
      <4>1. queue \in Seq(Call)
        BY DEF IInv, TypeOK
      <4>2. Append(queue, c) # <<>>
        BY <4>1, AppendProperties
      <4>3. Head(Append(queue, c)) = Head(queue)
        BY <3>1, <4>1, HeadTailAppend
      <4> QED
        BY <4>2, <4>3
    <3> QED
      BY <1>1, <1>5, <3>1, <3>2 DEF Holds
  <2>2. ASSUME NEW d \in Call, call'[d] = NotMade PROVE d \notin ended' /\ ran'[d] = <<>>
    BY <1>1, <1>4, <1>5, <2>2 DEF IInv, CallsAgree
  <2>3. ASSUME NEW d \in Call, call'[d].op = "emit"
        PROVE  call'[d].known \subseteq ToSet(handlers'[call'[d].event])
    BY <1>1, <1>4, <1>5, <2>3 DEF IInv, CallsAgree, Emits
  <2>4. \A f \in Event : IsInjective(handlers'[f]) /\ ToSet(handlers'[f]) \subseteq ended'
    BY <1>1 DEF IInv, CallsAgree
  <2> QED
    BY <1>1, <2>1, <2>2, <2>3, <2>4 DEF CallsAgree, Emits
<1>9. CalledAsRegistered'
  <2> SUFFICES ASSUME NEW d \in Call, call'[d].op = "emit"
               PROVE  /\ IsPrefix(ran'[d], handlers'[call'[d].event])
                      /\ IsInjective(ran'[d])
                      /\ d \in ended' => call'[d].known \subseteq ToSet(ran'[d])
    BY DEF CalledAsRegistered, Emits
  <2>1. CASE d = c
    <3>1. ran'[d] = <<>> /\ handlers'[call'[d].event] = handlers[e] /\ d \notin ended'
      BY <1>1, <1>2, <1>4, <1>5, <2>1
    <3>2. IsPrefix(<<>>, handlers[e]) /\ IsInjective(<<>>)
      BY <1>3, EmptyPrefix DEF IsInjective
    <3> QED
      BY <3>1, <3>2
  <2>2. CASE d # c
    BY <1>1, <1>5, <2>2 DEF IInv, CalledAsRegistered, Emits
  <2> QED
    BY <2>1, <2>2
<1>10. ReenteredStuck'
  <2> SUFFICES ASSUME NEW d \in Call, call'[d] # NotMade, call'[d].caller # Outside
               PROVE  call'[d].caller \in running /\ d # call'[d].caller /\ d \notin ended
    BY <1>1 DEF ReenteredStuck
  <2>1. CASE d = c
    BY <1>1, <1>2, <1>4, <1>5, <2>1
  <2>2. CASE d # c
    BY <1>5, <2>2 DEF IInv, ReenteredStuck
  <2> QED
    BY <2>1, <2>2
<1> QED
  BY <1>7, <1>8, <1>9, <1>10 DEF IInv

(* Whoever returns was in front of all others, and ran no handler.          *)
LEMMA ReturnKeeps ==
  ASSUME IInv, NEW c \in Call, On(c) \/ Emitted(c)
  PROVE  /\ queue' \in Seq(Call) /\ IsInjective(queue')
         /\ ToSet(queue') = {d \in Call : call'[d] # NotMade} \ ended'
         /\ running = {} /\ running' = {} /\ ended' \subseteq Call
         /\ ReenteredStuck'
<1>1. Holds(c) /\ UNCHANGED <<call, running>> /\ ended' = ended \cup {c} /\ queue' = Tail(queue)
  BY DEF On, Emitted, Return
<1>2. /\ queue' \in Seq(Call) /\ IsInjective(queue') /\ ToSet(queue') = ToSet(queue) \ {c}
  BY <1>1, HolderIsMade DEF IInv
<1>3. ToSet(queue') = {d \in Call : call'[d] # NotMade} \ ended'
  BY <1>1, <1>2 DEF IInv, TypeOK
<1>4. running = {}
  <2> SUFFICES ASSUME NEW d \in running PROVE FALSE
    OBVIOUS
  <2>1. Holds(d) /\ call[d].op = "emit"
    BY DEF IInv, CallsAgree
  <2>2. d = c
    BY <1>1, <2>1 DEF Holds
  <2> QED
    BY <2>1, <2>2 DEF On, Emitted
<1>5. ReenteredStuck'
  BY <1>1, NobodyReturns DEF Reentered, ReenteredStuck
<1> QED
  BY <1>1, <1>2, <1>3, <1>4, <1>5 DEF IInv, TypeOK

(* A handler that is registered comes after all others of its event.        *)
LEMMA OnKeeps ==
  ASSUME IInv, NEW c \in Call, On(c)
  PROVE  IInv'
<1> DEFINE e == call[c].event
           hs == handlers[e]
           new == Append(hs, c)
<1>1. /\ Holds(c) /\ call[c].op = "on" /\ handlers' = [handlers EXCEPT ![e] = new]
      /\ UNCHANGED <<call, running, ran>> /\ ended' = ended \cup {c}
  BY DEF On, Return
<1>2. c \notin ended /\ e \in Event
  BY <1>1, HolderIsMade DEF IInv, Made
<1>3. hs \in Seq(Call) /\ IsInjective(hs) /\ ToSet(hs) \subseteq ended
  BY <1>2 DEF IInv, TypeOK, CallsAgree
<1>4. new \in Seq(Call) /\ IsInjective(new) /\ ToSet(new) = ToSet(hs) \cup {c}
  BY <1>2, <1>3, AppendNew
<1>5. handlers'[e] = new /\ \A f \in Event \ {e} : handlers'[f] = handlers[f]
  BY <1>1, <1>2 DEF IInv, TypeOK
<1> HIDE DEF new
<1>6. TypeOK'
  <2>1. handlers' \in [Event -> Seq(Call)]
    BY <1>1, <1>4 DEF IInv, TypeOK
  <2> QED
    BY <1>1, <2>1, ReturnKeeps DEF IInv, TypeOK
<1>7. \A f \in Event : ToSet(handlers[f]) \subseteq ToSet(handlers'[f])
  BY <1>4, <1>5
<1>8. \A d \in Emits : d \in Call /\ call[d].event \in Event
  BY MadeCall DEF Emits, Made, IInv
<1>9. CallsAgree'
  <2>1. \A f \in Event : IsInjective(handlers'[f]) /\ ToSet(handlers'[f]) \subseteq ended'
    BY <1>1, <1>3, <1>4, <1>5 DEF IInv, CallsAgree
  <2>2. \A d \in Emits' : call'[d].known \subseteq ToSet(handlers'[call'[d].event])
    BY <1>1, <1>7, <1>8 DEF IInv, CallsAgree, Emits
  <2>3. \A d \in Call : call'[d] = NotMade => d \notin ended' /\ ran'[d] = <<>>
    <3>1. call[c] # NotMade
      BY <1>1, MadeCall DEF IInv
    <3> QED
      BY <1>1, <3>1 DEF IInv, CallsAgree
  <2> QED
    BY <2>1, <2>2, <2>3, ReturnKeeps DEF CallsAgree
<1>10. CalledAsRegistered'
  <2> SUFFICES ASSUME NEW d \in Emits
               PROVE  /\ IsPrefix(ran[d], handlers'[call[d].event]) /\ IsInjective(ran[d])
                      /\ d \in ended' => call[d].known \subseteq ToSet(ran[d])
    BY <1>1 DEF CalledAsRegistered, Emits
  <2>1. /\ IsPrefix(ran[d], handlers[call[d].event]) /\ IsInjective(ran[d])
        /\ d \in ended => call[d].known \subseteq ToSet(ran[d])
    BY DEF IInv, CalledAsRegistered
  <2>2. d # c
    BY <1>1 DEF Emits
  <2>3. IsPrefix(ran[d], handlers'[call[d].event])
    <3>1. CASE call[d].event = e
      <4>1. ran[d] \in Seq(Call)
        BY <1>8 DEF IInv, TypeOK
      <4>2. IsPrefix(ran[d], Append(hs, c))
        BY <1>3, <2>1, <3>1, <4>1, PrefixProperties
      <4> QED
        BY <1>5, <3>1, <4>2 DEF new
    <3>2. CASE call[d].event # e
      BY <1>5, <1>8, <2>1, <3>2
    <3> QED
      BY <3>1, <3>2
  <2> QED
    BY <1>1, <2>1, <2>2, <2>3
<1> QED
  BY <1>6, <1>9, <1>10, ReturnKeeps DEF IInv

(* The next handler in order is called. *)
LEMMA HandlerKeeps ==
  ASSUME IInv, NEW c \in Call, Handler(c)
  PROVE  IInv'
<1> DEFINE hs == handlers[call[c].event]
           s == ran[c]
           x == hs[Len(s) + 1]
<1>1. /\ Holds(c) /\ call[c].op = "emit" /\ Len(s) < Len(hs)
      /\ ran' = [ran EXCEPT ![c] = Append(s, x)] /\ running' = running \cup {c}
      /\ UNCHANGED <<handlers, call, queue, ended>>
  BY DEF Handler
<1>2. /\ c \notin ended /\ call[c].event \in Event /\ c \in Emits
      /\ c \in ToSet(queue) /\ call[c] # NotMade
  <2>1. c \notin ended /\ call[c].event \in Event /\ call[c] # NotMade
    BY <1>1, HolderIsMade, MadeCall DEF IInv, Made
  <2> QED
    BY <1>1, <2>1 DEF IInv, Emits, TypeOK
<1>3. hs \in Seq(Call) /\ IsInjective(hs) /\ s \in Seq(Call) /\ IsPrefix(s, hs)
  BY <1>2 DEF IInv, TypeOK, CallsAgree, CalledAsRegistered
<1>4. x \in Call /\ IsPrefix(Append(s, x), hs)
  BY <1>1, <1>3, PrefixProperties
<1>5. Append(s, x) \in Seq(Call)
  BY <1>3, <1>4, AppendProperties
<1> DEFINE t == Append(s, x)
<1>6. IsInjective(t)
  <2>1. t \in Seq(Call) /\ hs \in Seq(Call) /\ IsPrefix(t, hs) /\ IsInjective(hs)
    BY <1>3, <1>4, <1>5
  <2> HIDE DEF t, hs
  <2> QED
    BY <2>1, PrefixProperties
<1>7. ran'[c] = t /\ \A d \in Call \ {c} : ran'[d] = ran[d]
  BY <1>1 DEF IInv, TypeOK
<1> HIDE DEF t
<1>8. TypeOK'
  <2>1. ran' \in [Call -> Seq(Call)]
    BY <1>1, <1>5 DEF IInv, TypeOK
  <2> QED
    BY <1>1, <1>2, <2>1 DEF IInv, TypeOK
<1>9. CallsAgree'
  <2>1. \A d \in running' : Holds(d)' /\ call'[d].op = "emit"
    BY <1>1 DEF IInv, CallsAgree, Holds
  <2>2. \A d \in Call : call'[d] = NotMade => d \notin ended' /\ ran'[d] = <<>>
    BY <1>1, <1>2, <1>7 DEF IInv, CallsAgree
  <2> QED
    BY <1>1, <2>1, <2>2 DEF IInv, CallsAgree, Emits
<1>10. CalledAsRegistered'
  <2> SUFFICES ASSUME NEW d \in Emits
               PROVE  /\ IsPrefix(ran'[d], handlers[call[d].event]) /\ IsInjective(ran'[d])
                      /\ d \in ended => call[d].known \subseteq ToSet(ran'[d])
    BY <1>1 DEF CalledAsRegistered, Emits
  <2>1. CASE d = c
    BY <1>2, <1>4, <1>6, <1>7, <2>1 DEF t
  <2>2. CASE d # c
    BY <1>7, <2>2 DEF IInv, CalledAsRegistered, Emits
  <2> QED
    BY <2>1, <2>2
<1>11. ReenteredStuck'
  BY <1>1 DEF IInv, ReenteredStuck
<1> QED
  BY <1>8, <1>9, <1>10, <1>11 DEF IInv

(* A future that is done waited for no call of its handler. *)
LEMMA HandlerDoneKeeps ==
  ASSUME IInv, NEW c \in Call, HandlerDone(c)
  PROVE  IInv'
<1>1. /\ ~Nested(c) /\ running' = running \ {c}
      /\ UNCHANGED <<handlers, call, queue, ended, ran>>
  BY DEF HandlerDone
<1>2. TypeOK' /\ CallsAgree' /\ CalledAsRegistered'
  BY <1>1 DEF IInv, TypeOK, CallsAgree, CalledAsRegistered, Emits, Holds
<1>3. ReenteredStuck'
  BY <1>1 DEF IInv, ReenteredStuck, Nested
<1> QED
  BY <1>2, <1>3 DEF IInv

(* An emit that returns has called all of its event's handlers. *)
LEMMA EmittedKeeps ==
  ASSUME IInv, NEW c \in Call, Emitted(c)
  PROVE  IInv'
<1> DEFINE hs == handlers[call[c].event]
<1>1. /\ Holds(c) /\ call[c].op = "emit" /\ Len(ran[c]) = Len(hs)
      /\ UNCHANGED <<handlers, call, running, ran>> /\ ended' = ended \cup {c}
  BY DEF Emitted, Return
<1>2. call[c].event \in Event /\ c \in Emits /\ call[c] # NotMade
  BY <1>1, HolderIsMade, MadeCall DEF IInv, Made, Emits
<1>3. ran[c] = hs
  <2>1. hs \in Seq(Call) /\ ran[c] \in Seq(Call) /\ IsPrefix(ran[c], hs)
    BY <1>2 DEF IInv, TypeOK, CalledAsRegistered
  <2> QED
    BY <1>1, <2>1, PrefixProperties
<1>4. call[c].known \subseteq ToSet(ran[c])
  BY <1>2, <1>3 DEF IInv, CallsAgree
<1>5. TypeOK'
  BY <1>1, ReturnKeeps DEF IInv, TypeOK
<1>6. CallsAgree'
  BY <1>1, <1>2, ReturnKeeps DEF IInv, CallsAgree, Emits
<1>7. CalledAsRegistered'
  BY <1>1, <1>4 DEF IInv, CalledAsRegistered, Emits
<1> QED
  BY <1>5, <1>6, <1>7, ReturnKeeps DEF IInv

(* Every call and every handler keeps the inductive invariant, and none     *)
(* returns after a handler has called its emitter.                          *)
LEMMA NextIInv == IInv /\ [Next]_vars => IInv'
<1> SUFFICES ASSUME IInv, [Next]_vars PROVE IInv'
  OBVIOUS
<1>1. ASSUME NEW c \in Call, CallerStep(c) PROVE IInv'
  BY <1>1, AskKeeps DEF CallerStep
<1>2. ASSUME NEW c \in Call, EmitterStep(c) PROVE IInv'
  BY <1>2, OnKeeps, HandlerKeeps, HandlerDoneKeeps, EmittedKeeps DEF EmitterStep
<1>3. CASE UNCHANGED vars
  BY <1>3 DEF vars, IInv, TypeOK, CallsAgree, CalledAsRegistered, ReenteredStuck, Emits, Holds
<1> QED
  BY <1>1, <1>2, <1>3 DEF Next

LEMMA NextBlocks == IInv /\ [Next]_vars => [Reentered => ended' = ended]_vars
<1> SUFFICES ASSUME IInv, Next, Reentered PROVE ended' = ended
  BY DEF vars
<1>1. PICK c \in Call : CallerStep(c) \/ EmitterStep(c)
  BY DEF Next
<1>2. ~On(c) /\ ~Emitted(c)
  BY NobodyReturns
<1> QED
  BY <1>1, <1>2 DEF CallerStep, Ask, EmitterStep, Handler, HandlerDone

(* The inductive invariant of the emitter. *)
THEOREM Invariance == Spec => []IInv
BY InitIInv, NextIInv, PTL DEF Spec

(* The mutex is asked for by the calls that have been made and have not     *)
(* returned, each once.                                                     *)
THEOREM TypeCorrect == Spec => []TypeOK
<1>1. IInv => TypeOK
  BY DEF IInv
<1> QED
  BY <1>1, Invariance, PTL

(* Handlers are called in the order of registration, none twice, and none   *)
(* that was registered when its event was emitted is left out.              *)
THEOREM Ordered == Spec => []CalledAsRegistered
<1>1. IInv => CalledAsRegistered
  BY DEF IInv
<1> QED
  BY <1>1, Invariance, PTL

(* Once a handler has called its own emitter, no call of anybody returns.   *)
THEOREM StuckForEver == Spec => ReentryBlocks
BY Invariance, NextBlocks, PTL DEF Spec, ReentryBlocks

--------------------------------------------------------------------------------
(* No step is taken but by a call that can go on. *)
LEMMA StepsOnlyIfCan ==
  ASSUME IInv, NEW c \in Call, EmitterStep(c)
  PROVE  CanGoOn(c)
<1>1. c \in running => call[c].op = "emit"
  BY DEF IInv, CallsAgree
<1>2. CASE On(c)
  BY <1>1, <1>2 DEF On, CanGoOn
<1>3. CASE Handler(c) \/ Emitted(c)
  <2>1. c \in Emits
    BY <1>3 DEF Handler, Emitted, Emits
  <2>2. IsPrefix(ran[c], handlers[call[c].event])
    BY <2>1 DEF IInv, CalledAsRegistered
  <2>3. Len(ran[c]) <= Len(handlers[call[c].event])
    BY <2>2 DEF IsPrefix
  <2> QED
    BY <1>3, <2>3 DEF Handler, Emitted, CanGoOn
<1>4. CASE HandlerDone(c)
  BY <1>4 DEF HandlerDone, CanGoOn
<1> QED
  BY <1>2, <1>3, <1>4 DEF EmitterStep

(* Whoever can go on holds the mutex: all others await the one before them. *)
LEMMA OnlyTheHolderCan ==
  ASSUME IInv, NEW c \in Call, CanGoOn(c)
  PROVE  Holds(c)
BY DEF IInv, CallsAgree, CanGoOn

LEMMA OnlyReentry == IInv => OnlyReentryBlocks
<1> SUFFICES ASSUME IInv PROVE OnlyReentryBlocks
  OBVIOUS
<1>1. ASSUME queue # <<>>, ~Reentered PROVE \E c \in Call : CanGoOn(c)
  <2> DEFINE c == Head(queue)
  <2>1. c \in Call /\ Holds(c)
    BY <1>1, HeadTailProperties DEF IInv, TypeOK, Holds
  <2> HIDE DEF c
  <2>2. call[c].op \in {"on", "emit"}
    BY <2>1, HolderIsMade DEF IInv, Made
  <2>3. ~Nested(c)
    <3> SUFFICES ASSUME NEW d \in Call, call[d] # NotMade, call[d].caller = c PROVE FALSE
      BY DEF Nested
    <3> QED
      BY <1>1, <2>1, ConstantsAssumption DEF Reentered
  <2>4. call[c].op = "emit" => Len(ran[c]) <= Len(handlers[call[c].event])
    <3> SUFFICES ASSUME call[c].op = "emit" PROVE Len(ran[c]) <= Len(handlers[call[c].event])
      OBVIOUS
    <3>1. IsPrefix(ran[c], handlers[call[c].event])
      BY <2>1 DEF IInv, CalledAsRegistered, Emits
    <3> QED
      BY <3>1 DEF IsPrefix
  <2> QED
    BY <2>1, <2>2, <2>3, <2>4 DEF CanGoOn
<1>2. ASSUME NEW c \in Call, CanGoOn(c) PROVE queue # <<>> /\ ~Reentered
  <2>1. Holds(c)
    BY <1>2, OnlyTheHolderCan
  <2>2. ASSUME NEW d \in Call, call[d] # NotMade, call[d].caller # Outside PROVE FALSE
    <3>1. call[d].caller \in running /\ d \notin ended
      BY <2>2 DEF IInv, ReenteredStuck
    <3>2. Holds(call[d].caller)
      BY <3>1 DEF IInv, CallsAgree
    <3>3. call[d].caller = c
      BY <2>1, <3>2 DEF Holds
    <3>4. Nested(c)
      BY <2>2, <3>1, <3>3 DEF Nested
    <3> QED
      BY <1>2, <3>1, <3>3, <3>4 DEF CanGoOn
  <2> QED
    BY <2>1, <2>2 DEF Holds, Reentered
<1> QED
  BY <1>1, <1>2 DEF OnlyReentryBlocks

(* Any number of calls that hold or want the mutex never block each other:  *)
(* what stops the emitter is a handler that calls it, and that always does. *)
THEOREM NothingElseBlocks == Spec => []OnlyReentryBlocks
BY Invariance, OnlyReentry, PTL

(* After that all that can happen is that more calls are made: no handler   *)
(* is called or registered, none ends, and the mutex is never released.     *)
THEOREM NothingMoves == Spec => [][Reentered => UNCHANGED <<handlers, running, ended, ran>>]_vars
<1>1. IInv /\ [Next]_vars => [Reentered => UNCHANGED <<handlers, running, ended, ran>>]_vars
  <2> SUFFICES ASSUME IInv, Next, Reentered PROVE UNCHANGED <<handlers, running, ended, ran>>
    BY DEF vars
  <2>1. PICK c \in Call : CallerStep(c) \/ EmitterStep(c)
    BY DEF Next
  <2>2. ~EmitterStep(c)
    BY StepsOnlyIfCan, OnlyReentry DEF OnlyReentryBlocks
  <2> QED
    BY <2>1, <2>2 DEF CallerStep, Ask
<1> QED
  BY <1>1, Invariance, PTL DEF Spec
================================================================================
