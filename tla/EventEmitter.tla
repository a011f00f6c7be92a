------------------------------ MODULE EventEmitter ------------------------------
(***************************************************************************)
(* async-event-emitter: handlers by event behind one asynchronous mutex,    *)
(* which a call of emit holds until the last handler's future is done.      *)
(* tokio's mutex is fair: who waits gets it in the order of asking.  The    *)
(* mutex around each handler is only taken under that one, and is left out. *)
(* A handler is known by the call of on that registered it.                 *)
(***************************************************************************)
EXTENDS Naturals, Sequences, SequencesExt

CONSTANTS
  Call,      \* calls of on and emit, each made once
  Event,
  Outside    \* the caller of a call that no handler makes

ASSUME ConstantsAssumption == Outside \notin Call

VARIABLES
  handlers,  \* the handlers of each event, in the order they are called in
  call,      \* what each call is: op (none before it is made), event, caller,
             \* and (history) the event's handlers when it was made
  queue,     \* the calls that ask for the mutex; the first of them holds it
  running,   \* emits whose current handler's future is not done
  ended,     \* calls that have returned
  ran        \* the handlers each emit has called

vars == <<handlers, call, queue, running, ended, ran>>

NotMade == [op |-> "none"]

Made == [op : {"on", "emit"}, event : Event, caller : Call \cup {Outside}, known : SUBSET Call]

TypeOK ==
  /\ handlers \in [Event -> Seq(Call)]
  /\ call \in [Call -> Made \cup {NotMade}]
  /\ queue \in Seq(Call) /\ IsInjective(queue)
  /\ ToSet(queue) = {c \in Call : call[c] # NotMade} \ ended
  /\ running \subseteq ToSet(queue) /\ ended \subseteq Call
  /\ ran \in [Call -> Seq(Call)]

Init ==
  /\ handlers = [e \in Event |-> <<>>]
  /\ call = [c \in Call |-> NotMade]
  /\ queue = <<>>
  /\ running = {} /\ ended = {}
  /\ ran = [c \in Call |-> <<>>]

--------------------------------------------------------------------------------
Holds(c) == queue # <<>> /\ Head(queue) = c

(* What a handler awaits besides others' events: the calls it has made. *)
Nested(c) == \E d \in Call : call[d] # NotMade /\ call[d].caller = c /\ d \notin ended

(* A call from outside, or by the running handler of another. *)
Ask(c, op, e, caller) ==
  /\ call[c] = NotMade
  /\ caller # Outside => caller \in running /\ ~Nested(caller)
  /\ call' = [call EXCEPT ![c] = [op |-> op, event |-> e, caller |-> caller,
                                  known |-> ToSet(handlers[e])]]
  /\ queue' = Append(queue, c)
  /\ UNCHANGED <<handlers, running, ended, ran>>

Return(c) == ended' = ended \cup {c} /\ queue' = Tail(queue)

(* Names ending in _wrong are plausible mistakes, each in the definition    *)
(* that follows it: every property is shown to fail under one of them.      *)
On_wrong(c) ==      \* the newest handler first
  /\ Holds(c) /\ call[c].op = "on"
  /\ handlers' = [handlers EXCEPT ![call[c].event] = <<c>> \o @]
  /\ Return(c)
  /\ UNCHANGED <<call, running, ran>>

On(c) ==
  /\ Holds(c) /\ call[c].op = "on"
  /\ handlers' = [handlers EXCEPT ![call[c].event] = Append(@, c)]
  /\ Return(c)
  /\ UNCHANGED <<call, running, ran>>

(* emit calls its event's next handler, ... *)
Handler(c) ==
  /\ Holds(c) /\ call[c].op = "emit" /\ c \notin running
  /\ LET hs == handlers[call[c].event]
     IN  /\ Len(ran[c]) < Len(hs)
         /\ ran' = [ran EXCEPT ![c] = Append(@, hs[Len(@) + 1])]
  /\ running' = running \cup {c}
  /\ UNCHANGED <<handlers, call, queue, ended>>

HandlerDone_wrong(c) ==      \* the handler's calls are not awaited
  /\ c \in running
  /\ running' = running \ {c}
  /\ UNCHANGED <<handlers, call, queue, ended, ran>>

(* ... awaits its future, ... *)
HandlerDone(c) ==
  /\ c \in running /\ ~Nested(c)
  /\ running' = running \ {c}
  /\ UNCHANGED <<handlers, call, queue, ended, ran>>

Emitted_wrong(c) ==      \* the last handler's future is not awaited
  /\ Holds(c) /\ call[c].op = "emit"
  /\ Len(ran[c]) = Len(handlers[call[c].event])
  /\ Return(c)
  /\ UNCHANGED <<handlers, call, running, ran>>

Emitted_while_wrong(c) ==      \* a while let where there is an if let: an emit that
                               \* finds handlers calls them for ever
  /\ Holds(c) /\ call[c].op = "emit" /\ c \notin running
  /\ handlers[call[c].event] = <<>>
  /\ Return(c)
  /\ UNCHANGED <<handlers, call, running, ran>>

(* ... and returns when there is none left, also when it called none.   *)
Emitted(c) ==
  /\ Holds(c) /\ call[c].op = "emit" /\ c \notin running
  /\ Len(ran[c]) = Len(handlers[call[c].event])
  /\ Return(c)
  /\ UNCHANGED <<handlers, call, running, ran>>

--------------------------------------------------------------------------------
CallerStep(c) == \E op \in {"on", "emit"}, e \in Event, caller \in Call \cup {Outside} :
                   Ask(c, op, e, caller)

EmitterStep(c) == On(c) \/ Handler(c) \/ HandlerDone(c) \/ Emitted(c)

Next == \E c \in Call : CallerStep(c) \/ EmitterStep(c)

Spec == Init /\ [][Next]_vars

(* Calls are polled until they return, and handlers do not wait for ever    *)
(* for anything but the emitter.                                            *)
FairSpec == Spec /\ \A c \in Call : WF_vars(EmitterStep(c))

--------------------------------------------------------------------------------
(* PROPERTIES *)

Emits == {c \in Call : call[c].op = "emit"}

(* All emits of an event call its handlers in the order in which they were  *)
(* registered, each of them once, and an emit that has returned has called  *)
(* every handler that was registered when it was made.                      *)
CalledAsRegistered ==
  \A c \in Emits : /\ IsPrefix(ran[c], handlers[call[c].event])
                   /\ IsInjective(ran[c])
                   /\ c \in ended => call[c].known \subseteq ToSet(ran[c])

Reentered == \E c \in Call : call[c] # NotMade /\ call[c].caller # Outside

(* While no handler calls the emitter it is called by, every call returns,  *)
(* however many others hold or want the mutex.                              *)
EveryCallReturns == \A c \in Call : call[c] # NotMade ~> c \in ended \/ Reentered

(* The mutex is held while a handler's future is awaited: once a handler    *)
(* has called its own emitter and awaits that, no call of anybody returns.  *)
ReentryBlocks == [][Reentered => ended' = ended]_vars

(* The call that holds the mutex waits for nobody but a handler's calls.    *)
CanGoOn(c) ==
  \/ c \notin running /\ Holds(c) /\ call[c].op = "on"
  \/ c \notin running /\ Holds(c) /\ call[c].op = "emit" /\ Len(ran[c]) <= Len(handlers[call[c].event])
  \/ c \in running /\ ~Nested(c)

(* Some call can go on as long as any has not returned, unless a handler    *)
(* has called the emitter that awaits it, and then none can.                *)
OnlyReentryBlocks == (\E c \in Call : CanGoOn(c)) <=> queue # <<>> /\ ~Reentered

--------------------------------------------------------------------------------
(* The inductive invariant behind these: only the call that holds the mutex *)
(* runs a handler, handlers are those of calls of on that have returned,    *)
(* and a handler that has called its emitter is still running.              *)
CallsAgree ==
  /\ \A c \in running : Holds(c) /\ call[c].op = "emit"
  /\ \A e \in Event : IsInjective(handlers[e]) /\ ToSet(handlers[e]) \subseteq ended
  /\ \A c \in Call : call[c] = NotMade => c \notin ended /\ ran[c] = <<>>
  /\ \A c \in Emits : call[c].known \subseteq ToSet(handlers[call[c].event])

ReenteredStuck ==
  \A d \in Call : (call[d] # NotMade /\ call[d].caller # Outside) =>
                 call[d].caller \in running /\ d # call[d].caller /\ d \notin ended

IInv == TypeOK /\ CallsAgree /\ CalledAsRegistered /\ ReenteredStuck
================================================================================
