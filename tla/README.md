# Verification of rust-samples-for-learning

TLA+ modules that model the programs of this repository, TLC configurations that
check them on small instances, and TLAPS proofs of the properties that matter most.
The repository is six independent programs; what they have in common is shared state
behind a mutex, tasks that await in between, and channels. That is where their bugs
would be, and that is what is modelled: control and ordering, not the data.

## 1. Inventory

| component (source) | state | operations | interaction |
|---|---|---|---|
| **long-polling** (`long-polling/src/main.rs`) | the hub: per client a message buffer and the sender of the waiting request's notification channel | `GET /join`, `GET /chat`, `POST /send`, the 5 s timer | requests share the hub (std mutex); a send wakes polls by capacity-1 channels after it has released the lock; hyper drops a handler when its peer hangs up |
| **chat** (`chat/src`) | `clients`, `rooms`, `members` behind one mutex; one task and one unbounded channel per connection | connect, enter a room, say, illegal frame, disconnect | a `select!` loop per connection reads frames and writes what others queued |
| **SFU: tracks and negotiation** (`webrtc-simple-mpmc/sfu/src/main.rs`, `handler.rs`) | `PeerManager` (tracks, channels to peers), the senders and the signaling state of each peer connection | add a peer, collect tracks, `Prepare`, `Answer`, `Start`, negotiation-needed, `Disconnected` | per peer: a collector, a main event loop, negotiation tasks, the websocket; all share the `PeerManager` |
| **SFU: data channels and PLIs** (same files) | `data_to_subscribers`, `to_publishers`, a queue per peer for each | text to all others, picture loss indication to a publisher | callbacks put into the queues of other peers, a task of each peer empties them |
| **async-event-emitter** (`src/main.rs`) | handlers by event behind one asynchronous mutex | `on`, `emit` | `emit` awaits handlers while it holds the mutex |
| **crud, in memory** (`crud/src/bin/simple.rs`) | a map of employees and an id counter, two mutexes | GET, POST, PUT, DELETE | requests share both |
| **crud, PostgreSQL** (`crud/src/bin/with_postgres.rs`) | a table, a pool of 20 connections | the same; PUT is a transaction of two statements | requests meet in the database |
| **auth** (`auth/src`) | tables of rooms and members | `POST /room` behind a JWT, `POST /member` by a room's token | requests meet in the database; the key set is fetched for each request |
| **browser client** (`webrtc-simple-mpmc/client/src/App.vue`) | websocket, connection, list of windows | sends `Prepare` and answers; shows and removes windows | the other end of the SFU |
| ICE configuration, logging, errors | none | | |

What makes each hard, and what makes it correct:

* long-polling: a poll decides to end, and takes the lock again only later; a send
  has released the lock before it notifies. Correct means that no message is lost,
  duplicated or reordered, no poll sleeps on a message, no send blocks for ever.
* chat: three maps are updated one after the other by many tasks; a task that writes to
  a peer that does not read handles nothing else. Correct means that the maps agree, a
  client is known exactly while its task runs, and everybody else in the room gets
  one copy of what is said.
* SFU: a `Start` is handled from a snapshot, without the lock, while tracks come and go;
  two kinds of tasks make offers that refuse each other. Correct means that, when
  everything queued is handled, each connection has a sender for exactly the tracks
  of the others, and its client comes to know of them.
* event emitter: a handler that calls its emitter waits for itself.
* crud and auth: statements of several requests interleave in the database; a commit may
  fail in a way that leaves its outcome unknown.

`PROJECT.json` lists the hazards at their lines, each with the properties that
cover it or the reason why none does.

## 2. Modules

| module | what it is |
|---|---|
| `Mailboxes` | abstract: one FIFO mailbox per client |
| `LongPolling`, `MCLongPolling`, `LongPollingProofs` | the long-polling server; implements `Mailboxes` |
| `RoomChat` | abstract: rooms, one copy of a message for everybody else, shown in order until the connection leaves |
| `ChatServer`, `MCChatServer`, `ChatServerProofs` | the TCP and websocket chat servers; implement `RoomChat` |
| `Forwarding`, `ForwardingProofs` | abstract: the SFU's tracks and senders, without connections and offers |
| `Sfu`, `SfuProofs` | sessions, queues, offers, lost connections; implements `Forwarding` |
| `SfuRelay`, `SfuRelayProofs` | texts and picture loss indications |
| `EventEmitter`, `EventEmitterProofs` | `on` and `emit` |
| `CrudRequests` | what the two crud programs share: requests, replies, answers, clients that hang up |
| `EmployeeStore` | abstract: each request takes effect at once, at most once, and its answer is true |
| `SimpleCrud`, `PostgresCrud` | the handlers of the two crud programs |
| `Crud`, `CrudProofs` | one of the two programs is run; implements `EmployeeStore` |
| `RoomBook` | abstract: rooms, members, and by what right they are created and entered |
| `Auth`, `AuthProofs` | auth's requests, its pool and database, the authority; implements `RoomBook` |

The two `MC` modules only add symmetry sets; the other runs check the component's module
itself. Names ending in `_wrong` are
plausible mistakes beside the definition they are a mistake of; every property listed in a
passing run fails when one of them takes its place.

### LongPolling

The hub is `joined`, `buf` and `chan`. `Poll` and `Post` are slots for requests in
progress; a slot is used again when its request ends, and every reference to the
channel of the old request then becomes `Gone` (`Rename`), as a tokio sender does whose
receiver is dropped. A step is what a request does between two points where
another task can run. `chat` is `Chat` (under the lock: answer, or register and
wait), `Recv` or `Timeout` (the select), `AnswerWoken` or `AnswerTimedOut` (the lock again);
`send` is `Send` (under the lock) and `Notify` (one channel after the other,
blocked while it is full). `DropPoll` and `DropPost` are peers that hang up.

### ChatServer

`clients`, `rooms` and `members` are the maps of `ChatRooms`, `queue` the channels. A task is
in its `select!`, in a write, or ended. The two servers differ only in what a frame is:
a websocket frame is one unit; a TCP read returns as many as have arrived
(`MaxRead`), and `parse_frame` takes them for one. Peers read, stall, or are gone
(`Behave`), so a task can be stuck in a write with its peer gone.

### Forwarding and Sfu

`Forwarding` keeps who is registered, the tracks, whether a `Start` is queued for each peer
(`due`), and where its handling is: `Snapshot` under the lock, `Remove` one sender after the
other and `Removed`, `Add` one by one and `Added`. `Sfu` has the sessions (a peer is registered before its connection
is set up, and setup may fail), the collectors, one inbox per main event loop, the
offers and the connections. `do_offer` is two steps, because another task may create an
offer between `create_offer` and `set_local_description`; the latter then
fails, as it does while another offer waits for its answer (`ApplyOffer`). The
peer connection (webrtc-rs) is modelled from how it is used: negotiation-needed
fires when signaling is stable and the senders are not those agreed on. A track is
known by its publisher and kind, a description by its tracks. Errors of `remove_track` and `add_track` (`handler.rs:439` and `496`) are only logged, and do not happen
in the model. The refinement
maps a non-empty inbox of Starts to `due`; to a session whose setup failed a Start
is due for ever.

### SfuRelay

Texts are told apart by the order in which they arrive. `owed` and `shown` are
histories. `remove_peer` does not remove the entry in `data_to_subscribers`, and the model
keeps that: texts are still shown to a peer whose connection was Disconnected for
a while. PLIs wait in the publisher's queue until its `ssrc` is known.

### EventEmitter

Each call of `on` or `emit` is made once, from outside or by a running handler, and
waits in the mutex's queue; tokio's mutex is fair. The mutex around each handler is
only taken while that one is held, so it is left out.

Callers that are cancelled and handlers that panic are left out: the program cancels nothing.
The calls ask for the mutex one after the other, so `queue` is both the callers that wait and,
at its head, the one that holds it.

### CrudRequests, SimpleCrud, PostgresCrud and Crud

A request is routed as warp does it (`Ask`; one that no route takes is answered by `Reject`),
handled, and answered, unless its client hangs up first. `request`, `reply` (what the handler
has decided) and `answer` (what the client was told, or `Nobody`) are kept for each.
In `SimpleCrud` a handler locks the map (`LockDb`) and keeps it locked until it returns; in between,
a POST generates its id (`Generate`) and a PUT looks for its employee (`Find`) before either inserts.
Nothing but the lock keeps others from coming between. A handler awaits nothing, so it runs to its end although its client
hangs up. Only who holds the map locks the counter, so the counter's mutex is left out. In
`PostgresCrud` its steps are those between awaits: `Connect` takes one of the pool's
connections, then each statement is on its way to the database and is carried out there by
`FindById`, `NextVal` and `Insert` (the id is drawn before the row is there), `DeleteById`, or, for PUT,
`SelectForUpdate`, `Update` and `Commit`. A statement that was sent is the database's:
it may be carried out although the handler has failed (`Fail`) or the client has hung up.
A transaction that nobody goes on with is rolled back (`Discard`) and keeps its row's lock until
then; its connection goes back to the pool at once, as the pool's guard is dropped with the handler. `Crud` chooses by `program` which of the two is run, so
that one run and one set of theorems speak of both.

### RoomBook and Auth

`POST /room` fetches the authority's key set (`FetchJwks`), validates the token
(`ValidateToken`; a token is known by the key it was signed with, and an unsound one by
none), checks the name's length, and inserts. `POST /member` locks the room's row by its id and
secret (`SelectRoom`; a secret that is wrong finds no row, and so waits for nobody's lock), inserts the member
and commits. Whatever goes wrong with the `SELECT` is answered 404 (`SelectFails`). A request holds a
connection from `Connect` until it is answered or dropped. `InsertRoom` draws the room's id and inserts
its row in one step: `RoomBook` asks only that the id is new, and nothing refers to it before the row is there. Meanwhile the authority publishes other
keys (`KeysChange`), and somebody removes rooms with their members (`RoomGoes`: the program has no
such operation, but its schema provides for it with `ON DELETE CASCADE`, and the lock that the
transaction takes is there for it). Pool, failures and abandoned statements are as in `PostgresCrud`. A secret is
random in the code and known here by the request it was drawn for.

`Auth` extends `RoomBook` and shares its variables for the tables, the keys and the requests, so
`ImplementsRoomBook` is `RoomBook`'s `Spec` itself, with no mapping.

## 3. Runs

A run asks one question of one program; safety and progress are separate runs where
symmetry or a larger instance pays for safety. Every action of every module is
taken in some passing run. `CHECK_DEADLOCK FALSE` is set everywhere, because clients
may stop asking and bounds end the behaviours.

| run | instance | shows |
|---|---|---|
| `longpolling_safety` | 3 clients, 3 polls (2 of one client at once), 2 sends | `IInv`, with the types; `NoLostWakeup`: a waiting poll with a message is about to be woken; `FifoPerClient`: answered, then buffered, is what was put; `OneOrder` |
| `longpolling_progress` | 2 clients, 2 polls (1 of one client at once), 3 sends, peers hang up, fairness | `ImplementsMailboxes`; `OnlyPostersLoseWakeups`: no step but a poster's hanging up loses a wakeup; `WokenPollAnswers`: a woken poll answers with a message; `EveryMessageFetched`; `SendReturns` |
| `longpolling_overlap` | 2 clients, 2 polls of one client at once, 2 sends, fairness | **violated**: `WokenPollAnswers` (finding 1) |
| `chat_safety` | 2 connections, 2 rooms, 4 units, reads of up to 2 units | `TypeOK`; `MembershipConsistent`: the maps agree; `KnownWhileRunning`; `ShownInOrder`; `ImplementsRoomChat` |
| `chat_progress` | 2 connections, 1 room, 3 units, one unit at a time, fairness | `QueuedIsShown`, `GoneIsForgotten` |
| `chat_tcp_lines` | 2 connections, 1 room, 2 units, reads of up to 2 units | **violated**: `RoomIsALine` (finding 2) |
| `sfu` | a publisher of two tracks and a consumer, a lost connection, a client that leaves, setups that fail, fairness | `IInv`; `SendersKept`: who has nothing to handle has the right senders; `DisagreementIsPending`: senders that are not those agreed on have an offer, an answer or an event under way; `ImplementsForwarding`; `AgreementCatchesUp`; `PublishedIsSeen` |
| `sfu_reconnect` | two publishers, one connection lost and up again, fairness | **violated**: `ConnectedIsSeen` (finding 3) |
| `sfurelay` | 2 peers, one of which publishes, 2 texts, 2 PLIs, fairness | `IInv`, with `OwedIsKept`: what is owed is shown or waits; `ShownInOrder`, `SaidIsShown`, `LossIsForwarded` |
| `emitter` | 4 calls, 2 events, handlers may call the emitter, fairness | `CalledAsRegistered`; `OnlyReentryBlocks`: some call can go on as long as any has not returned, unless a handler has called its emitter, and then none; `EveryCallReturns` unless somebody re-enters; `ReentryBlocks` |
| `crud` | 2 requests of any kind, 2 ids, 2 bodies, a pool of 1 or 2, up to 1 employee stored before, failures and clients that hang up at any await, fairness | `IInv`, with `PostedApart`: nobody is told another's new id; `FoundStays`: the row an update has found stays until its transaction ends; `ImplementsEmployeeStore`; `DeletedStaysDeleted`; `EveryRequestAnswered` |
| `auth` | 2 requests of either kind, a key that is published or not, a pool of 1 or 2, up to 1 room stored before, 1 change of keys, 1 removal of a room, failures and clients that hang up, fairness | `IInv`; `FoundRoomStays`; `EffectsByRight`: who is in a room, and what requests are answered, is by right and true; `ImplementsRoomBook`; `MembersAreAnswered`: an authority that says nothing holds up no member and no connection |

Why the bounds are enough: two sends are needed for reordering and for a second
notification of a channel that holds one already, and three polls for one that registers
while two others end. Membership needs two rooms to move between, and to enter a
room twice. One publisher's two tracks arrive in both orders, and the connection can be
lost between and after them; the second publisher of `sfu_reconnect` adds that one's own
tracks are skipped. With two texts, each of two peers can be shown the other's and skip
its own. Four calls are two handlers and an emit, and one more that waits for the mutex
or is made by a handler. Two requests are an update and what comes between its statements;
a pool of one makes one wait for the other's connection, a pool of two for its row. One change
of keys is one between the fetch and the validation, and one removal is one between the
selection of a room and the member's insertion.

What more actors could do to safety is left to the proofs. That matters most for `chat_safety` and
`sfurelay`, which have two peers each: that the messages of two speakers do not overtake each other for
a third who listens needs three connections that have entered a room and two that speak, at least
five units for the chat, which takes more than five minutes, as three peers do in `sfurelay`. `ChatServerProofs!Ordered` and
`SfuRelayProofs!Ordered` prove it for any number.

### Fairness

* LongPolling: the runtime polls ready tasks, and timers fire (`WF` of the steps of polls
  and posts). `EveryMessageFetched` assumes in addition that clients go on polling
  (`WF` of `Chat`). Nothing makes a client send or hang up.
* ChatServer: a task in `select!` takes a ready branch; `select!` chooses at random among
  ready branches, so a branch that is ready again and again is taken (`SF`). A
  write to a peer that reads completes; one to a stalled peer need not.
* Sfu: tasks, the connection's operations, and clients that are still there go on (`WF`).
  Nothing makes links come up or tracks arrive.
* SfuRelay: the loops that pass something on. Nothing makes channels open.
* EventEmitter: calls are polled, and a handler awaits nothing for ever but the emitter.
* Crud: a request's task and the database's work for it go on (`WF` of `Proceeds`), including the
  rollback of a transaction nobody goes on with. Nobody must ask or hang up, and
  nothing must fail: that every request is answered does not rest on the pool's timeout.
* Auth: tasks and the database, as in Crud. Nothing makes the authority answer, because the fetch
  has no timeout.

### Findings

1. `long-polling/src/main.rs:97` says of a timer that finds its request gone "A message
   has already been sent." A second `GET /chat` of the same client drops the first one's
   only sender, and the first ends at once with no message.
2. The session in `chat/README.md` enters a room by one line and speaks in the next. The TCP
   server takes what one read returns for one frame; two lines that arrive together
   become one room's name.
3. `webrtc-simple-mpmc/README.md:5` says that each publisher can broadcast to
   multiple subscribers. A connection that is `Disconnected` for a moment is removed from
   the `PeerManager`, and nothing registers it again when it comes back.

## 4. Proofs

Each `...Proofs` module extends its component. The constants are arbitrary; the only
assumptions are the named `ASSUME`s of the modules.

| theorem | statement |
|---|---|
| `LongPollingProofs!Invariance`, `TypeCorrect`, `NothingLost`, `AnsweredInOrder` | `IInv`, `TypeOK`, `FifoPerClient`, `OneOrder` |
| `LongPollingProofs!OnlyPostersLose` | `OnlyPostersLoseWakeups`: whatever else happens, no wakeup is lost |
| `LongPollingProofs!NoWakeupIsLost` | `NoLostWakeup`, when no poster hangs up in its send |
| `LongPollingProofs!WokenAnswersAlone` | `WokenPollAnswers`, when a client has one poll at a time and the polls are finitely many |
| `LongPollingProofs!KeepsPromise` | the server implements `Mailboxes` |
| `ChatServerProofs!TypeCorrect`, `MapsAgree`, `EndedIsDestroyed` | `TypeOK`, `MembershipConsistent`, `KnownWhileRunning` |
| `ChatServerProofs!Ordered` | `ShownInOrder` |
| `ChatServerProofs!KeepsPromise` | the servers implement `RoomChat`: nothing that was queued is left out but by the end of the task it was queued for |
| `ForwardingProofs!Invariance`, `InSync` | `IInv`, `SendersInSync` |
| `SfuProofs!Invariance`, `KeepsPromise` | `IInv`; the SFU implements `Forwarding` |
| `SfuProofs!InSync` | `SendersKept`, from the two theorems `KeepsPromise` and `ForwardingProofs!InSync` |
| `SfuProofs!NeverAtRest` | `DisagreementIsPending`: offers refuse each other, but never all of them |
| `SfuRelayProofs!Invariance`, `Ordered` | `IInv`, `ShownInOrder` |
| `SfuRelayProofs!NothingOwedIsLost` | `OwedIsKept`: a text that is owed to an open channel has been shown or waits |
| `EventEmitterProofs!Invariance`, `TypeCorrect`, `Ordered` | `IInv`, `TypeOK`, `CalledAsRegistered` |
| `EventEmitterProofs!NothingElseBlocks` | `OnlyReentryBlocks`: only a handler that calls its emitter blocks calls, and it blocks all |
| `EventEmitterProofs!StuckForEver`, `NothingMoves` | `ReentryBlocks`; after that only new calls are made |
| `CrudProofs!Invariance`, `FoundRowStays`, `NeverBack` | `IInv`, `FoundStays`, `DeletedStaysDeleted` |
| `CrudProofs!KeepsPromise` | both crud programs implement `EmployeeStore` |
| `CrudProofs!OneEffectEach`, `OwnIds` | `EffectsOnce`: a request changes the store once, with its reply, and only the row it is told of; `PostedApart`: no two POSTs are told one id |
| `AuthProofs!Invariance`, `FoundStays` | `IInv`, `FoundRoomStays` |
| `AuthProofs!KeepsPromise` | auth implements `RoomBook` |
| `AuthProofs!NothingButByRight` | `EffectsByRight` |

The arguments:

* **LongPolling.** `IInv` adds to the types that references to channels are live
  (`ReferencesAreLive`: a registration belongs to a poll of that client that is not idle), and
  that what was put was put in order. Without the first, a reused slot could
  be notified for somebody else. `NoLostWakeup` is inductive on top of it: a poll starts to
  wait only when its buffer is empty, and a send that fills the buffer holds the registered
  sender until it has notified it. Only a poster that hangs up breaks this, which the code allows
  and `OnlyPostersLoseWakeups` says; then the 5 s timer and the next poll fetch the message (`longpolling_progress`).
  `WokenAnswersAlone` stands on `OnePollInv`: a waiting poll is the registered one, so it is woken by
  a notification and not by a closed channel, and a poll that is or will be notified has a message
  left. With two polls of one client the first fact fails (`longpolling_overlap`).
* **ChatServer.** `IInv` is types, agreement of the maps, and `KnownWhileRunning`. The work
  is in entering: the connection is pushed first and its first occurrence in the old
  room is removed afterwards; lemmas about `Append` and removal show that this leaves it
  listed once, also when old and new room are the same. That each of the others gets one copy
  (`CopiesAreOnce`) needs that a room lists nobody twice. `Ordered` has an invariant of its own on top,
  `OrderInv`: what a peer has been shown, what its task is writing and what is queued for it are one
  line (`OnTheWay`), to whose end only newer messages are put; taking and writing an item move
  boundaries within that line, and a task that ends drops the end of it. The same line is the
  refinement: `RoomChat` has one inbox for each connection, which is what its task has taken and what
  its channel holds (`Pending`), and shows its head. So it allows no copy to be skipped, and the
  servers skip none. That a task has taken one item at most (`Taken`) makes the item written the head.
* **Forwarding.** `SendersInSync` speaks of a peer that has nothing to handle. `IInv` extends
  it to peers in the middle: unless a Start is due, what the handling will leave
  (`Expected`: the snapshot while it lasts) is in step with the tracks. Every
  change of the tracks that matters makes a Start due to every subscriber under the same
  lock, which is why an old snapshot does no harm.
* **Sfu implements Forwarding.** `IInv` adds that only running sessions are connected, so
  nobody publishes who has not been registered. Each action is a step of
  `Forwarding` or none; lemmas about queues show when an inbox holds a Start.
  `DisagreementIsPending` says that a connection whose senders are not those agreed on is never at
  rest: somebody has to answer an offer, or make one, or negotiation-needed is yet to fire. An offer
  that is refused is refused for another that is newer or not answered yet, and an offer that
  is applied carries the senders of its time, so the disagreement stays somebody's duty. `OfferInv` has
  what this rests on: there is one answer for each offer that waits for one (`AnswersMatch`), only
  running sessions negotiate, and once negotiation-needed has fired an offer is to come.
* **SfuRelay.** Texts are numbered as they come in. `IInv` adds to `ShownInOrder` that what
  waits in a queue is in order too, comes after all that was shown, and is numbered no
  higher than the last text (`TextsInOrder`); a text is then put at the end of every queue, and
  taken from the head. `OwedIsKept` needs that a peer with an open channel is never removed from
  `data_to_subscribers`, which the code leaves alone, and that a peer passes on its texts
  one by one and skips only its own.
* **EventEmitter.** `CallsAgree` says that whoever runs a handler holds the mutex, and that handlers
  are calls of `on` that have returned, so none is registered twice. Only `On` changes an event's
  handlers, at the end; what an emit has called is therefore always a prefix of them. For
  `ReentryBlocks`, `ReenteredStuck` adds that whoever's handler has called the emitter is still running and
  that this call has not returned: the head of the queue never leaves. `OnlyReentryBlocks` is the exact
  condition: the guards of all steps (`CanGoOn`; `StepsOnlyIfCan` shows that they are) come down
  to the head of the queue, whose handler waits for calls of its own or for nothing.
* **Crud.** `IInv` (its part `StepInv`) is types, `IdsAreFresh` (ids under way are below the sequence, unused and each
  another's), `MapIsHeld` (in memory, one handler at a time holds the map, so the employee that a PUT has found is
still there when it inserts) and `StagesAgree`. A row that was found is locked, and a deletion of a locked row
  waits, which gives `FoundStays`; with it an `UPDATE` never misses its row. Each step that
  makes a row, changes one or takes one away is then a step of `EmployeeStore` of the
  request whose statement it is, and all others leave the store alone. What is true of every
  behaviour of `EmployeeStore` is then true of both programs, and is proved there once: `EffectsOnce`
  from each of its steps, and `PostedApart` by induction over them, because an id that is
  given is new and stays used.
* **Auth.** `StagesAgree` carries by what right a request has come so far: fetched keys have been
  published since it was made, and what is handled or sent has a token of such a key.
  `FoundRoomStays` is the lock's invariant, as in Crud; with it, a member's commit finds its room
  by the secret that was shown, which is the guard of `RoomBook`'s `Enter`.
  `EffectsByRight` is an invariant of `RoomBook`, proved there from `BookInv`, in which a
  creator or member is a request and who has asked nothing is answered nothing; the refinement carries
  it over to auth, with its pool, lost commits and changing keys.

`Forwarding` has no run of its own: TLC checks its `SendersInSync` of the SFU, as
`SendersKept`, through the refinement mapping.

What stays with TLC: the liveness properties (fairness and `ENABLED` are out of the prover's
reach): `EveryMessageFetched`, `SendReturns`, `QueuedIsShown`, `GoneIsForgotten`,
`AgreementCatchesUp`, `PublishedIsSeen`, `SaidIsShown`, `LossIsForwarded`, `EveryCallReturns`,
`EveryRequestAnswered` and `MembersAreAnswered`. Some of them have a theorem for their safe half: what must
happen is still pending, or somebody can go on (`DisagreementIsPending`, `OwedIsKept`,
`OnlyReentryBlocks`, `NoLostWakeup`). Every invariant and every action property of a passing run is proved,
`NoLostWakeup` for posters that stay and `WokenPollAnswers` for clients that poll one request at
a time. `EffectsOnce` has no run of its own, since the promise it follows from is what the run
`crud` checks. In `longpolling_overlap`, `chat_tcp_lines` and `sfu_reconnect` there is nothing to
prove: they are counterexamples.

## 5. Not modelled

* Message bodies and their parsing, logging, start-up, and media packets, which are copied by a loop
  of their own: no state of the kind the properties speak of.
* **The ICE configuration** (`ice.rs`): a function from the environment and the clock to a
  configuration and a credential, computed for each request; there is nothing it could interleave
  with.
* **ICE candidates.** `on_ice_candidate` spawns a task that sends a candidate (`handler.rs:310`), while
  `do_offer` sends the offer itself (`handler.rs:517`), so a candidate may reach the client before
  the offer it belongs to, and the client does not wait for `addIceCandidate`. Whether a
  connection comes up without that candidate is decided by the ICE agents of webrtc-rs and the
  browser. The model takes a link to come up at any time after an answer, or never.
* **The browser's windows** (`App.vue`, the list of videos). They follow the browser's track and mute
  events, and no code of the repository says when those come. Reading it shows two dangers, which
  are listed as hazards: the window is built of the stream's first audio track, which may
  not be there yet, and the loop that removes a window tests the list's length instead of the
  index, so that it does not end when a video that is no longer listed is muted again.
* **Errors that cannot occur.** `client.send` in the chat (`chat_core.rs:73` and `108`) fails only when the
  receiver is gone, and the task that is in the call holds it.
* **The queue of a peer that is gone for good** stays in `data_to_subscribers` and grows (`handler.rs:145`).
  The model keeps the queue; no property calls that right or wrong.
* **Answers in words.** Two things noticed that no property is about: auth answers 404 to any
  error of the `SELECT`, and it counts a name's length in bytes.
* The text of SQL and of tokens: a statement is what it does to the tables, a token the key that
  signed it. Expiry, audience and issuer are one choice of the JWT library.
