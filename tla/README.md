# SkyTime: a TLA+ model of the push server

SkyTime is a websocket push server written in Go (`src/server`).  Peers keep a
websocket open to it; an application server posts messages, and SkyTime hands
them to all peers, to the peers of some rooms, or to named peers.  This
directory models its concurrent core and what its operator uses (the web
console in `src/static`, the telnet port, the process and its pid file) in
TLA+, checks it with TLC and proves its safety properties with TLAPS.

## 1. The system

| Part | Code | State | Operations | Talks to |
|---|---|---|---|---|
| hub room | `hub.go` `hub`, `hub.run` | `connections` (peer_id to connection), `peercnt`, channel `broadcast` | register, unregister, hand a message to every connection, drop a connection whose channel is full | pushes (by `broadcast`), connections (by `register`, `unregister`, `send`) |
| connection | `hub.go` `connection`, `skytime.go` `websocketHandler` | channel `send`, map `write_msg_Q`, channels `recv_ack_seq` and `notify_mu`, the websocket | accept, start reader and writer, write, ping, read ACK and notify frames, fail | its room, `msg_ack_stat`, `processNotifyMessage` |
| push dispatch | `hub_rooms.broadcast`, `broadcast_rooms`, `broadcast_peers`; handlers in `apis.go`, `skytime.go` | queue `broadcast_Q`, token `broadcast_mu`, `total_msg_cnt` | queue, take the token, number, hand out, return the token | rooms; connections directly, for named peers |
| acknowledged delivery | `writeRTO`, `checkPongMessage`, `msg_ack_stat` | `write_msg_Q`, `retry_times`, `wait_ttl`, `msg_stats` | write, retry, give up, take an ACK, count | the peer (`client/wsbk.go`) |
| notify frames | `processNotifyMessage`, `connection.write` | `notify_ack_Q`, `notify_mu` | queue, answer | all connections |
| connection limit | `websocketHandler`, `register`, `unregister` | `total_peer_cnt` | compare, increment, decrement | - |
| presence | `register`, `unregister`, `cron_detect_all_peers`, `callApi` | kept by the application server | report a peer online or offline, sweep | the application server |
| telnet port | `telnetHandler` | one read buffer per session | read a line, push it 100 ms later | `broadcast_Q` |
| address filter | `ipfilter.go`, `check_*_ipf` | two lists, fixed at start | test an address | handlers |
| lifecycle | `main`, `utils.go`, `test/reload_skytime` | pid file, listeners | start, signal, console command, exit | the operator |
| web console, overview | `skytimeOverviewCtl` in `static/scripts/main.js`, `apiOverview` | the figures shown, the chart, the requests under way | refresh by timer and by button, show an answer | `/api/overview` |
| web console, rooms | `skytimeServerGroupMainCtl` and its factories in `main.js`, the handlers of `apis.go` | the list of rooms, the dialogs with their scopes, the requests under way | refresh, view a room, push to all, a range, a list, some peers | `/api/server_rooms`, `room`, `broadcast_*`; through them push dispatch |
| load-test client, PHP SDK | `client`, `php_sdk` | - | clients of the above | - |

What is hard in it: every connection is two goroutines, every push another one;
they meet in the room's goroutine and in channels of finite capacity.  A
connection can be replaced by another one of the same peer_id, dropped in the
middle of a fan-out, or be looked up and then closed.  Reader and writer wait
for each other at unbuffered channels, all pushes wait for one token, and the
retry clock races the ACKs.  The web console waits for no answer: answers come
late, in another order or not at all, while dialogs are opened and closed.
`PROJECT.json` lists these hazards at their lines.

## 2. Modules

| Module | Models | Built on |
|---|---|---|
| `Hub` | rooms and connections: state and actions | - |
| `Dispatch` | the three kinds of push, and the whole specification of rooms, connections and pushes, with its properties | `Hub` |
| `DispatchProofs` | theorems about `Dispatch` | `Dispatch` |
| `AckRto` | acknowledged delivery of pushes to named peers | - |
| `AckRtoProofs` | theorems about `AckRto` | `AckRto` |
| `AckStatProofs` | the theorem about its statistics | `AckRtoProofs` |
| `NotifyAck` | notify frames, and who writes to a websocket | - |
| `NotifyAckProofs` | theorems about `NotifyAck` | `NotifyAck` |
| `Presence` | the count of connections and the reports to the application server | - |
| `PresenceProofs` | theorems about `Presence` | `Presence` |
| `RoomFeed` | what a room promises to its connections, abstractly | - |
| `DispatchFeed` | the mapping by which `Dispatch` implements `RoomFeed` | `Dispatch`, `RoomFeed` (INSTANCE) |
| `DispatchFeedProofs` | theorems about the order and completeness of what connections get, and the refinement | `DispatchFeed`, `DispatchProofs` |
| `Overview` | the overview of the web console and its handler | - |
| `RoomsPanel` | the rooms panel of the web console and its handlers | - |
| `Telnet` | a session on the telnet port | - |
| `Lifecycle` | processes, port and pid file | - |
| `Operator` | the last four together | `Overview`, `RoomsPanel`, `Telnet`, `Lifecycle` |
| `RoomsPanelProofs` | the inductive invariant of the rooms panel | `RoomsPanel` |
| `OperatorProofs` | theorems about `Operator` | `RoomsPanelProofs`, `Operator` |
| `MCDispatch`, `MCAckRto`, `MCNotifyAck`, `MCPresence`, `MCOperator` | small instances for TLC | the module of that name |

### Hub

The maps `h.connections` of all rooms are one function `connections` from
peer_id to connection: `get_room_id` gives each peer_id one room for the whole
life of the process, so the maps never share a key.  It is the constant
`RoomOf`; the consistent hash behind it is not modelled.

`reader[c]` is the program counter of the HTTP handler and then of
`checkPongMessage`: "idle", "register" (waiting on `room.register`), "online"
(in the call to `client_online.json`), "reading", "acking" (waiting on
`recv_ack_seq`), "unregister", "offline" (in the call to
`client_offline.json`), "done".  `writer[c]` is that of `writeRTO` or
`writePump`.  `AckRto` chooses between the two: `writeRTO` ignores a write
error and takes ACKs, `writePump` returns on a write error and takes none.

| Action | Code |
|---|---|
| `Reject`, `Accept`, `StartPumps` | `websocketHandler` |
| `HubRegister`, `HubUnregister`, `HubUnregisterAbsent` | the register and unregister cases of `hub.run` |
| `HubTake`, `HubSend`, `HubDrop` | the broadcast case: start of the range loop, and one round of it by each branch of the inner select |
| `WriteMsg`, `WriteClose`, `PingFails` | the writer's select |
| `ReadAck`, `TakeAck`, `ReadFails`, `ReaderEnds` | `checkPongMessage` and its deferred call |

The unbuffered channels `register`, `unregister` and `recv_ack_seq` are joint
steps of the two sides.  The throttle of the range loop only delays it.  A send
or a close on a closed channel sets `panic`, after which nothing happens: Go
ends the process.

The reader here takes ACK frames only.  Its wait for a place in `notify_ack_Q`
is in `NotifyAck`, and a text frame shorter than five bytes, at which the code
panics, is left out: `InactiveLeaves` is said of peers that send no such frames.

The history variables `feed`, `since` and `out` record what a room took, when a
connection joined, and what its writer took.

### Dispatch

A push is one member of `Msgs` with a `Kind` and its `Targets`.  `job[m]` is
the program counter of the goroutine that serves it: "queued" in `broadcast_Q`,
"waiting" for the token, "sending", "direct" (a connection has been looked up
and the send is next), "done".  `Submit` and `CallPush` are the delayed
goroutines of the request handlers, whose 100 ms sleep makes their order
arbitrary.  `HitPeer` and `DirectSend` are two steps because the code holds no
lock between the look-up and the send.  `MapRace` is the other outcome of that
look-up: it reads a Go map that the room's goroutine is about to write, and the
runtime may end the process.

`PushesFinish` says how a push may fail to end: by a panic, or because from some
time on a direct send waits for a place in the channel of one connection
(`Stalled`), which holds the token.  Nothing else stops pushes; the rooms never
wait for a connection.

### RoomFeed and DispatchFeed

`RoomFeed` has no channels and no goroutines.  A room publishes messages one
after the other; a member gets every message published since it joined, in
order, or ceases to be a member; the room publishes the next message when all
members have this one.  `DispatchFeed` reads that off the state of `Dispatch`:

| `RoomFeed` | `Dispatch` |
|---|---|
| `log` | `feed`, what the room's goroutine took from `h.broadcast` |
| `member` | the connections the map `h.connections` names |
| `start` | `since` |
| `given` | the room messages in `out[c] \o send[c]` |

A join may take the place of another member (a repeated peer_id), and a drop is
a leave.  Everything else is a stutter.  The refinement is what a fan-out over a
changing map could get wrong: a connection left out, given a message twice, or
given one after it has been unregistered.

### AckRto

`write_msg_Q[c]` is the set of keys of the map, with the fields of its entries
in `retry_times` and `wait_ttl`.  The loop of the rto_ticker case is unrolled
into one step per entry (`RtoWait`, `RtoRetry`), because each write in it waits
for `msg_ack_stat`.  Frames carry the number modulo `SeqMod` (2^32 in the
code), the map is keyed by the whole number.  A peer answers frames in order and
may leave one unanswered.  Pushes to rooms are written once, neither kept nor
counted, and are left out; so are requests that name one peer_id twice, which
put one message into `send` twice and restart its tries.

### NotifyAck

Only what matters for writing to a websocket: the writer goroutine and
`processNotifyMessage`, which both call `connection.write`, and the queue
between the readers and the latter.  `Locks` is the test at the head of
`connection.write`.  `enable_ack_rto` is chosen from `Settings` at the start and
never changes: it decides whether `processNotifyMessage` runs, and whether
writers take the lock.

### Presence

The same connections again, seen from the application server.  `session[c]`
follows the handler and then the reader: the test of the limit, the
registration, `total_peer_cnt++` (a read and a write, since nothing makes it
atomic), the call to `client_online.json`, the life of the connection, the
unregistration, `total_peer_cnt--`, the call to `client_offline.json`.
`HubDrop` takes an entry out of the map at any time.  `room`, `must`, `seen` and
`calling` are the background job `cron_detect_all_peers`: Go's range loop over a
map that changes reaches every entry that stays, and may or may not reach one
that is added.  The job runs only for `max_detect_peer_interval > 0`
(`DetectsPeers`), which both runs give its shipped value 3600.  A call may succeed, fail before the report arrives, or fail
after it.  The application server is external; it keeps the last report that
arrived.

### Overview

`poll[p]` is one request for `/api/overview`: "sent", "handling" (the handler
has read the count, not yet the counters for `ops`), "answered", "free".  The
page makes two requests when it is opened, one by the controller and one by
`autoUpdate`; `Refresh` is the timer or the button.  `ShowAnswer` replaces what
is shown, whichever request the answer belongs to.  Of the figures the model
keeps the number of pushes and `ops`.

### RoomsPanel

A click or a callback is one step, because the page is one thread; while an
alert is up nothing else of the page runs.  `query[q]` is a request for the
list: `refresh` puts a new, empty array on the page, and an answer fills the
array of its own request.  `dialog[d]`, `kind[d]` and `task[d]` are a dialog and
what OK handed over, `call[d]` its request, `job[d]` and `targets[d]` the
goroutine the handler starts, `pushed[d]` what that reached, `told[d]` what the
alert said.  `CallFails` loses a request or its answer; in the second case the
push is made all the same.  A handler that cannot read the body starts no
goroutine, and its answer goes into the connection that just broke: for the page
that is a lost request too.  `HandleView` reads the map of a room in one step,
although the code ranges over it without a lock; every peer has one room, so an
answer put together over several steps would still name peers of that room only.

What the handlers do with the text of the dialogs is modelled: a number field
holds a string until it is edited, `null` when cleared, and then a number or a
fraction, which `json.Unmarshal` into an `int` takes or refuses (`RangeRooms`);
a list is split at commas and `TrimSpace` is applied after `"room_"` has been
put before the number (`SetRooms`).  `HandleView` with no peers answers `null`,
which AngularJS 1.2 does not pass to the callback (`ShowPeers`).  AngularJS and
ui.bootstrap are modelled by what the controller relies on.

### Telnet

`buf` holds, for every byte of the buffer of the session, the number of the Read
that wrote it.  Each Read starts a goroutine that sleeps and then puts the slice
`buf[0:n]` into `broadcast_Q`; the bytes are copied only in `broadcast()`, one
by one (`CopyByte`), while further Reads may come.  `body[k]` is what is pushed
for Read k.  `token` is `broadcast_mu`: `broadcast()` takes a slice from the queue
(`TakeSlice`), waits for the token (`TakeToken`), copies, hands the message out
and returns the token (`ReturnToken`).  `OtherPush` is a push to rooms or peers
that takes the token and may never return it.

### Lifecycle

`Pids` are processes started one after another or together.  The file is opened
without truncation, written, and only then the port is taken (`Listen`); only
`Leave`, the exit command, removes it.  A process that opened a file which was
removed before it wrote writes to a file without a name (`holds`).

### Operator

The four parts share no state: they meet only in the pushes they make, and those
are the business of `Dispatch`.  A product of the four would multiply states
without adding a single new behaviour of any part, so `Operator` is their
disjoint union: `part` says which one moves, and the others stay in an initial
state.

## 3. Runs

| Run | Expect | Properties | What it shows |
|---|---|---|---|
| `MCDispatch_repeated` | pass | `TypeOK RegistrySound PeercntCovers OnePusher ImplementsRoomFeed` | a second connection with the same peer_id, a push to rooms that names a room twice and an unknown one, a push to peers, ACK frames; what remains true whatever replaces what, and that the server implements `RoomFeed` |
| `MCDispatch_distinct` | pass | `PeercntExact ActiveRegistered NoDoubleClose FanoutSound FeedComplete DirectOrdered` | two peers in one room, a push to all and two to peers, `writePump`; what is true when no peer_id is repeated, and a connection dropped while the loop goes on to the other |
| `MCDispatch_live` | pass | `FeedOrdered PushesFinish InactiveLeaves FeedServed` | a push to all, one to rooms and one to peers, a connection whose writer may stand still: enough messages to fill the channel and its room's hand and queue, and to make a direct send wait for ever |
| `MCAckRto_delivery` | pass | `TypeOK SendsBounded DropIsFinal AckStatBounded AckStops QueueDrains AckTaken` | two messages, one of which wraps on the wire, three writes and six ticks each |
| `MCNotifyAck_locked` | pass | `TypeOK NoConcurrentWrite NotifyInOrder NotifyQueued LocksTaken` | two connections, three notify frames each, a queue of two, with `enable_ack_rto` 0 and 1 |
| `MCPresence_reports` | pass | `TypeOK GoneIsOffline RegisteredIsOnline` | two connections of one peer_id, two failing calls, drops and the background job at any time |
| `MCOperator_parts` | pass | `TypeOK ListFresh OwnPeers PushWithinNamed AlertTells TelnetBody PidFileNames BackOnlyOvertaken OverviewCatchesUp TelnetPushed` | late, lost and overtaking answers in both panels, a telnet buffer that is overwritten while it is copied, processes that die with the pid file in place |
| `MCDispatch_active` | violation | `NewestStays` | reconnecting before the old connection is unregistered |
| `MCDispatch_closetwice` | violation | `NoDoubleClose` | reconnecting between the drop of the old connection and its unregister request |
| `MCDispatch_sendclosed` | violation | `NoSendOnClosed` | the look-up of `broadcast_peers` is stale when it sends |
| `MCDispatch_stuck` | violation | `InactiveLeaves` | a reader with an ACK for a writer that has returned |
| `MCPresence_count` | violation | `CountSettles` | two handlers count themselves at once |

Run one with `tlc -workers 2 -config MCDispatch_repeated.cfg MCDispatch`.

Every passing run says `CHECK_DEADLOCK FALSE`: the peers may stop connecting and
the application server may stop pushing, and after a panic the process is gone.

### What the violations are

* `NewestStays`: `hub.run` deletes the entry of a peer_id without looking
  which connection it names.  Register c1, register c2 with the same peer_id,
  c1's reader fails: the entry of c2 goes and c2 lives on, unreachable.  (That
  c1 itself is no longer in the map once c2 has taken its place is not held
  against the code: the property is about a connection that was registered.)
  The same history leaves `peercnt` too high for ever, so `PeercntExact` needs
  distinct peer_ids too.
* `NoDoubleClose`: c1's channel is full and the range loop drops and closes it;
  c2 registers under the same peer_id; c1's reader fails and its unregister
  request finds the entry, which is c2's.  `hub.run` closes c1's channel a
  second time and the process ends.
* `NoSendOnClosed`: `broadcast_peers` finds c, c is unregistered, its channel is
  closed, the send panics.
* `InactiveLeaves`: in the acknowledged mode, a failed ping ends the writer
  while the reader waits on `recv_ack_seq`.  The reader never gets to its
  deferred unregister call.
* `CountSettles`: two handlers read the same `total_peer_cnt`; one increment is
  lost, and the count stays wrong.

`NoConcurrentWrite` holds for `enable_ack_rto` 0 and 1.  The lock is used only
for `enable_ack_rto == 1` while the second writer exists for every
`enable_ack_rto > 0`: with `Settings = {2}` TLC finds two goroutines writing to
one websocket.

`PushWithinNamed` bounds a push from above only.  `apiBroadcastSet` trims
`"room_" + v`, so the space in "0, 1" stays inside the name `room_ 1`, which is
no room: room 1 gets nothing, while the page says success.

### What the passing properties allow

Some properties name the only way in which things do go wrong:

* `PushesFinish`: one direct send that waits for ever stops all pushes.
* `NotifyQueued`: with `enable_ack_rto = 0` nobody empties `notify_ack_Q`; once
  it is full its readers stay.
* `TelnetPushed`: what a Read returned is pushed in the end, unless another push
  keeps the token for ever, as in `PushesFinish`.
* `RegisteredIsOnline`: only where the background job runs (`DetectsPeers`).
* `TelnetBody`: a push may hold bytes of a later Read, never of an earlier one.
* `BackOnlyOvertaken`: the overview goes back when answers overtake each other,
  and only then.  `OverviewCatchesUp`: it does not stay behind.
* `PidFileNames`: the file has a tail of old digits when a dead process left a
  longer number, and names the wrong process when a second server was started.
* `AlertTells`: where the address is refused the answer is an empty page with
  status 200, and the alert says success.

### Bounds

Channel capacities are 1 (the code has 4096 and 40960): what matters is that
they can be empty, partly used and full, and a full one is then reached with few
messages.  Two connections are enough for a replacement, for a drop in the
middle of a fan-out and for a loop that goes on after it.  The three runs
make every two kinds of push meet at the token.  `max_retry_ttl = 3` and
`max_wait_ttl = 6` give marks two ticks apart, the smallest distance for which
`DropIsFinal` is meant.  `SeqMod = 2` makes the second message wrap.
`MaxNotify = 3` gives six frames for a queue of two and one in hand.  In
`Presence` two connections of one peer_id give all orders of two online and two
offline reports; the peer is in the second of two rooms, so that the job has a
room to leave out; `MaxFails` is a bound on failing calls, without which
`RegisteredIsOnline` could not hold.

In `Overview` the two `Polls` can overtake each other, `MaxPoints = 1` fills the
chart with the second answer, `PushTime = 1500` makes `ops` change with each of
the two pushes, and `MaxLost = 1` request fails.  In `RoomsPanel` every kind of
dialog is tried in d1 (`KindsOf`) with a room viewed in d2 beside it; both may
view different rooms, one with a peer and one without; the list is asked for
twice (`MaxQueries`), a peer moves once, a request fails once.  `RangeTasks` has
the untouched fields, and a cleared field with an end past the last room;
`SetTasks` a list with a space and one with an unknown room.  Three Reads into a
buffer of two bytes with a queue of one slice give a copy interrupted by two
Reads.  Three pids of 2, 2 and 1 digits give an overwritten file, a shorter
number over a longer one, and a process that finds the port taken.

### Fairness

* `Dispatch`: weak fairness of each room, each push, the loop of `broadcast()`
  and a reader whose socket is closed.  These wait for nothing but each other;
  the Go scheduler runs them.  Nothing is assumed of peers, of writers (they
  wait for the peer's socket) or of the application server (`callApi` has no
  timeout).
* `AckRto`: weak fairness of the writer and the counter; strong fairness of the
  tick and of taking an ACK, because they compete in a `select`, which chooses
  at random among the ready cases.  Nothing is assumed of the peer.
* `NotifyAck`: a write ends by its deadline (`writeWait`).  Strong fairness for
  taking the token and for a place in the queue: a Go channel serves its
  waiting goroutines first come, first served.
* `Presence`: the background job goes on and the application server answers it.
  Nothing is assumed of the connections.
* `Operator`: the timer of the overview fires for ever, its requests are
  answered (at most `MaxLost` fail).  `broadcast()` goes on when it has the
  token, and a goroutine that waits for a place in `broadcast_Q`, or for a token
  that is returned again and again, gets it (strong fairness: a Go channel
  serves its waiters in turn).  Nothing is assumed of other pushes, which may
  keep the token for ever, of the operator, of the telnet client or of the
  processes.

## 4. Proofs

`tlapm M.tla` checks the proofs of module `M`, for `M` one of `DispatchProofs`,
`DispatchFeedProofs`, `AckRtoProofs`, `AckStatProofs`, `NotifyAckProofs`,
`PresenceProofs`, `RoomsPanelProofs` and `OperatorProofs`.  Every safety
property that a passing run checks is a theorem here, invariants, action
properties and the refinement; the liveness properties are not.

The assumptions are those named in the models (`HubConstants`,
`DispatchConstants`, `AckRtoConstants`, `NotifyConstants`, `PresenceConstants`,
`OverviewConstants`, `PanelConstants`, `TelnetConstants`,
`LifecycleConstants`): the functions have the right domains, bounds are natural
numbers, capacities and settings are positive, and there are finitely many
rooms.  The sets of connections, peers, messages and dialogs are arbitrary.
Where a theorem needs more, its statement says so: `DistinctPeers`,
`Step >= 2`, `Settings \subseteq {0, 1}`, `OwnWire`.

**Dispatch.** `RegistrySound` is not inductive: that a range loop drops a
connection without leaving a dangling entry needs `FanoutSound`, that a new
connection's channel is open needs `Fresh` (a channel is closed only after its
connection has been registered), and both need that a room has a message in
hand exactly while its loop has connections left (`LoopInv`).  `DirectInv` gives
the type of what a direct send sends to.  The inductive invariant is

    HubInv == TypeOK /\ LoopInv /\ DirectInv /\ RegistryInv

| Theorem | States |
|---|---|
| `TypeCorrect` | `TypeOK`, `LoopInv`, `DirectInv` |
| `RegistryCorrect`, `FanoutCorrect` | the two parts of `RegistryInv` |
| `PusherCorrect` | `OnePusher` |
| `PeercntCorrect` | `PeercntCovers`; the registered peers of a room are finitely many along the way, and the three places that write the map are the only ones that write the counter |
| `NoDoubleCloseCorrect`, `PeercntExactCorrect`, `ActiveRegisteredCorrect` | the three properties for distinct peer_ids (`DistinctPeers`); for a repeated peer_id `MCDispatch_closetwice` and `MCDispatch_active` show how the first and the third fail, and the history of the latter leaves `peercnt` too high |

**What connections get** (`DispatchFeedProofs`).  A room takes its messages in
the order of their numbers because of the token: whoever holds it has the
largest number given out (`OnePusher`, `NumberInv`), nothing is in a room's or a
connection's channel before it has its number (`LateInv`), and a message is in
`broadcast_Q` once (`QueueInv`), so no push is numbered twice.

    OrderInv == HubInv /\ OnePusher /\ QueueInv /\ NumberInv /\ LateInv
                /\ SourceInv /\ FeedOrdered /\ DirectOrdered

That nothing is missed needs no order but the history of a channel: it is empty
until the connection is registered, because no push has found the connection
before (`BornInv`); the message a room hands out is the last one it took
(`SourceInv`); and what came from the room can be told from what
`broadcast_peers` put in between (`PlacedInv`).  Then the room messages of a
registered connection are a stretch of its room's messages, from its
registration to the one in hand (`MatchInv`).

    FeedInv == HubInv /\ SourceInv /\ BornInv /\ PlacedInv /\ MatchInv

The refinement uses the same invariant: `HubTake` is a `Publish` of `RoomFeed`,
`HubSend` a `Deliver`, `HubRegister` a `Join` (for a repeated peer_id, with the
replaced connection leaving), `HubUnregister` and `HubDrop` a `Leave`; every
other step leaves the feed alone.

| Theorem | States |
|---|---|
| `FeedOrderedCorrect`, `DirectOrderedCorrect` | `FeedOrdered`, `DirectOrdered` |
| `FeedCompleteCorrect` | `FeedComplete` |
| `RoomFeedImplemented` | `ImplementsRoomFeed`, the safety part of the refinement |

**AckRto.** The bound on writes rests on a budget: what has been written plus
the tries left is at most `max_retry_ttl` (`BudgetInv`), and an overdue message
has at least two tries left, whatever the integer division gives.  The same
invariant says that an acknowledged message is neither in `send` nor in
`write_msg_Q`, which gives `AckStops`.  `DropIsFinal` needs `MarkInv` (a kept
message's `wait_ttl` is at or above its next mark) and `Step >= 2`: with
`max_wait_ttl / max_retry_ttl = 1` the tick that gives a message up may write it
once more.

| Theorem | States |
|---|---|
| `TypeCorrect` | `TypeOK` |
| `SendsBoundedCorrect` | `SendsBounded`, for all settings |
| `AckStopsCorrect` | the action property `AckStops` |
| `DropIsFinalCorrect` | `DropIsFinal`, for `Step >= 2` |

`AckStatBounded` (`AckStatProofs`) is about two counters that one goroutine
keeps for all connections.  It holds for each connection alone: the ACKs of a
message that have been counted, with the one `writeRTO` has just taken, are at
most the writes that have been counted; together with the frames and ACKs still
on their way they are at most the writes (`AckOK`).  The counters are sums
of such numbers (`StatInv`); a sum over the connections is the number of pairs
`<<c, k>>` with `k` below the term of `c` (`Marks`), so that facts about finite
sets do for induction.  How many ACKs each connection has had counted is no
variable of the model; `StatInv` says that such numbers exist.

| Theorem | States |
|---|---|
| `AckStatBoundedCorrect` | `AckStatBounded`, under `OwnWire` |

`OwnWire` says that no msg_id is the wire number of another.  A frame carries 32
bits of the msg_id, so this means fewer than 2^32 pushes since the start: after
that, an ACK of a new message is counted for the old one.

**NotifyAck.** A goroutine that is inside `WriteMessage` has the connection's
token, and without acknowledgements there is only one writer (`LockInv`); that
uses what `processNotifyMessage` has in hand in each of its places
(`Typed == TypeOK /\ HandInv /\ HeldInv`).  `NotifyInOrder` is inductive together
with `Typed`: the frames of one connection in the shared queue are rising and
without a gap, between the last one taken and the last one put.

| Theorem | States |
|---|---|
| `TypeCorrect` | `TypeOK` |
| `NoConcurrentWriteCorrect` | `NoConcurrentWrite`, for settings 0 and 1; it is false for `Settings = {2}` |
| `NotifyInOrderCorrect` | `NotifyInOrder`, for all settings |

**Presence.** `GoneIsOffline` is inductive together with `TypeOK`.  Only the
last report of a connection can leave its peer without one (`AliveKeeps`), and
that report makes the peer offline or is lost (`CallEffect`).

| Theorem | States |
|---|---|
| `TypeCorrect`, `GoneIsOfflineCorrect` | `TypeOK`, `GoneIsOffline` |

**Operator.** Each of the four parts has an invariant that its own steps keep,
and no step touches the variables of another part.

* Overview, `OverviewInv`: no number is ahead of the server's, and an answer
  that has not been overtaken is not behind the page.
* Rooms panel, `PanelInv == ListInv /\ DialogInv`: rows for the array on the page
  were read after `refresh()` made it; a dialog makes its request once and then
  keeps its task (`RequestInv`), the answer to a view holds peers of its room
  (`ViewInv`), a sleeping goroutine has the targets its request decodes to
  (`PushInv`), and an allowed answer is that of a handler that has started its
  goroutine (`ToldInv`).  That a decoded request names no more than its dialog
  is a lemma of its own (`DecodeNamed`).
* Telnet, `TelnetInv`: the bytes of a Read stay in the shared buffer until a
  later Read replaces them (`BufferInv`), and what has been copied came from its
  own Read or a later one (`CopyInv`).
* Process, `LifecycleInv`: a process nobody has disturbed holds the file, which
  begins with its pid once it has written it; the file is exactly its pid if it
  was no longer than that before.

| Theorem | States |
|---|---|
| `TypeCorrect` | `TypeOK` |
| `BackOnlyOvertakenCorrect` | the action property `BackOnlyOvertaken` |
| `ListFreshCorrect`, `OwnPeersCorrect`, `PushWithinNamedCorrect`, `AlertTellsCorrect` | the properties of the rooms panel |
| `TelnetBodyCorrect`, `PidFileNamesCorrect` | `TelnetBody`, `PidFileNames` |

**Only model-checked.** The liveness properties `PushesFinish`,
`InactiveLeaves`, `FeedServed`, `QueueDrains`, `AckTaken`, `NotifyQueued`,
`LocksTaken`, `RegisteredIsOnline`, `OverviewCatchesUp` and `TelnetPushed`: they
rest on fairness, and reasoning about fairness needs ENABLED, which is out of
the prover's reach.

## 5. Not modelled, and the plan

Not modelled:

* `zknode.go`, the hot reload of `config.go` and `readPump` in `hub.go`: never
  called.  `static/scripts/ws.js` is commented out in `static/index.html`, and
  `static/scripts/utils.js` is loaded by no page.
* `apiPeersIsOnline`, which only reads the maps, `apiSyncBroadcastPeers`, whose
  body is empty, and `apiHeartbeat`, which answers constants and the uptime.
* The address filter computes a pure function of two lists fixed at the start;
  its verdict is a choice (`Reject`, `allowed`).
* `test/reload_skytime`, a test script: its `stop` waits for the pid file to
  disappear, which a signal never makes it do, and its `reload` sends a HUP,
  which ends the process.
* Presence across a restart of the process: nothing in the code repairs what
  the application server remembers.
* The PHP SDK (stateless requests), the load-test client's own counters, sizes
  and times in the statistics, frame layout and payload, logging, the consistent
  hash and all vendored code, the scripts of `static` among it (AngularJS,
  Highcharts, underscore, md5).

Left to do, as proofs: safety steps that the liveness properties rest on (a
push that has the token can always take its next step; a variant that every
fair step lowers), and the limit of connections: how far `total_peer_cnt` can
be from the number of connections, given that its updates are not atomic.
