# SSH3 in TLA+

This directory is a verification development for the SSH3 implementations of
this repository: SSH-like sessions and forwardings over HTTP/3 and QUIC, once in
Go (`src/*.go`, `src/cmd`, `src/client`, `src/util`, ...) and once in Rust
(`src/crates/ssh3-*`).  It holds TLA+ modules translated from that code, TLC
configurations that check them on small instances, and TLAPS proofs of the
properties that matter most for every value of the constants.  `PROJECT.json`
gives, for every definition that models code, the lines it stands for, and for
every property a mutant of the model that it catches.

Check a run with `tlc -config X.cfg M`, a proof with `tlapm M_proof.tla`.

## 1. The system

A client opens a QUIC connection, speaks HTTP/3 on it and sends an extended
CONNECT request per *conversation*.  Once the server has authenticated the
request and answered it, either side opens *channels* in the conversation: QUIC
streams that start with a header (frame type, conversation id, channel type,
packet size).  On a channel go SSH messages (data, requests, exit status).  UDP
forwarding also uses QUIC *datagrams*, which carry the channel id and may arrive
before the stream that opens their channel.

| Component | State | Operations | Hard part |
|---|---|---|---|
| Datagram queues (`queue.rs`, `util/util.go`) | bounded queue; in Rust a deque behind a mutex and two `Notify` | add, wait_add, next, wait_next | checking and sleeping are separate steps |
| Conversation and channel registry (`conversation.rs`, `resources_manager.go`, `conversation.go`) | channels by id, dangling queues for unknown ids | add_datagram, add_channel, get_channel | a datagram that overtakes its channel, registered between lookup and parking |
| Channel (`channel.rs`, `channel.go`) | unsent header, stream, packet size, datagram queue | write_data, send_message, send_request, send_datagram, close, next_message | several writers, a header sent lazily, failed or short writes |
| Wire format and messages (`message.rs`, `wire.rs`, `message/`) | none | encode, parse | length prefixes that grow with the data |
| Sessions of the server (`ssh3-server/src/lib.rs`, `cmd/ssh3-server.go`) | larval or running, pty, process, its pipes, exit status | pty-req, shell/exec/subsystem, signal, window-change, data, EOF | client, process, readers of its output and waiter run at once |
| Connections and conversations of the server (`server.go`, `transport.go`; `serve_endpoint`...) | connections, conversations managers, accept queues | Serve, Close, CONNECT, accept channel | shutdown, requests and streams race |
| Forwarding (`forwardTCPInBackground`, `handle_tcp_forwarding`, UDP) | two directions of a socket | copy, half-close | each direction ends on its own |
| Agent forwarding | a Unix socket, one channel per connection to it | accept, copy | lives as long as its session |
| Authorization (`ssh3-auth`, `server_auth/`, `auth/`) | authorized identities | Basic, Bearer (public-key JWT, OIDC) | a decision over several credentials |
| Clients (`ssh3-client`, `client/`) | session tasks, agent, forwarders | connect, OIDC login, run a session | candidates race, tasks share a channel |
| Versions, known hosts, command lines, host users | – | – | – |

Interaction: one task or goroutine per connection reads datagrams and calls the
conversation's `add_datagram`, which may block on a channel's queue; one per
connection accepts streams and hands the channels to the accept queue of their
conversation; one per channel handles messages or forwards; a running command
adds its readers and its waiter, which write on the same channel as the handler.

What makes each part correct:

- queue: bounded, in order, nobody sleeps beside what he waits for;
- registry: a datagram is where the handler of its channel will look for it, in
  order, and is dropped only at a stated bound; one slow channel holds up the
  receiver no longer than its handler takes;
- channel: the header is first and whole, writes do not mix, a message fits the
  packet size the peer advertised, no error path keeps a lock;
- session: the exit status is the command's, comes after all output, and comes;
- server: Close leaves nothing served, a channel of an answered conversation is
  admitted and taken by its acceptor, what ends is removed;
- forwarding: bytes in order, one direction's end does not cut the other;
- agent forwarding: every process is answered in its turn, nothing of it outlives
  the connection;
- authorization: only listed identities of the requested user get in, with a
  token made for this connection, and they do get in;
- client: an address that is silent does not hold up one that works, nothing it
  awaits needs what it has still to do, the terminal is restored.

## 2. Modules

| Module | Models | State ↔ code, actions ↔ code |
|---|---|---|
| `BoundedFifo` | `util.DatagramsQueue` (a buffered Go channel); abstract queue | `Add`, `WaitAdd*`, `NextDatagram`, `WaitNext*` are the methods |
| `DatagramQueue` | `DatagramQueue` of `queue.rs` | `queue` the deque, `notEmpty`/`notFull` the stored permits of the two `Notify`, `ppc`/`cpc` the place in the async functions. Trying, registering as waiter, being woken and notifying are separate actions |
| `DatagramDelivery` | – (promise) | one mailbox per channel: in order, no duplicates, dropped only when full or when too many unknown channels have mail |
| `GoRouting` | receiver of a connection, `AddDatagram`, `channelsManager`, `ReceiveDatagram` | one action per critical section of `channelsManager.lock` and per operation of a Go channel |
| `RustRouting` | `route_datagrams`, `add_datagram`, `ChannelsManager`, `set_datagram_queue` | as above; `own`, `dangling`, `pending`, `adopted` are the queues a datagram may be in, `target` the `Arc` the router has cloned |
| `WriteData` | packetisation of `write_data` / `WriteData` and the message lengths it relies on | `impl` selects whose arithmetic; one step writes one message |
| `GoChannelSend` | writes on a Go channel under `sendMutex`, `Close` | header in units, so that a short write can split it |
| `RustChannelSend` | writes on a Rust channel: header mutex, then stream lock, twice | `Eager` are the tasks that exist before the first request is sent |
| `RustSession` | `handle_session_channel`, spawned process, `pump_process_output`, waiter task | output and input are counted in units through pipe, pump and channel; a write to the channel or to the process is a step of its own, which may never come |
| `GoSession` | session goroutine and `execCmdInBackground` | the Go channels between readers, waiter and select loop are slots; `WriteData` is a step of its own, which may never come; a failed handler ends the session |
| `Wire` | varints and strings | operators on sequences of octets, the length limit and `validatePacketSize` |
| `Messages` | every channel message and request, the header, the forwarding target | tables of fields in the order in which each implementation writes and reads them; `Encode` |
| `ChannelReceive` (`MCChannelReceive`) | `read_incoming_channel`, `acceptSSHChannel`, confirmation, `parse_message`/`ParseMessage`, `next_message`/`NextMessage`, `wait_for_confirmation` | `wire` the stream, `todo` the fields the parser has still to read, `msg` those it has; one step reads one field. `from` and `to` say whose writer and whose reader |
| `GoServer` (`MCGoServer`) | `Serve`, `Close`, `serveConnection`, CONNECT, `conversationsManager`, `acceptSSHChannel`, `AcceptQueue`, `AcceptChannel` | a step ends where another goroutine can observe or block it: at the server's lock, a manager's lock, the accept queue |
| `RustAuth` | the decisions of `ssh3-auth`, of `agent.rs` and of the server's password, user and listener checks | operators on symbolic keys, tokens and identity lines; `SignJwt` and `VerifyJwtSignature` are inverse for the same key and algorithm and for nothing else |
| `RustConnect` (`MCConnect`) | the client from its command line to the first session channel, against `serve_connection` up to the verdict | `pc` is the place in `connect_client`, `driver` the HTTP/3 driver task with its two oneshots, `attempts` the handshakes that race, `server`/`next` the place in `handle_conversation` and the identity it is at, `now` the clock of both.  A step ends at every await that another party can delay |
| `RustServer` (`MCServer`) | one connection after the response: both routers, `AcceptQueue`, accept loop, tasks of channels, TCP and UDP pumps, teardown | `kind` says what the streams of the client are, good or not; `permit` is the `Notify` of the accept queue; `tcp` the state of a TCP forwarding, `inbox` the datagrams of a channel of any kind: parked, in its queue, and whether a UDP reader takes them.  `add_channel` is two steps, so that its queue may be replaced under the router; the gap between lookup and parking is left to `RustRouting` |
| `RustAgent` (`MCAgent`) | `run_stdio_on_client`, `run_capture_on_client`, `shutdown`, both ends of agent forwarding | `conn[p]` one connection to the agent socket: socket, server task, what the client said on the channel, where the request is; `fwd`, `cur` the forwarder; `datagrams` and `stdin` what the client's end has still to wait for; `handler` the server's session, which may wait in `write_input` |
| `MCRouting`, `MCChannelSend`, `MCSession` | – | the Go and the Rust module of a subject side by side: `impl`, chosen at the start, says which one runs, and a property means the one of that module |
| `*_proof` | – | theorems about the module of that name; those of `MCRouting`, `MCChannelSend` and `MCSession` speak of both implementations |

What happens outside the code is an environment that may do anything a peer, a
network or a process can: send any message in any state, stop reading, vanish;
a process writes, reads or not, exits or is killed, leaves its pipes to
descendants.  QUIC is taken for what it promises: streams are reliable and
ordered until they fail, datagrams are neither.  tokio's `Notify` and `Mutex`
and Go's mutexes and channels are modelled from how this code uses them.

## 3. Runs

"Bound" names what is finite in the instance and not in the code.

- `datagram_queue` (capacity 2, 5 datagrams).  Two slots and five datagrams give
  full, empty and wrap-around, with permits left over from earlier rounds.
  `NoLostWakeup`, `NeverBothParked`, and refinement of `BoundedFifo!Spec`
  including its liveness (`ImplementsFifo`).
- `routing` (both implementations; 2 channels, own queue 1, dangling queue 2, 1
  dangling channel, 3 datagrams per channel).  Sizes are different so that
  replacing a queue by another shows; two channels make the limit on dangling
  channels bite.  `OneHome` for both; for Go `RouterProgress` and refinement of
  `DatagramDelivery!Spec` (`ImplementsDelivery`); for Rust `RustInOrder` and
  `RouterStuckOnlyOnReplacedQueue`: the router always returns to its loop unless
  a handler has gone **or** it had cloned a queue that `add_channel` replaced
  before the router's `wait_add`; nobody reads that queue again.
- `rust_routing_dangling` (violation, finding 1).
- `write_data` (packet sizes and buffers on both sides of every limit: the
  overhead, 64, the varint steps 63/64 and 16383/16384, `maxSSHStringLength`).
  `GoPacketBounded`, `OverrunBounded`, `Finishes`.
- `channel_send` (Go: 2 writers, 2 writes of up to 2 messages, header of 2 units;
  Rust: 3 tasks of `run_stdio_on_client`, 1 write of up to 2 messages each).  Two
  writers suffice for one mutex, and the theorems below are for any number; three
  tasks in Rust, because two spawned ones must race after the first write.
  `HeaderFirst`, `Serialized`, `WritesReturn`.
- `rust_channel_send_eager` (violation, finding 2).
- `session` (Go: code 3, 2 client messages; Rust: codes 0 and 3, 3 client
  messages; pipes and input of 1; 2 units of output on stdout, 1 on stderr).  Two
  messages are a command and one more; the third of Rust is a pty before them.  A
  pipe of 1 and two units make a write find it full; the code treats both streams
  alike, so one of them suffices for that.  `OutputBeforeStatus`, `StatusIsTrue` (3
  is not the 0 that Go's variable starts with), `ClosedAfterStatus`, `StatusIsSent`,
  `WaitEnds`.  The last two except a client that keeps the channel and never takes
  what is written on it (`[]Blocked`), and the Go server that panics on a status no
  varint holds.
- `channel_receive` (one or two messages of 18, behind a header of 4 where the
  peer opened the channel; strings of at most 3 octets).  All four pairs of
  implementations.  The numbers lie on both sides of 63/64 and 16383/16384; one
  string is too long, one message type and one request type are unknown, packet
  sizes are legal and not; each message is also cut behind every octet, and each
  stream may be reset.  `DeliveredAsSent`, `EndIsTrue`, `PanicOnUnknownTypeOnly`,
  `ReaderEnds`.  Two messages suffice because the reader keeps nothing from one to
  the next but its position and the confirmation.  TLC's numbers have 32 bits:
  `FrameType` is a number of 8 octets that fits.
- `go_server` (2 connections, 2 conversations on the first, 2 streams to the
  first conversation, one of them a session; 4 arrivals in all).  Two requests
  on one connection race for the manager; two streams race for one accept queue;
  the second connection arrives while the server closes.
  `ClosedServerServesNobody`, `AdmittedAfterReply`, `NoLostChannel`,
  `ServerStops`, `ConversationsAreRemoved`.

- `connect` (2 addresses, tokens that live for 2 ticks of a clock that stops at 3,
  121 worlds).  A world is a client, a server's configuration, issuers, addresses
  and a certificate; `MCWorlds` has every way to log in against files in which the
  entitled identity stands behind broken lines, unknown keys and issuers that are
  silent or down, before or after they have described themselves, tokens of other
  connections, users, keys and client ids, for unverified addresses, and one altered
  after it was signed, all answers of an agent, configurations that the server must
  refuse, and every mixture of silent, refusing, unusable and serving addresses.  Two addresses are a winner and a loser; a clock
  of 3 lets a token of 2 be made late, checked in time and expire while the issuer
  is asked.  `AdmittedIsEntitled`, `EntitledIsAdmitted`, `VerdictAgrees`,
  `UnreachableCannotStall`, `NoStreamRejected`, `ConnectEnds`.
- `server` (up to 2 streams, datagram queue of 1, 3 datagrams to one stream and 2 to
  another, 2 messages to a TCP forwarding).  The streams are a session beside a
  stalled, a foreign or an unsupported one, UDP forwarding beside a stream that
  breaks off, and TCP forwarding with messages or with datagrams.  Two streams are a
  channel and what disturbs it.  Two messages let the remote end take one and not the
  other; three datagrams are one parked before the channel, one that fills its queue
  and one with which the router waits.  `StreamsAreServed`, `ConversationEnds`,
  `FinMeansAll`.
- `agent` (2 connections of processes, 5 configurations of the client).  Two
  connections, because the forwarder takes one at a time.  The client is a shell on a
  terminal with forwarding, the same without a local agent socket, the same without
  forwarding, and a captured command with and without forwarding.  The two
  connections are with the captured command; half-closed connections, an agent that
  closes and the datagrams of the server are with the shells.  `AgentAnswers`,
  `ClientEnds`, `AgentForwardingEnds`.

The type invariants (`TypeOK`) of the proved modules are theorems, for all
constants, and so not among the invariants of the runs.

The runs say `CHECK_DEADLOCK FALSE` because all these systems may rest: the
bounded environment has nothing more to send, or everything has ended.

### Fairness

Only tasks of the program are fair, never the peer, the network, the process, or
an operator who calls Close.

- `DatagramQueue`, `RustRouting`, `RustSession`: weak fairness of the tasks;
  tokio polls a task that has been woken.
- `GoRouting`, `GoSession`, `GoServer`: weak fairness of each goroutine; the Go
  scheduler runs what is runnable.  `GoSession` and `RustSession` do not assume that
  a write on an open channel returns: a client may withhold flow control for ever
  (`Blocked`, `PumpBlocked`, `WaiterBlocked`).  `GoServer` does not assume that a header
  arrives, that a session returns or that authentication ends.
- `GoChannelSend`: weak fairness of the writer that holds the mutex.
- `RustChannelSend`: strong fairness of each task, because tokio's `Mutex` is
  FIFO: a task that is again and again able to get the lock gets it.
- `WriteData`: weak fairness of the loop.
- `RustConnect`: weak fairness of the client's task, the driver and the server's
  task; an address with a server answers and one that refuses says so; a
  connection on which nobody sends times out (quinn's idle timeout; the code
  configures no keep-alive).  Nothing is assumed of addresses that are silent, of
  the browser or of issuers that are silent: `reqwest` is used without timeouts.
- `RustServer`: weak fairness of the handler and both routers; of the tasks of
  channels only when the connection has closed, and never of a write to the remote
  end of a TCP forwarding or to the input of a session's process.  After the
  connection a session comes back to `next_message` unless such a write keeps it,
  and meets the error there (strong fairness, because the messages that arrived
  before are finitely many).
- `RustAgent`: weak fairness of the client, the forwarder and the server's tasks; an
  agent that is up answers.  Strong fairness of reading the exit status and of the
  session handler's return after the connection: finitely much output and input is
  before them.  Processes may keep their connections and leave their input unread
  for ever; nobody need take the client's output or give it input.
- `ChannelReceive`: weak fairness of the reader; the application accepts a queued
  channel.

### Findings

1. `rust_routing_dangling`: `add_dangling_datagrams_queue` of `conversation.rs`
   makes a new queue for each datagram of an unknown channel and inserts it over
   the previous one; of several early datagrams only the last survives.  The Go
   code adds to the queue that is there.
2. `rust_channel_send_eager`: `maybe_send_header` takes the header before it has
   the stream; a signal forwarder of `run_capture_on_client` can write in
   between, and its message is the first on the stream.

Observations that the models show and that no run singles out:

- `write_data` of `channel.rs` computes the overhead from an empty message, so
  that a full message exceeds the packet size by up to the growth of its length
  prefix (3 bytes at the default 30000); `OverrunBounded` shows, and
  `OverrunIsBounded` proves, that it is never more than a prefix.
- The Rust router may wait for ever on a replaced queue (the exception in
  `RouterStuckOnlyOnReplacedQueue`).
- A Go command killed by a signal has exit code -1, which no varint can hold, so
  that no status is sent (`StatusIsSent` of `GoSession` speaks of commands that
  exit with a code).
- `parseForwardingHeader` takes a short `Read` for a full one (`ShortRead`), and
  refuses a complete target when the end of the stream comes with its last
  octets (`ReadAtEnd`), because quic-go returns both in one call.
- The comment on `nextMessage` (`channel.go:269`) says "The error is EOF only if
  no bytes were read"; a message cut inside a varint or a bool gives `io.EOF` too
  (`EndOfStream`), and the Rust reader never tells the two apart.  What holds is
  `EndIsTrue`: no whole message is lost.
- A Go channel whose confirmation could not be sent is handed out all the same.
- The Rust server's stream router ends at the first stream that is not a channel of
  a registered conversation, and a stream that never completes its header holds it
  up (`RouterSpoiled`); the conversation goes on without new channels.  A stream
  that is reset before it is confirmed ends the whole conversation (`Confirm`).
- Both Rust datagram routers wait for room in the queue of whatever channel a
  datagram names (`conversation.rs:253`).  Nobody reads that of a session or a TCP
  forwarding, and one error of the socket ends the reader of a UDP one.  On the
  server the router then waits for ever, and `handle_conversation` with it even
  after the connection has closed (`DatagramsStuck`); on the client, none of whose
  channels reads datagrams, `shutdown` does (`DatagramsFill`, `Lingers`).  A
  malformed datagram ends datagram routing.
- Neither `write_input` of a Rust session nor `write_all` of a TCP forwarding looks
  at the connection: a process or a host that takes nothing keeps the task, and for
  a session the agent socket too, after the connection is gone (`WaitsOutside`, the
  exception in `AgentForwardingEnds`).
- A read of stdin runs in a thread that the end of the runtime waits for: the client
  has restored the terminal and closed the connection, and its process stays until
  input comes (`Exit`).  Output that nobody takes keeps it as well.
- One address for which `endpoint.connect` fails, before any handshake, fails the
  whole call although another address would serve (`ConnectTarget`).
- The Rust server's TCP forwarding does not pass the remote end's end of file on to
  the client, nor that connecting failed; a lost connection looks to the remote end
  like a regular end (the exception in `FinMeansAll`), and so does an octet sequence
  that is no message.
- A refusal is followed at once by the end of the connection: the client may see a
  lost connection instead of the status 401 (`ServerDrops`).  The expiry of an OIDC
  token is checked before the issuer is asked; only the first key that fits is
  tried; one agent key that cannot be parsed makes the agent unusable.
- The agent socket of a Rust session goes away with the end of the client's input,
  while the command still runs (`HandlerReturns`); `run_capture_on_client` keeps
  its side open for that reason.  One missing local agent ends the forwarder for
  the rest of the session and leaves that channel open; later processes wait until
  the session ends (the exception in `AgentAnswers`).  The interactive client finds
  out that it has no agent socket only after the command was started.

## 4. Proofs

All are for arbitrary constants that satisfy the named `ASSUME`s: sizes are
natural numbers (capacities positive where the constructors need it), and the
"nobody" values are not members of the sets they mark the absence in.

- `DatagramQueue_proof`.  `TypeOK` bounds the queue by its capacity.
  `NoLostWakeup` is inductive relative to `TypeOK`: it says of each side, for the
  places where it is about to sleep or sleeps, that the queue does not have what
  it waits for, or a permit is stored, or the other side is about to notify.
  `NeverBothParked` follows because a queue cannot be empty and full.
  `ImplementsFifoSteps`: every step is a step of the abstract queue or a stutter,
  with the call in progress read off `ppc` and `cpc`.
- `MCRouting_proof`.  For Go, `OneHome` is inductive relative to `TypeOK`; its third
  part (a found channel stays registered) carries it over the gap between lookup and
  placing.  It is what makes the mailbox mapping of `ImplementsDeliverySteps`
  well defined: registering a channel moves its mail from the dangling queue to
  its own without a visible step.  For Rust, `RustDatagramsInOrder` needs
  `RustOrderInv`: what a handler has got and will get, and what is parked for a
  channel, is each in order and older than the datagram the router holds
  (`StreamInv`); before `add_channel` has returned nothing is received or adopted
  (`NotReady`); and a router that puts into an adopted queue has the current one.
  The replaced queue (finding 1) loses datagrams and breaks no order.
- `Stream_proof`: what is on a stream.  Of `WriteData`, `GoPacketsBounded` and
  `OverrunIsBounded` for every packet size and buffer, from the values of the varint
  length and the payload each implementation allows; `DataMessageLenIsTrue` ties
  these lengths to the octets of `Wire`.  `VarIntRoundTrip` and `StringRoundTrip` say
  that a reader anywhere in a stream gets back what was written there, for every
  number up to 2^62 - 1 and every string; `WritersAgree`, that the two writers put the
  same octets there.  A varint has at most eight octets and a message at most ten
  fields, so the recursive functions of `Wire` and `Messages` are unfolded and no
  induction is needed.
  Of `ChannelReceive`, `DeliveredAsSentHolds`, `EndIsTrueHolds` and
  `PanicOnUnknownTypeOnlyHolds`, for any messages in any number, each pair of
  implementations and every place where the stream may end.  None of the three is
  inductive: what was delivered says nothing of where the reader stands.  `IInv`
  therefore says that the stream can be cut into the octets of the messages written
  and of at most one that the writer did not complete (`Stream`), that the reader has
  taken a whole number of fields of one of them and knows which fields come next
  (`AtReader`: position, fields read and fields to come are those of the layout at
  that stage), and that the application has what was for it of the messages before
  (`GotIs`).  The messages and the places where they start are bound by an
  existential quantifier, so that a step of the writer adds one place and a step of
  the reader moves along them; `Deliverable` is spoken of as a solution of its
  equation, which one more message extends (`Chain`).  This takes the place of an
  induction over the stream.  A target that `parseForwardingHeader` read in part
  (`misread`) ends all that is said.
  `ReceiveAssumption` is what the proof needs of the messages: they are records of
  the fields of their layout, numbers have a varint, a family of 4 has four octets of
  address and any other sixteen, a port has two octets, there is a target exactly
  behind a forwarding's channel type, and request fields exactly in requests.  The
  types of both implementations have no other values, and a number without a varint
  is not written: both encoders panic on it.
- `MCChannelSend_proof`.  `HeaderFirst` is not inductive; for Go, `HeaderInv` adds
  that what is on the stream and what is left of the header make up the header, and
  that a writer in its body has found it empty.  `Serialized` needs `SerialInv`:
  a unit is marked with a write that has begun, and the holder of the mutex is
  the last writer on the stream if its write has put anything there.  For Rust,
  `HeaderTakenInv` says that one task at most has the header, `RustSerialInv` is
  `SerialInv` for a lock that is taken twice in a write (`BothSerialize`, for any
  `Eager`); `SpawnInv` and `RustHeaderInv` say that nobody but `Main` writes
  before the header is on the stream or the stream has failed.  `BothHeaderFirst` therefore assumes
  `Eager = {Main}`, the situation of `run_stdio_on_client`; without it finding 2 is
  the counterexample.
- `GoServer_proof`.  `ClosedServerServesNobody` needs `CloseInv`: a
  registered connection is one that Serve has started, nothing is registered
  before the listener is shared with Close, and from the moment Close has set
  `closed` the registered connections that are open are in its snapshot.  `AdmittedAfterReply` needs `AdmitInv`: a manager that a
  request holds is the connection's manager as long as the connection is
  registered, its lock is held from the response to the entry in the map, and a
  stream opened afterwards has got the same manager.  `NoLostChannel` is
  inductive relative to `TypeOK`.
- `RustConnect_proof`.  `AdmittedIsEntitled` needs `AdmitInv`: before the client has
  sent its request the server decides nothing (`RequestInv`), so that neither the
  race of addresses nor the request can change under the decision; and while an
  issuer is asked, the claims of the token, audience and verified address among them,
  held at the identity in hand at the time recorded (`TokenInv`).  Each verdict is then the conclusion of one lemma about
  `VerifyBearerToken`, `VerifyOidcSignature` or `VerifyPassword`.  `VerdictAgrees`
  needs that a response exists only after a verdict that does not change
  (`ReplyInv`), and that the name the client gave is in the header and in the
  credentials (`UserInv`).  `NoStreamRejected` needs the chain driver paused,
  client active, session opened, stream opened (`DriverInv`).
  `NobodySkipped` is the other half of `AdmittedIsEntitled`: who is refused is refused
  for a reason (`RefusedForAReason`).  It needs `RefusedInv`: every identity before
  the one in hand was turned down, at a time up to now.  That the loop came to the end
  is stated as there being no further identity in the list; the list is loaded by a
  recursive function, whose type would take an induction.
- `RustServer_proof`.  `FinMeansAll` needs `TcpInv`: what was delivered is a prefix
  of what was sent, a write in progress is of a message not delivered yet, and what
  excuses an early end (stream reset, connection closed) does not go away.
  `ChannelsServedOnce` needs `PlaceInv`: each stream is in at most one of the stream
  list, the router, the accept queue, the confirmation and the tasks, and in the
  lists once; it assumes that streams are none of the markers that the same
  variables hold (`RustServerAssumption`).  `NotServedBeforeAdmission` needs
  `AdmissionInv` (no router, nothing touched), `ConversationGone` and
  `TasksOnlyWhileServed` need `EndInv`, which says for each place of
  `handle_conversation` what is left of the conversation.  `NoChannelForgotten`, the
  accept queue's `Notify`, is inductive as it stands: it counts the permit that the
  router is about to give.  Of the datagrams, `InboxInv` bounds the queues of
  channels of every kind and says that only a UDP channel has a reader; a reader that
  has gone does not come back.  With `PlaceInv`, by which a channel with a task is
  not adopted again, `RouterNeverFreed` proves what section 3 observes of the
  datagram router: when it waits on a full queue that nobody reads, or on one that
  was replaced, no step of anybody changes that.
- `MCSession_proof`.  Both servers are cases of one `ServerInv`.  In Rust, output is
  conserved between pipe, pump and channel unless the pump failed, and the place of
  the waiter says which pumps have ended (one for a pty, two for pipes).  In Go,
  output is conserved between the command, the pipes, the readers, the slots of the
  select loop and the one write it may be in (`GoWritingInv`) while that loop runs and
  when the status is sent; the waiter goes
  on to the command only when both readers have closed, and a status means that all
  Go channels were seen closed: `StatusComesLast`.
  `StatusTold` needs that the fate of a reaped process is settled and `None # 0`;
  `ClosedOnlyAfterStatus` that the loop leaves after the client's EOF only with the
  status sent or a failure recorded.  `StatusIsFinal` is an action property from the
  same invariant: what was conserved has all arrived, so no step can add to it.

Only model-checked: liveness (`ImplementsFifo` and `ImplementsDelivery` with
their fairness, `RouterProgress`, `Finishes`, `WritesReturn`, `StatusIsSent`,
`WaitEnds`, `ReaderEnds`, `ServerStops`, `ConversationsAreRemoved`, and the temporal properties
of `connect`, `server` and `agent`), which the prover does not handle (fairness,
`ENABLED`).  All invariants of the runs are theorems.  `ImplementsDeliverySteps` and
`ImplementsFifoSteps` are the safety part of the two refinements.  No proved module
uses a `RECURSIVE` operator.

## 5. Not modelled

- Vendored HTTP/3 and QUIC, TLS, cryptography: third-party; assumed as above.  A
  signature is good for the key that made it and for no other.
- Go authorization and the Go client: `GoServer` chooses what `HandleAuths` decides,
  and any client is its environment.  The Go ends of agent and TCP forwarding.
- Data on its way from a forwarded socket to the client (the Rust client has no
  forwardings of its own but the agent's).
- Known hosts, version negotiation, configuration files and the command lines of the
  Go programs and the Rust server: read once, shared by no steps.
- User lookup, privileges, ptys and process creation: system calls; what they can
  return to the code is in the models.
- Contents of messages and addresses, as long as no property is about them.
- In `GoRouting`, the branches of `WaitAdd` and `WaitNext` that end with their
  context (`util/util.go:153`, `171`): the end of a connection is the end of what the
  run asks.  In `GoServer`, the dial of forwarded channels in the accept loop
  (`cmd/ssh3-server.go:613`), which is a wait of the session handler like any other
  there.
- A user name with a colon, which the Basic text cannot carry (the server splits at
  the first one, `ssh3-server/src/lib.rs:205`).  An error of the Go `Wait` that is no
  `ExitError`: the pipes are not copied by `Wait`, so none comes from there.  The line
  that the Rust server writes to stderr when it refuses a request: it is not output
  of the process, may follow the exit status, and is not counted.
- A token without key id for which several keys of the issuer fit.
- Process ids (a signal may be sent to a reaped process), memory limits, logging.
- Test programs and interop helpers.

## 6. Plan

1. Proofs: safety of `RustAgent` (where a request of the agent protocol can be, and
   that the terminal is raw only in a session); `TypeOK` of `RustConnect`.
2. `GoAuth`: `HandleAuths` against the same promise as `RustConnect`; the Go client.
3. Forwarding in the Go client and server.
