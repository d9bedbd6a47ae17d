# Verification of sapvi

TLA+ specifications of the sapvi node (Rust, `src/src/`), TLC configurations
that check them on small instances, and TLAPS proofs of the properties that
matter most. Line numbers below are those of the repository.

## 1. The system and its parts

| part | state | operations | talks to |
|---|---|---|---|
| `system/subscriber.rs` | map id -> sender of an unbounded queue | subscribe, unsubscribe, notify, receive | used for stop events and new channels |
| `system/stoppable_task.rs` | an unbounded stop queue | start (select of main and stop, then a handler), stop | channel receive loop, acceptor, connect slots |
| `net/message_subscriber.rs` | a dispatcher per command, each a map id -> queue | add_dispatch, subscribe, notify, trigger_error, garbage collection | fed by the channel, read by protocols |
| `net/channel.rs` | stopped flag, stop subscriber, receive task, writer lock | start, stop, send, subscribe_stop, subscribe_msg, receive loop | all protocols and sessions |
| `net/p2p.rs` | pending addresses, connected channels, hosts | start, run, store, remove, exists, add/remove_pending, broadcast | all sessions |
| `net/sessions/outbound_session.rs` | a task per connect slot | load_address, connect, register, wait for stop | P2p, Connector, Hosts, Channel |
| `net/sessions/session.rs` | - | register_channel, handshake, remove_sub_on_stop | P2p, ProtocolVersion, Channel |
| `net/sessions/inbound_session.rs`, `net/acceptor.rs` | accept task, channel subscriber | accept loop, setup_channel | P2p, Session |
| `net/sessions/seed_session.rs` | a task per seed | query all seeds under one timeout | Connector, ProtocolSeed, Hosts |
| `net/protocols/protocol_version.rs` | version and verack subscriptions | two tasks exchange versions under a timeout | Channel |
| `net/protocols/protocol_ping.rs` | pong subscription, nonce | keep-alive loop, reply loop | Channel, JobsManager |
| `net/protocols/protocol_address.rs`, `protocol_seed.rs` | addrs and get-addrs subscriptions | ask for, give, learn addresses | Channel, Hosts |
| `net/protocols/protocol_jobs_manager.rs` | list of tasks | start, spawn, cancel all on stop | Channel |
| `net/hosts.rs` | list of addresses | store, load_single, load_all | sessions, protocols |
| `net/messages.rs`, `serial.rs`, `async_serial.rs`, `endian.rs` | - | packet framing and the binary encoding | Channel, transactions |
| `rpc/jsonserver.rs`, `bin/dfi.rs` | stop queue | HTTP server, node start and shutdown | P2p |
| `service/*` | ZeroMQ sockets, a send queue per worker | proxy loop, request tasks, replies, their encoding | gateway clients |
| `crypto/merkle.rs`, `crypto/coin.rs` | frontier, witness, path | append, root, witness, path | spend proofs |
| `tx.rs`, `crypto/*_proof.rs`, `note.rs`, `schnorr.rs` | - | build, sign and verify a transaction | circuits |
| `lib.rs`, `vm.rs`, `vm_serial.rs` | parameters, aux values, constraints | run a zk contract: load, set params, prove, verify | bellman |
| `lisp/` | environments, atoms, tables of the circuit | evaluate forms, expand macros, alloc, enforce, prove | bellman |

The hard behaviours are those of the network code: many tasks on a
multi-threaded executor share tables behind async locks, learn of a closed
channel through subscriptions they may take too late, and are cancelled or
time out in the middle of what they do.  A cancelled writer leaves half a
packet in the stream.  Off the network they are those of long computations
over shared or indexed state: a frontier of a tree and witnesses that have to
grow with it, fields that two sides write and read in the same order, names
that become numbers and places, environments that closures share.

What makes each part correct:

- connect slots: one attempt per address, an entry in the table exactly as long
  as its channel lives, a slot that dials again when its channel stops;
- channel: what was sent is handed out once and in order, whoever waits when it
  stops is told, and tasks that share the writer do not mix their packets;
- handshake, addresses, heartbeat, jobs: what one end may conclude about the
  other, that exchanges complete, and that no task outlives its channel;
- start: the node starts exactly if seeding succeeds, and every accepted
  channel is set up once;
- gateway: each client gets the replies to its own requests, and gets them;
- payments: a transaction verifies exactly if it balances, only the owner opens
  an output, and tree, witness and path agree;
- contracts and lisp: the proof says what the source says.

## 2. Modules and plan

Each system module declares its parameters and their assumptions, its
variables, one action per operation, and its properties.  `MC*` modules give
the parameters values, the `.cfg` files say what is checked, `*Proofs` modules
hold theorems.

| module | code | proved in |
|---|---|---|
| `OutboundSession`, abstract `AddressLock` | `outbound_session.rs`, `session.rs`, `connector.rs`, tables of `p2p.rs` | `ConnectionProofs` |
| `Channel` | `channel.rs`, `message_subscriber.rs`, `subscriber.rs`, `stoppable_task.rs` | `ChannelProofs` |
| `Connection` | `protocol_version.rs`, `protocol_address.rs`, `protocol_seed.rs` | `ConnectionProofs` |
| `KeepAlive` | `protocol_ping.rs` | `ChannelProofs` |
| `JobsManager` | `protocol_jobs_manager.rs` | `ChannelProofs` |
| `SeedSession` | `seed_session.rs`, `hosts.rs` | through `Startup` |
| `Node` | `acceptor.rs`, `inbound_session.rs`, `dfi.rs`, `p2p.rs`, `jsonserver.rs` | `StartupProofs` |
| `Startup` (extends `Node`, instantiates `SeedSession`) | `dfi.rs start()`, `P2p::start` | `StartupProofs` |
| `Codec` | `serial.rs`, `async_serial.rs`, `endian.rs` | `CodecProofs` |
| `Packets` (extends `Codec`) | `messages.rs`, sending and receiving of `channel.rs` | `PacketsProofs`, on `CodecProofs` |
| `Gateway` (extends `Codec`) | `service/gateway.rs`, `service/reqrep.rs`, `demowallet.rs` | `GatewayProofs`, on `CodecProofs` |
| `Notes` | `note.rs`, `schnorr.rs`, `mint_proof.rs`, `spend_proof.rs`, `circuit/*` | through `Transaction` |
| `MerkleTree` (extends `Notes`) | `merkle.rs`, `coin.rs` | through `Transaction` |
| `Transaction` (extends `MerkleTree`) | `tx.rs`, `bin/tx.rs` | `TransactionProofs`, on `CodecProofs` |
| `ContractCompiler`, `ZKContract` (extends it) | `compile.py`, `compile_export_supervisor.py`, `vm_serial.rs`, `lib.rs`, `vm.rs` | `ContractProofs`, on `CodecProofs` |
| `Lisp` | `lisp/lisp.rs`, `env.rs`, `core.rs`, `types.rs` | - |

How they fit together.  `Channel` is the detail of what the other network
modules see of a channel.  They take from it that a packet is handed to
whoever is subscribed at that moment and to nobody else, that a subscription's
queue is exact, and that a stop reaches the watchers and readers only if they
subscribed before it.  `Connection` is the inside of the handshake step of
`OutboundSession` and `Node` and of the query step of `SeedSession`.
`JobsManager` is what ends the tasks of `KeepAlive` and `Connection` when a
channel stops.  `Packets` is the inside of one send and one receive of
`Channel`: it shows which packets reach `notify` when a task is dropped while
it writes.  `Startup` runs the queries of `SeedSession` inside the start of
`Node` and implements `Node`, which leaves open how the seeding ends.
`Transaction` appends the coins it accepts to the tree and the witnesses of
`MerkleTree` and spends along their paths.

What is left, in this order:

1. A composition of `OutboundSession` with the dispatchers of `Channel`, to
   replace the two assumptions above by a refinement.
2. Proofs for the scopes of `Lisp`, in a form without recursive operators.
3. The reader of the interpreter, and the field encodings of `types.rs` in
   both languages.

## 3. What is modelled, checked and proved

### 3.1 Conventions

A label of `pc` (or a stage) is a point where a task may be suspended: an
await of a lock or of I/O.  Code between two such points is one action, and a
lock that is released before its caller goes on separates two actions.  Tasks
run on several threads, so actions of different tasks interleave freely.  A
spawned task starts at any later time.  A cancelled task is dropped at one of
its awaits and takes no further step; that a thread may still finish the poll
it is in is left out.  Sends on the unbounded queues never wait and are part
of the action that performs them.

A length that is read is followed by the bytes it announces or by too few.  The
code reserves memory for it first (`serial.rs:404,487`, `messages.rs:183,193`)
and ends the program when that is refused; only what follows a cut packet can be
such a length, and no property speaks of the rest of that connection beyond the
count of bad messages.  The siblings of a Merkle path are scalars from the
start: the conversion of `coin.rs:88`, which panics for a leaf of 32 bytes that
is not below the order of the field (`bin/tx.rs:129`), is the identity here.

Hashes, points, keys and proofs are free constructors: two are equal only if
they were made from equal arguments.  Logging and wording are left out.

No action stands for `stop()` of a session or of the acceptor: `P2p::run`
waits for `stop_subscriber`, which nothing in the program notifies, so that
code is never reached.

### 3.2 Runs

**outbound** (`MCOutboundSession`).  Two connect slots, two addresses of which
one is the node's own, two channels.  The state is the pc of each slot, its
address and channel, `pending`, `channels`, and the removers with what they
subscribed to.  Two slots and one free address give every race of
`load_address`; the second channel is for the next connection to the same
address.  `NoLostWakeup`: a slot that waits on a
stopped channel has the event in its queue, because it subscribed before the
channel was registered.  Between the insertion into the table (`Store`) and the spawn of
the remover (`SpawnRemover`) lies the await of the notification.
`FirstStopReachesAll`: the first stop of a channel signals every live
subscription, although a slot whose handshake timed out leaves a dropped one on
which `notify` can panic.  `ListeningRemoverRemoves`: a remover that subscribed
while its channel ran takes it out of the table; one that came too late does
not (3.5).  `ImplementsLock`: the pending table refines `AddressLock`, in which
two attempts never hold one address and a failed attempt abandons it.
`SlotRecovers`: a slot whose channel stops dials again.  Fairness: every local
step of a slot or a remover (the executor runs whatever can go on) and the
timeouts of connecting and of the handshake; the peer owes nothing.

**packets** (`MCPackets`).  Two tasks send a ping and a verack, and a list of
36 addresses (the shortest whose length takes three bytes) and a pong, as bytes
of 8 bits; a task may be dropped before any write and after any byte of one.
The link may break, and what is in flight is then lost behind one of the first
few bytes or not at all: `Kept` lists the bytes, inside and behind the magic,
the command and the lengths; the proofs hold for every set of them.  `InOrder`: without a drop, what is handed out is what
was sent, in the order in which the lock was taken; it holds for every number
of tasks and messages (3.3).  `OneBadPerCut`: a cut
packet makes the reader take bytes of the next one for its own, but costs at
most one message that nobody sent.  `SentArrives`, with fairness of the tasks
and of the receive loop.  `NumbersExact` has no state in it: all numbers of
eight bytes and all short inputs of the codec over the base 4, where every
boundary of a VarInt is met; it holds for every base (3.3).

**channel** (`MCChannel`).  One sending task, one stop watcher, two
subscriptions of one command beside the dispatcher of another, one message,
two calls of `stop`.  The order of `trigger` and `trigger_error` over the
dispatchers, the collection of closed subscriptions, and where each task may be
dropped are those of the code.  `Delivery`: a live subscription has received
and queued exactly the messages since it subscribed, in order.
`PanicHasCause`: `notify` panics only if the channel had been stopped before
or a watcher left.  `ReadersReleased`, `ReceiveTaskEnds`: once the receive
task is told to stop, whoever waits gets an error and the task ends.  One
message is enough to tell losing from repeating; the order of any number of
messages is proved (3.3).  Two stops are enough for one to meet what the other
left behind.

**connection** (`MCConnection`).  Both ends of a link that may break, dialled
by an outbound session or by the seed session, with the timer of each end
firing at any point, and the timer over all seed queries, which drops a query
at any of its awaits and stops nothing.  No parameter is bounded.  `Agreement`: a completed half
of the handshake proves the peer's half.  `HandshakeCompletes`: if nothing
intervenes both ends finish, as each runs its two tasks side by side.
`SomeoneLearns`, `EarlyServerAnswers`: what follows about addresses although a
packet that comes before its subscription is lost; the second leaves out a
query that its timer dropped.  Fairness: tasks and receive loops; the timers
need not fire.

**keepalive** (`MCKeepAlive`).  Two ends, either of which may be other
software that sends one pong of its own at a time, and two nonces that may be
drawn again.  `NoFalseAlarm`: an end is never disconnected for a wrong nonce
when its peer runs this code.  `HeartbeatGoesOn`: a pinger that starts when
the peer's replier is subscribed pings for ever, unless the link breaks.

**jobs** (`MCJobsManager`).  The managers of the two protocols of a channel
with three jobs.  `WatchedJobsEnd`: a job that the list of a watching manager
holds when the channel stops ends.  `SubscribedJobsEnd`: so does one that the
manager does not stop, spawned after the list was taken or with a manager that
missed the event, provided it subscribed to its messages before the errors of
the stop went out.  The exception is a stop whose errors are lost: the stopping
task is cancelled, and the receive task's own stop panics.  What is proved of the managers is in
3.3.

**startup** (`MCStartup`).  Two seeds that answer with lists that are empty,
overlap or are disjoint, failures at any point and the timer; then three
connections to the node, and a stop request over RPC.  `StartsIfAnswered`: the
start fails for want of addresses only if no query that ended well brought
one, and goes on only if one did.  `DuplicatesNeedARace`: a repeated address
means that two stores overlapped.  `EachOnceInOrder`, `PublishedIsSetUp`,
`ErrorReachesSession`: what happens to a channel between the acceptor, the
queue of the session and its setup task.  `ImplementsNode`: with the timer of
the seed session, `Startup` satisfies the whole specification of `Node`,
fairness included.  Two seeds give one that answers and one that races it,
fails or hangs.

**gateway** (`MCGateway`).  Two wallets that wait for each reply, one of which
sends a message of two frames, and a client that does not wait and one of
whose frames does not decode; two workers with room for one message each, so
that the proxy blocks with replies waiting behind it.  `OwnReplies`: a client
receives answers to what it sent, at most once each, and in order if it waits.
`Resolved`: every message is answered but the one that panics a worker and
those dealt to that worker afterwards.  One worker that is lost and one that
goes on are the two cases there are.

**payment** (`MCTransaction`).  A cashier and two wallets, a deposit and a
payment, one or two inputs and outputs, blinds of a field of two elements so
that every choice of all blinds is covered.  The tree has the 4 levels of the
code (`SAPLING_COMMITMENT_TREE_DEPTH`).  Coins of others come before, between
and after our transactions: in one schedule a payment has coins on all sides,
in the others a deposit lands on each of the 16 places and the tree is filled
until it refuses.  Circuits are written apart from what the prover reveals.
`VerifiesIffBalanced` covers builder, encodings, signatures and verification
at once.  `NoteOpensOutput`: the owner, and nobody else, gets a note that gives
the coin.  `RootIsReference`, `WitnessFollows`, `PathProves`: the frontier,
every witness and its path agree with the whole tree after every append.  All
five are proved for any number of inputs and outputs, any amounts, any order of
the field and any depth of the tree (3.3); the wallets are those that
`KeyAssumption` admits, as keys above 9 are drawn while building.

**payment_inclusion** (a finding, see 3.5).

**contract** (`MCZKContract`).  More than 1,500 sources over the field of three
elements, 2 bits to a scalar: any two operations between the declaration of a
local and the publication of two results, with constraints that use every
instruction; every value of the parameter, and a second attempt on the same
contract.  The source is given a meaning on names (`Outcome`) and on equations
(`EquationsHold`), apart from the indices, numbers and tables the code goes
through.  `RunsAsWritten`: every local and public value is the one the source
gives it, under the parameters of this attempt, and nothing panics.
`VerifiesIffEquationsHold`: the proof verifies exactly if the equations of the
source hold.  Public names come out of the hash table in every order.  Both
are proved for every source and every prime field (3.3).
Only contracts are run whose trusted setup succeeds (`SetUp`): Groth16 refuses
a circuit with a private variable that has no weight in any constraint.
Both suppose that no constant is declared twice, which `compile.py` accepts: the
later line gets an index that counts the symbols so far and the file is sorted
by these indices (`ConstantIndex`, `ConstantList`), so that after `a, b, a` a
reference to `b` reads the value of `a` and one to `a` leads out of the table.
`RunsAsWritten` supposes further that no name is declared twice and that what is
loaded into is a variable: `compile.py` checks neither, and in both cases an operation
can land in a place the source does not name.  The second came out of the
attempt to prove the theorem of 3.3 (`load c d` with two constants, where the
exporter writes whichever memory the argument before had); the model follows
the exporter (`ArgMem`) and one such line is among the operations checked.

**lisp** (`MCLisp`).  A file is loaded after the helpers of `util.lisp` and
gadgets of the examples.  The files: doubling for every point of the curve
`-u^2 + v^2 = 1 + 6 u^2 v^2` over the field of 13 elements, given as scalars or
as strings; `zk-not-small-order?` for every point; `zk-witness` and a claim of
equality for every pair of scalars; the bits of every scalar; entries of the
tables wrapped in up to four others, in `let*`, calls, `enforce` and `try*`;
and closures called where a variable of theirs has another value.  `Kept`: an
entry is not lost or overwritten because another was made while its value was
evaluated, nor by an error that is caught.  `Lexical`: a closure sees the
variables of its definition, by a reference semantics with environments as
values.  `CurveGadgets`: doubling and the test for small order are right.
`ProofsDecide`: a proof verifies exactly if the claims its form enforces are
true.  4 bits hold every scalar of the field, as the code's 256 do.

`CHECK_DEADLOCK FALSE` stands where a system comes to rest: a connection that
is closed, jobs that have ended, payments, attempts, forms and messages that
are used up.  Where a guard is expensive, the weak fairness of an action is
written out with a formula that is true exactly when the action is enabled.
Fairness of actions that wait for another party (accepting, stopping, sending
by a peer, breaking the link) is nowhere assumed.

### 3.3 Theorems

All hold for every value of the constants that satisfies the named
assumptions; those about a system rest on an inductive invariant of the same
module.

- `ChannelProofs`: `DeliverySafety`, `PanicSafety`, and `HeadIsNext`, that the
  next item a reader takes is an error or the successor of the last message.
  `StopsCounted` counts the stops against the watchers that were
  notified; `QueuesFollow` ties each queue to what has been sent.
  `ListedJobsStop`: once a watching manager has finished, no job that was in
  its list runs.  It rests on `Accounted` (a running job is in the list or among
  those being cancelled), and on the fact that a listed job stays in the
  manager's hand until it is over (`InHandStays`).  `NoFalseAlarmAlways`, about the ping-pong: `Conversation` says
  that the one outstanding ping or pong of a pinger is in one of five places
  (wire, queue or hand of the replier, wire or queue back) and has the pinger's
  nonce.
- `ConnectionProofs`: `AgreementAlways`.  `Evidence` says of every packet and
  queued message what its sender has done.  About the slots that dial:
  `LockSafety`, `WakeupSafety`, `FirstStopSafety`, from `OutboundInductive`.  The
  lock alone is not inductive: that a slot's channel is its own
  (`SlotOwnsChannel`) keeps two slots from changing one channel's state,
  that the remover's event follows the stop (`RemoverFollowsStop`) keeps an entry
  from outliving its remover, and that removers are spawned after the handshake
  (`RemoverFollowsHandshake`) keeps them from being behind a dropped subscription.
  `PendingImplementsLock` maps every step to
  a step of `AddressLock` or to a stutter.
- `CodecProofs`: `VarIntRoundTrip`, `VarIntOneForm`, for every base of at least
  four, so for bytes: every number of eight bytes comes back from its VarInt
  with the rest of the input untouched, and what decodes is what encoding
  writes.  `BytesRoundTrip` and `AddrsRoundTrip` say the same of a vector of
  bytes and of a list of addresses, and `AsyncAgrees` that the two copies of
  the VarInt code read and write the same, `SignedAndBooleanRoundTrip` that
  signed numbers and booleans come back.  There is no state; `Split` and
  `Joined` say how the digits of a number come apart and go together.  Lists
  need induction on their length: it is done with sets of numbers (`Induct`,
  from the least element of what is left out), and the folds of the library
  are unfolded from their definitions in that way (`FlattenLast`).
- `PacketsProofs`: `PacketRoundTrip`, that a packet is read back as the message
  it was made of, and `InOrderSafety`.  Reading must not look past a packet:
  `Streams` says that what a decoder makes of some bytes stays the same when
  bytes come after them, unless it had run out of them.  The invariant is that
  the bytes on the way and the writes that the holder of the lock has still to
  do are together the packets of the messages not yet handed out, in order;
  with the link broken some bytes are missing at the end.  The assumption on
  the messages is what the types of the code give: a byte is one of 256, and
  every length is a number of eight bytes.
- `GatewayProofs`: `RepliesSafety`, that every client gets replies to its own
  requests, at most one each, and in order if it waits for each; and
  `ReplyRoundTrip`.  By the invariant each message that was sent has exactly
  one place, from the front of the proxy through a worker and back to its
  client, and carries the identity of its client and its number wherever it
  is; a client that waits has at most one message that is not back.
- `StartupProofs`: `OrderSafety`, `PanicSafety`, about `Node`: the queue of the
  session holds the last channels published in order and then perhaps the
  error (`QueueInOrder`, `ErrorIsLast`); those before are set up
  (`SetUpAreTaken`).  `StartImplementsNode` maps every step of the composition to
  a step of `Node` or to a stutter, which carries `OrderSafety` over to
  `StartOrder`; `StartsSafety` rests on `SeedInvariant`, which ties the list of
  hosts to the queries that ended well.  `StoresSafety` proves
  `DuplicatesNeedARace` from `RaceInv`: without an overlap, a store that has
  passed its check shares no address with the list or with another such store.

- `TransactionProofs`: `BalancedVerifies` (that a payment verifies exactly if it
  balances), `NotesOpenOutputs` and `TransactionRoundTrip`.  The invariant says
  what each part of a payment is made from (`Built`), that the blinds cancel
  out once the last output has its own (`Remainder`), and that what is sent
  decodes to what was built, with its signatures (`Complete`).  That proofs and
  signatures verify follows part by part; the sum of the commitments needs the
  folds of the model, which `PlusResult` and `MinusResult` compare entry by
  entry with the sums of values and of blinds modulo the order of the field.
- Of the tree, in the same module: `RootsAreReference`, `WitnessesFollow` and
  `PathsProve`, for every depth.  The reference is the whole tree
  (`WholeTree`), with infinite rows that are blank beyond the last coin.  By
  `TreeInv` the frontier holds, on each level where the path of its last coin
  turns right, the node to the left of it; `CarryIs` and `FirstFree` say that
  an append is the carry of a binary counter.  Witnesses need more than that
  they give the right root: by `WitnessInv` the frontier of the witness is that
  of its coin (`Anchored`), the roots it has filled are the next nodes to the
  right of the path, lowest level first (`FilledTo`), and the subtree it is
  filling now is a frontier over exactly the coins since (`Within`, or
  `Between` two subtrees).  `Advance` shows that the level that `next_depth`
  counts out is the next one the path lacks.  Sizes and positions are sums of
  powers of two, of which the provers know next to nothing:
  `Powers` gets the rest from the number of subsets of a set with `n` elements.

- `ContractProofs`: `ContractsVerify`, from `ContractInductive`, for every
  source that the compiler and the setup accept and that declares no constant
  twice.  Then every constant has the place of its line in the file
  (`ConstantIs`, `ConstantsWritten`).  The invariant keeps, besides the types of the
  machine (`MachineType`), that the proof at hand was made from the memory at
  hand (`Proven`).  The rest is about the compiler and the circuit, without a
  state: the file decodes to what was compiled, place by place; the circuit is
  a fold over the instructions, whose combinations after each instruction have
  the value of the lines since the last `enforce`, modulo the order of the
  field (`RunValue`), where the coefficient is a power of two for the doublings
  since the last reset (`CoefficientSteps`); so each constraint evaluates to the
  three sums of an equation (`SatisfiedIs`).  On the way to the verifier, the
  sorted public values are the prover's (`SortedIs`): two listings of one set by
  increasing index are the same (`ListingOnly`).
- `ContractsRun`, in the same module, is `RunsAsWritten` for every source that
  declares no constant and no name twice and loads into variables.  By `RunsInductive` the
  memories show, between any two operations, what the lines so far mean for the
  parameters that were taken (`Mirrors`), and what is stored for the next
  attempt is what was set last (`Remembered`).  The place of a local in the
  compiler's table is its place on the machine's stack (`LocalsTabled`), so a
  reference leads to the variable that the line names (`OperandsAre`) and never
  out of the memories (`NoneOutOfRange`); each command is compared with its
  meaning (`AssignMeans`, `UnpackMeans`), and a range of names with a range of
  places (`OperandRange`, `SectionIs`).  `Outcome` is a fold, read line by line
  by `MeaningsAre`.

### 3.4 Only model-checked

- Liveness and everything that speaks of enabledness.
- The properties of `Lisp`: they are about recursive definitions over nested
  forms.
- `OneBadPerCut`.  What a reader finds at a wrong place of the stream depends
  on the bytes of the messages: it is not true of every message, as bytes that
  look like a packet inside a payload would count too.
- `NumbersExact`, a check of the whole codec over a small base.  Its statements
  about VarInts, bytes, addresses, signed numbers and booleans are proved for
  every base, each as a theorem of `CodecProofs`.

### 3.5 Where code and comments differ

One run ends in a violation and has a finding:

- `payment_inclusion`: `bin/tx.rs:106` promises a proof of inclusion of the
  coin; the proof starts from the note commitment and the tree holds the coin,
  so the revealed root is never a root of that tree.

More properties, which the modules state under "What the docs say and the code
does not do", show traces of what the code does in other places.  They are in
no configuration; added to one, each ends in a violation:

| add to | the property | trace |
|---|---|---|
| `Outbound.cfg` * | `NoDuplicateConnection` | a slot that passed `exists()` before another stored its channel takes the lock after the other released it, where `outbound_session.rs:137` promises a lock that prevents duplicates |
| `Outbound.cfg` * | `StoppedIsRemoved` | the channel stops before its remover subscribes; the entry stays |
| `Outbound.cfg` * | `RemovesOnlyStopped` | a remover takes out the entry of another channel to the address |
| `Outbound.cfg` * | `StoredIsInitialized` | the error of the version exchange is dropped, the channel is stored |
| `Outbound.cfg` * | `NoDroppedSubscription` | a timed-out slot leaves a dropped subscription on a running channel |
| `Outbound.cfg` * | `PendingIsAwaited` | a failed connect leaves the address locked for good |
| `Channel.cfg` | `StoppedOnce` | the stopped flag is never set |
| `Channel.cfg`, `Watchers <- TwoWatchers` | `StopNotifiesAll` | `notify` panics half way |
| `Connection.cfg` | `SeedAnswered` | the request arrives before the server has subscribed |
| `KeepAlive.cfg`, one nonce, `MaxStray = 0` | `SentContinually` | one lost ping silences the pinger: no timer waits for the pong |
| `Jobs.cfg` | `AllTasksStopped` | the manager subscribes after the stop |
| `Startup.cfg` | `AddressesAdded` | one known address keeps the others out |
| `Startup.cfg` | `AllChannelsSetUp` | a channel published before the session subscribed |
| `Startup.cfg` | `StopIsHeeded` | a stop request that nobody reads |
| `Payment.cfg` | `FullAtDepth32` | the 17th coin is refused, where a comment has a depth of 32 |
| `Contract.cfg`, `Sources <- RedeclaredSources` | `LocalIsNew` | a local declared twice, then another: two names share a place |
| `Contract.cfg`, `Constants <- RedeclaredConstants` | `LocalIsNew` | a constant declared again after another one: its index leads out of the table |

(* with `Addrs <- OneAddr` and `OwnAddr = NoAddr`, and without the other
properties.)

Other things met while modelling, which no comment or test contradicts:

- lisp: `double` of a function argument drops its result (`core.rs:517-549`);
  `enforce` reads three operands, so that the fourth of the `zk-boolean`
  example is ignored; what is allocated in an environment more than one level
  below the root goes to a table that `prove` does not read; groth16 refuses a
  variable that no constraint mentions.
- contracts: `load` into a constant compiles; the exporter then writes the
  memory of the argument before (`compile_export_supervisor.py:139-144`), or
  fails if there was none.
- tree: the error of an append that the tree refuses is dropped for the coins
  of others (`bin/tx.rs:75`, `bin/tx.rs:119`).
- gateway: a request that does not decode leaves its worker owing a reply for
  ever (`gateway.rs:54`).

### 3.6 Not modelled

Of the interpreter: the reader, keywords, metadata, `time-ms`, randomness,
`slurp`, printing and `seq` on strings; files are syntax trees.  The macro
preprocessor (`pism.py`) and the lexers rewrite text.  Graphics, GUI, wallets
and demonstrations have no state that anything else depends on.  Fixed-width
encodings of curve elements are opaque: what is encoded is taken back.  The
code keeps no nullifiers, so that spending twice is no part of the model.
`P2p::broadcast` is called by nobody.  Settings, options, logging and the
HTTP listener are I/O. `PROJECT.json` lists each with its reason.
