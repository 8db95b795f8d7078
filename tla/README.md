# sendme: a TLA+ verification project

sendme copies a *collection* of files (blobs) from a provider to getters over
QUIC. Everything is addressed by its BLAKE3 hash; a blob is sent in the bao
encoding, so that a getter verifies it piece by piece. This directory models the
provider, the getter, the transport between them as both use it, the creation of
a collection, the way from a ticket to an accepted request (texts, certificates,
framing), the progress emitter and the command line, checks them with TLC and
proves the safety of each of them, and of the whole system, with TLAPS.

## Inventory

| Component | Source | State | Operations | Interacts through |
|---|---|---|---|---|
| Accept loop | `src/provider.rs` `Builder::run` | endpoint, cancel token | accept, shutdown, close | spawns connection tasks |
| Connection task | `handle_connection` | connection | accept a stream | spawns stream tasks, events |
| Stream handler | `handle_stream`, `transfer_collection`, `send_blob` | position in handshake, request and answer | read, look up, write, copy on a blocking thread, finish | stream, files, database, events |
| Database | `Database`, `create_collection`, `compute_outboard` | hash to path/size/outboard; immutable afterwards | built once by parallel jobs | files |
| Getter | `src/get.rs` `setup`, `run`, `DataStream` | remaining budget, current blob | connect, request, verify, call back | stream, callbacks |
| Messages, framing | `src/protocol.rs` | none | `write_lp`, `read_lp`, `read_lp_data` | both ends |
| Progress emitter | `src/progress.rs` | four atomics, a channel | `inc`, `set_total`, reader wrapper | threads of the caller |
| Event channel | `broadcast` in `provider.rs` | a ring of 8 events | send, subscribe | subscribers |
| TLS identity | `src/tls*` | key pair, expected peer | certificates, verifier | rustls |
| Tickets, tokens, hashes | `provider.rs`, `protocol.rs`, `util.rs` | none | encode, decode | the user |
| Command line | `src/main.rs` | key file, output directory | provide, get | everything above |

What is hard here: tasks of one provider interleave at every await and share a
pool of blocking threads; a shutdown closes all connections at once and throws
away what is in transit; both ends must cope with a peer that sends anything or
stops anywhere; flow control stops writers; files change after they were hashed;
sizes are used before they are verified; the emitter's four atomic accesses
interleave; a ticket outlives the provider it names; commands that share a
directory are killed, interrupted and started again while their blocking threads
go on. `PROJECT.json` lists each hazard with its line.

What makes the components correct: a handler authenticates before it sends,
reports exactly one outcome, sends its answer in order and completely, and ends;
a getter returns Ok only with everything, stays within what was announced, and
returns; a completed transfer survives an immediate shutdown; a created
collection can be served; progress values are in range and the last is not lost;
only the provider that a ticket names answers it; commands leave whole files, no
temporary ones, and serve the key that they persisted.

## Modules

| Module | Models | Extends |
|---|---|---|
| `Protocol` | messages, the bao encoding, what both sides know by hash | |
| `Quic` | the transport (external: quinn), from its use | `Protocol` |
| `Provider` | accept loop, connections, stream handlers, files, events | `Quic` |
| `OpenProvider` | a provider with arbitrary clients | `Provider` |
| `Getter` | `get::run`, one per stream | `Quic` |
| `OpenGetter` | a getter with an arbitrary provider | `Getter` |
| `Fetch` | abstract: what a getter promises its caller | |
| `Transfer` | provider, getters and transport together | `Provider`, `Getter` |
| `Collection` | `create_collection`, `compute_outboard` and concurrent writers, the size of the encoding | `Postcard` |
| `Postcard` | numbers and byte strings in postcard's format (external) | |
| `Text` | the texts of hashes, peer ids, tokens, tickets and CIDs | `Postcard` |
| `Framing` | `write_lp` and the `read_lp` family on a stream of bytes | `Text` |
| `Certificate` | making and verifying certificates | |
| `Session` | from a ticket to an accepted request and its response | `Framing`, `Certificate` |
| `Progress` | the progress emitter, its threads and its subscribers | |
| `CommandLine` | `provide` and `get` processes on one machine; uses `Fetch` | |
| `ProviderProofs` | lemmas: what every step of a provider keeps, whoever its clients are | `Provider` |
| `GetterProofs` | lemmas: what every step of a getter keeps, whoever its provider is | `Getter` |
| `OpenProofs` | theorems: each end facing an arbitrary other one, refinement of `Fetch` | `OpenProvider`, `OpenGetter`, `ProviderProofs`, `GetterProofs` |
| `TransferProofs` | theorems: the whole system | `Transfer`, `ProviderProofs`, `GetterProofs` |
| `SessionProofs` | theorems: from a ticket to an accepted request | `Session` |
| `CollectionProofs`, `ProgressProofs`, `CommandLineProofs` | theorems: all safety properties of the module | `Collection`, `Progress`, `CommandLine` |
| `MC*` | instances for TLC | |

**Abstraction of data.** A getter's message is a *frame*, a provider's message or
bao segment an *item*; sizes count segments. `Enc(h)` is a size header and the
segments of `h`. A message that does not decode is `Malformed`; one whose stream
ends before its announced length is `Short`. `Data(h, i)` stands for the i-th
verified piece of `h`: a provider cannot invent one, which is the strength of the
hash. Request ids are left out: a stream carries one request.

**Transport.** Each end has its own view of a connection (`pside`, `cside`), so
one end goes on until it notices the close. What is sent to an end that is
already down vanishes. An end that is down can still read what had been
acknowledged up to the end of the stream (`acked`), and otherwise either reads
on or fails. `stopped` are the directions whose receiver stopped reading.
Dropping an unfinished writer finishes its stream, dropping an unread reader
stops it, as quinn does. `Window` is the flow control credit in items,
`MAX_CONNECTIONS` the limit of the endpoint; the limit of 10 streams per
connection is not modelled. `Lossy` allows connections to time out and the
endpoint to be lost. A network that fails and recovers within the idle timeout is
invisible above QUIC.

**Provider.** `run` is where the accept loop is: the biased select polls the token
(`PollCancelled`), then accept (`RunAccept`), then parks (`RunPark`) until woken
(`RunWake`). If the endpoint is lost, accept() yields `None`; that only disables
its branch, and the loop waits for the token (`deaf`): the `else` branch needs
both branches disabled and is never taken. `hs[s]` is where a handler is, named
after the await it stands at; `log[s]` the events about the stream. An answer of
the handler is one action per write, and the lookup that selects the write is in
its guard. A copy holds a thread of `Pool` until its last segment is written.

**Getter.** `gpc[s]` is where `run` is, or how it returned; every return drops the
connection. Callbacks that may fail are `FailingCalls`; `LazyBlobs` are the
blobs after a part of which on_blob may return. In the check after on_blob every error passes (`CheckReads`,
`CheckFails`); a lost connection passes too, but the following read meets it
again, so `ReadFails` ends there at once. An item that is no message, read as
one, either fails to decode or panics in `split_to`, hence two outcomes.

**Session.** `listener` is what listens at the provider's address; it changes until the
getter has connected, so a ticket can meet the provider that made it, its restart
with the same key file but another token, another provider, another TLS server or
nobody. `Issue` is `Provider::ticket` or the three values that `provide` prints;
`Damage` changes, cuts or lengthens the text once; `ParseText` is what `get-ticket` or
`get` does with it. `Connect` is `setup` with both sides' verifiers; then the
provider's reader takes handshake and request from the stream of bytes and the
getter's the response. Here texts, messages and frames are sequences of numbers,
because what is at stake are their lengths, leftovers and unused bits; hashes,
keys and tokens have 2 bytes instead of 32 and the length of a frame 2 instead
of 8. A signature is the key that made it and what it is over. A certificate has
both the algorithm it declares for its key (`keyType`) and the kind of key that its
bytes are (`kind`): the code looks at the former only for elliptic curves. `OtherClient` stands
for clients with other certificates and for those that stop after any number of
bytes; it is what `Short` and `Malformed` of `Protocol` abstract.

**Command line.** `pc[p]` is where the main future of a process is, `job[p]` the job it
has on a blocking thread (`tokio::fs`, standard input, `spawn_blocking`). Dropping the
future (`Dropped`: an error, or ctrl-c in main's select) removes what it owns, but
not a job that has begun, and the process does not exit before that job ends; a
job that has not begun may be dropped. `Kill` leaves all files as they are. What
`get::run` does is `Fetch`, so the run of `getter_open` (refinement) carries over: the
commands see what `Fetch` promises and nothing else. `fs::write` is two steps
(create, write), a rename is one. A provider that serves copies each blob on a
blocking thread too (`SendBlob`, `BlobSent`). The copy may wait for flow control
(`SendBlocks`), and nobody need wake it (`SendWakes`), because ctrl-c drops the tasks
without `Provider::shutdown`. What the copy sends is in `Provider`; here it
matters only to when the process exits. Of several copies `job[p]` is the one that
ends last.

**Progress.** The channel keeps the last `CAP` values; `next[u]` is the place a receiver
reads next, and one that is further behind is told so and goes on with the oldest
value kept (`RecvLagged`).

## Runs

| Run | Shows |
|---|---|
| `provider_open` | one stream, any frames in any order, reads, stops, closes, files that shrink, shutdown: indices in range, event protocol, nothing before authentication or after the close, answers in order, completed means everything acknowledged, aborts have a cause |
| `provider_shutdown` | liveness: a shutdown ends loop and handlers, with one blocking thread, two streams, clients that never read, missing files, a lost endpoint |
| `getter_open` | any provider, an on_blob that may leave one blob unread: Ok means that all others are complete, budget, refinement of `Fetch`, return |
| `transfer_two` | two getters and one thread: failures have causes of their own; with intact files and network an early on_blob is caught |
| `transfer_live` | network loss, all changes of files, cancellation, shutdown: a completed transfer is delivered, an Ok was served in full, getters return |
| `collection_create` | parallel jobs, concurrent writes, names of several lengths: what is created can be served, the number of files decides whether blobs with short names are encoded, and creation returns |
| `progress_threads` | two threads, changing totals, a subscriber that may lag: values in range, the last one arrives |
| `command_line` | two commands, two starts each, errors, ctrl-c and kills anywhere: whole files only, Done means stored, temporary files removed, the served key persisted, interrupted commands exit unless standard input or a blocked copy holds them |
| `session` | one text, perhaps damaged, four providers, servers and clients with 32 kinds of certificates, some of them declaring another algorithm than their key has, reads of any size: the named provider answers or nobody does, verdicts agree with the specification the code quotes, messages arrive as written |

**Bounds.** Few hashes, but with an empty blob, blobs of several segments, a
missing blob, requests for a hash that is no collection and one file listed twice;
one or two streams; `MaxFrames = 3` frames on a stream, which is a complete request, so
everything longer is refused at the third; a window of 2 or 3 items, so that
writers block, yet in the passing runs large enough for the encoded collection
(`provider_small_window` is about the other case); one pool thread, so that it is
contended; announced sizes below, at and above the real ones and the limit. Files
change once each: the handler looks at a file only when it opens it and when it
reads a segment. In `collection_create` the extra bytes of the buffer are 7 instead
of 1024: postcard's own bytes for the four lists of sources are 7, 7, 8 (a name whose
length takes two bytes) and 9 (one file more), so two fit and two do not; names are
as long as one and two bytes of length allow. In `session` a damaged text gets symbols from all parts of
the alphabet, and streams end after 0 to 12 bytes, which is from nothing to one
byte more than a whole request with these sizes. In `command_line` there are two providers
(one from standard input), two getters or one of each, an empty unnamed blob, one
of two segments and an empty one under the name of the second, and every mixture
of old files and directories under the target names;
two starts suffice to meet what a previous process left. Deadlock is not checked: a run of the system ends when everybody
is done.

`CompletedDelivers` leaves one failure out: a getter whose `finish()` has not yet
learnt that the request was acknowledged fails with it when the provider shuts
down, although the whole answer may already be waiting for it. `FailureHasCause`
and `AbortHasCause` accept a shutdown, a lost connection, changed files and wrong
tokens as causes.

Three runs end in a violation on purpose; each shows that the code differs from
what a comment or a test of the repository says, quoted under `findings`:

- `provider_small_window`: one `write_buf` call may send only a part of the encoded
  collection, and the transfer is still reported completed.
- `provider_short_message`: a message whose stream ends before its announced
  length makes the handler panic, and no event is sent.
- `transfer_lazy`: when on_blob returns early and the stream ends inside the last
  blob, `run` returns Ok for an incomplete blob.

Smaller differences between comments and code are visible in the model and have
no run: a file changed after it was added is sent all the same and the transfer
completes (`ItemRead`; the getter refuses it), `TransferAborted` is also sent for a
hash that is not found (`ReadExtra`), `ClientConnected` is sent for every stream
(`AcceptBi`), `Stats::data_len` is what was announced (`ReadResponse`), a file
resized and resized back is accepted (`CopyEnds`), and two threads can make
progress values repeat or go back (`Swap`, `Send`). Further:

- `inc` divides by the total: with a total of 0 (an empty file, or `set_total(0)`) the
  calling thread panics (`DivideByZero`).
- `LastStepReceived` needs `Cardinality(Threads) <= CAP`: threads that overtake each other can
  send older steps after the last one, at most one each, and push it out of the
  channel. With one thread more than the channel keeps values the last step can
  be lost; with its 16 values and the callers in this repository (one) it is not.
- The encoding buffer of a collection has 1024 bytes beyond names and hashes, and
  postcard needs two more per file: enough for 505 files with names below 128
  bytes, too few for 511 files whatever they are (`FilesThatFit`, and the theorem
  `CollectionLimits` with these numbers), although `provide` says of a folder
  that "all files in that folder will be served" (`src/src/main.rs:28`);
  `EncodingFails` is that case.
- `public_key` says that it fails "if the `signature_scheme` does not match the public key
  signature and hashing algorithm" (`src/src/tls/certificate.rs:217`). The key's declared
  algorithm is compared only if it is an elliptic curve: an Ed25519 key that
  declares itself an RSA key is accepted (`SignatureScheme`, `VerifySignature`). The
  signatures are still those of the key's holder, so `AnsweredAsNamed` is not affected.
- Two providers that are started together with one new key file can both make a
  key, and the file holds only one of them (`overlap` in `ServesPersistedKey`); one that is
  killed between creating and writing the file leaves a file that no later start
  can read.
- `read_request` says that "the buffer is empty after this function call"; the code
  leaves the request in it, which nothing reads (`RequestRead`).
- Blobs with the same name are stored over each other, and `get` says Done. The last
  one of a name is there if no other `get` writes to the directory; a slower one may
  put an earlier blob of the name in its place (`Supersedes` in `DoneMeansStored`).
- Bytes after a ticket, and the case of a CID, are not looked at (`DamageIsSeen`).
- After ctrl-c a `provide` that reads standard input exits only when a line or the end
  of the input arrives (`ExitsUnlessHeld` excepts it).
- After ctrl-c a `provide` that serves prints "Shutting down provider..."
  (`src/src/main.rs:280`) but does not call `Provider::shutdown`, so nothing closes its
  connections: a copy that waits for a client that does not read keeps the
  process (`SendBlocks`, `SendWakes`). `ExitsUnlessHeld` excepts that copy and no other.

### Fairness

Weak fairness of each task (accept loop, each connection, each handler, each
getter, each job): tokio polls every task that was woken, and the operating system
runs every blocking thread; in `CommandLine` the same for each process's job and its
exit. Weak fairness of delivery: QUIC retransmits, and the
idle timeout finds a peer that is gone. Nothing is assumed of shutdowns,
cancellations, failing callbacks, ctrl-c, kills, new input, network failures, changes of files, of the flow
control credit that a copy waits for in `CommandLine`, or of what the arbitrary
clients and providers do. A client that keeps its connection alive and never
reads blocks a handler, and the blocking thread it holds, until the provider is
shut down; there is no timeout in the code. So that handlers end is checked of a
shutdown, for two that contend for one thread (`HandlersSettle`), and without one only
for what the getters' own fairness gives (`GettersReturn`).

## Proofs

Every theorem holds for every value of the constants that meets the named
assumptions (`QuicAssumption`, `ProviderAssumption`, `CollectionAssumption`...), which TLC
evaluates on the instances. The theorems about the provider are about any number
of connections, streams and blobs; those about the getter about any number of
getters. A hypothesis beyond the assumptions stands in the theorem.

Each end is reasoned about twice: facing arbitrary peers, and facing the other one
in `Transfer`. What its own steps keep is shown once. `ProviderProofs` describes
whoever is at the other end as one action, `Outside`: frames that were sent stay, what
was stopped or acknowledged stays so, only an ended stream is acknowledged, a
connection that is down is not reopened. `OpenProofs` shows that arbitrary clients
and the transport keep to it, `TransferProofs` that the getters do (`GetterOutside`). A
getter is not an instance of the arbitrary client step by step (its last read and
the close of its connection are one step), which is why `Outside` says less than either.
`GetterProofs` needs no such action: all that a getter relies on is that items have
their types.

**Getter facing any provider** (`GetterProofs`, `OpenProofs`; the specification is `GetterSpec`)

- `GetterTypeCorrect`: `ReaderTypeOK`. The interesting part is
  `rem \in Nat`: the subtraction from the budget never underflows.
- `GetterWithinBudget`: from the inductive invariant `Budget`, which relates what
  was delivered, what is left of the current header and `rem` to the announced
  total. `WithinBudget` alone is not inductive: it does not say that the unread
  part of the current blob is still covered.
- `GetterDiligent`: with any `LazyBlobs`, Ok implies that every blob outside of them is
  complete, also for a wanted hash whose content is no collection, which no run
  has. The inductive invariant `BlobProgress` says, for every program counter,
  which blobs have passed the check with which sizes. `GetterComplete` is the case
  of no lazy blobs.
- `GetterImplementsFetch`: `OpenGetter` implements `Fetch`. The mapping shows a caller
  whether `run` has returned and how, the blobs that passed, and the part of the
  current one while on_blob reads it. Each action is shown to be, for the getter
  that takes it, one of the four steps of `Fetch` or invisible (`Sees`), and invisible
  for the others. `Budget` and `BlobProgress` are needed to show that Ok comes after the
  last blob and that a blob that is passed on was complete or lazy. `Fetch` has no
  fairness, so this is all of the refinement.

**Provider facing any clients** (`ProviderProofs`, `OpenProofs`; the specification is `ProviderSpec`)

- `ProviderEventProtocol`: every stream's log is legal for where
  its handler is. With the types of `hs` and `log` the property is inductive, as
  `LegalLog` lists the logs for each program counter; one lemma says that a step
  to a program counter with a log legal there keeps it, and every action is an
  instance.
- `ProviderAuthBeforeData`, `ProviderInRange`: from the invariant `ServeInv`. For every place
  of a handler it says which frames the client has sent (`ReadAt`), which blob the
  handler is at (`IndexAt`), and that what is on the stream was permitted by a request
  read to its end (`SentAt`). The property alone does not say what a handler that is
  about to answer has read. That frames cannot be taken back (`StreamGrows`) makes
  this stable under whatever the clients do. `PoolInv` adds that the threads in use
  are finitely many and within the pool.
- `ProviderSilentAfterClose`: an action property, from `ServeInv` and `Closed`: an endpoint
  that is closed has no open connection and takes no new one, and a handler whose
  connection is down sends nothing.
- `ProviderAbortHasCause`: from `AbortInv`. A write that fails needs a connection that is
  down or a reader that stopped; both stay so. The other aborts need a missing
  blob, a file that changed or a hash that is no collection.
- `ProviderAnswersInOrder`, `ProviderCompletedSendsAll`: under the hypothesis `CollectionsFit`,
  that an encoded collection fits into the flow control window together with the
  response before it. It cannot be dropped: the run `provider_small_window` shows a
  completed transfer without the whole answer, as the collection is written with
  one call that may write a part. The invariant `OrderInv` says exactly what is on the stream for
  every place of the handler while both ends are up (`SentSoFar`), that it stays a
  beginning of the answer once the client's end is down and later writes vanish
  (`PartAt`), that an ended stream at the end of the answer holds all of it (`WholeAt`),
  that the end comes last and is acknowledged only once sent (`EndAt`), and that
  the blobs already sent are stored (`StoredAt`).

**Whole system** (`TransferProofs`)

`Base` is what was shown of each end, carried over, with `ShapeInv` added: how long an
answer gets whatever became of the files, and what opens it. On it stand, for
each stream, the invariants that relate the two ends:

- `TalkAt`: what the getter has sent at each of its places, and that one that has
  returned has dropped its connection.
- `HearAt`: a getter that hears an answer hears the one to its own request, and
  has read exactly the part that its place and its position in the blob say
  (`Aligned`): item by item what is sent and what is awaited agree. With an on_blob that
  stops early this needs a provider that sends nothing wrong (`Clean`), because
  the check after it passes over errors.
- `CountAt`: what was handed on is the sizes of the blobs read so far, and what
  remains of the budget is what the rest takes.
- `OkAt`, `GotAt`: what a returned Ok stands for.
- `LiveAt`, `FreeAt`: without a cause both ends stay up and everything sent arrives.
- `DeliverAt`, `OutcomeAt` (together `FateInv`): which failures remain, and why.

Steps of others are dealt with once: `Aside` says all that they can do to a stream
(the handler adds to the answer, acknowledgements and closes arrive), and each
invariant has a lemma that `Aside` keeps it. A getter's own step either returns or
is one of ten `Turns` along the answer; of these the invariants go through case by case.

- `TransferOkIsServed`: a getter that returned Ok asked for what was answered, was sent
  the whole answer up to its end, and handed on as many bytes as it reports,
  although files change, connections are lost and providers go away.
- `TransferFailureHasCause`: a failure of a getter with the right token that wants a
  servable collection comes from the network, a changed file, a shutdown or a
  refused connection; never from another getter or handler.
- `TransferCompletedDelivers`: the acknowledgement of the end of the answer, which the
  handler awaits before it reports, puts the rest in reach of the getter
  whatever is closed afterwards.
- `TransferOkIsComplete`: with stored, unchanged files an early on_blob cannot hide an
  incomplete blob.

Their hypotheses are about constants. `CollectionsFit` is the one of the provider's
theorems. `TotalsExact`: the announced total of a collection is the sum of its
blobs' sizes, which is what `create_collection` computes and `CollectionIsServable` shows
of it; a getter that is announced less refuses, and one that is announced more
reports more than it got. `TotalsFit`: a total within `MAX_DATA_SIZE`, which a getter refuses
beyond. `LazyBlobs = {}` in the first: otherwise less is handed on than announced.
`FileEvents = {}` and stored blobs in the last. The instances of `transfer_two` and
`transfer_live` meet the hypotheses of the theorems about the properties they check.

**Session** (`SessionProofs`)

For any providers, keys, tokens, hashes, addresses and sizes, any length of keys up
to 127 bytes and any width of the length prefix that holds the lengths of all messages.

- `SessionVerdictsExact`: for any chains with any extensions. `VerifiedIs` says when a chain
  passes, through the first extension that is refused and the one that is taken, for
  every pair of declared and actual kind of key;
  `GeneratedProves` that what `generate` makes proves its maker's key.
- `SessionDamageIsSeen`: a text gives its value back (`TicketReadBack`), and no other text
  of the same kind does, except for the case of a CID and what follows a ticket.
  The lemmas build up from digits and bits: regrouping bits into symbols and back
  loses nothing, and a text that decodes is the one its bytes encode to, as bits left over must be zero
  (`DecodeEncode`, `EncodeDecode`); a parser that succeeds on bytes gives the same on
  longer ones (`TicketExtends`), so a ticket that was cut is refused (`TicketCutRefused`)
  and a changed symbol changes the ticket (`TicketChangedIsSeen`). A CID in
  base64url starts with two capital letters, a CID as it is handed out has none, so
  one change cannot make the one notation of the other (`CidOtherLetters`).
- `SessionMessagesAsWritten`: `Frame` says that what was read and what is in the buffer is a part of what
  was written from where the message starts; `FrameStep` that reads of any size
  keep it. For the two messages on one stream the second frame begins where the
  first ends, which needs the buffer to be cut there.
- `SessionAnsweredAsNamed`, `SessionRefusalHasCause`: from `SessionInv`, the four parts `ListenerOK`
  (certificates seen are the listener's), `TextOK` (the text is what was issued, damaged
  at most once), `ParsedOK` (what was parsed from it) and `ReadingOK` (who is spoken to and
  where the readers are). The second ends with the decoded response; a total that the
  getter then refuses as too large (`src/src/get.rs:180`) is in `Getter`.

**Collection** (`CollectionProofs`)

- `CollectionHashesOpenedSize`, `CollectionIsServable`, `CollectionPathHoldsBlob`: for any sources,
  contents and writes by others. `JobsInv` says what each job has read of its file, in
  particular that a job that is done read as many segments as the file had when
  it was opened, and a prefix of the file as long as nobody writes; `CreatedInv` that
  the outcome was built from what all jobs read and that nothing changes it later.
  Of equal files the entry of the last job stands (`GreatestIs`).
- `CollectionFilesThatFit`: the encoding and the buffer are sums over the files; they are
  compared file by file, from above and from below (`SumsCompared`), and their difference
  is postcard's own bytes against the extra ones (`EncodingExceeds`).
- `CollectionLimits`: what that means for the 1024 bytes of the code; a varint takes at
  most two bytes below 128^2 and ten in any case (`VarintLenIs`).

**Progress** (`ProgressProofs`)

- `ProgressStepsInRange`: for any threads, subscribers, totals and capacity. A value
  is received only from the channel and sent only if it is larger than an earlier
  one, hence the invariant bounds every thread's step from above by `steps` (a lemma
  about the division, as the count is capped by the same total it is divided by)
  and from below by 1 where it is about to be sent, and the channel's content.
- `ProgressLastStepReceived`: from `CountInv` and `SeenInv`. The step computed from a count is
  the last one exactly if the count has reached the total (`StepReached`). Then the
  last step is in the channel, or a thread is about to send it, or a thread that
  reached the total will find that it was not swapped in yet. The number of values
  behind it plus the number of threads that may still send an older one stays
  below the number of threads (`LastStepKept`), so a channel that keeps one value per
  thread has not forgotten it.

**Command line** (`CommandLineProofs`)

- `CommandLineNoPartialTarget`: for any number of processes and starts and any
  collection. The invariant `PersistInv` adds that a rename that is queued or running
  renames a whole copy of the blob its command is at, also when the command is
  already exiting: the property alone says nothing about a job that outlives the
  future that queued it.
- `CommandLineTempsCleaned`: a temporary file belongs to a future that is at a place
  where it owns one, or to the job that renames it (`Holds`), or its command was
  killed.
- `CommandLineServesPersistedKey`: `KeyInv` says, as long as no two providers made a key at
  the same time, that there is one maker, what the file holds at each of its two
  steps, and that every served key is the one in the file, whether or not the
  future that queued the write still waits for it. It uses that a key is not the
  same as no file or a partial one (`KeyAssumption`).
- `CommandLineDoneMeansStored`: `StoredInv` counts the blobs a running get has stored,
  the current one from the return of its rename on, and says that each is under
  its name unless a later blob of its own list, or a blob of another get with the
  same name, has replaced it.

**Induction over data.** Several results need induction: what the first n blobs
contribute to an answer (`BlobStreams`) or to a total (`DataSums`), what the first n files
contribute to a size (`Sums`), and what digits say (`Number`, `Shifted`). All are recursive
functions on numbers; that the equation of such a function holds, and what
follows from it, is proved by taking the least number for which it does not
(`LeastNat`, `SetInduction`, which are about sets, not operators).

**Only model-checked.** Every safety invariant and action property of the passing
runs is a theorem, and so is the refinement of `Fetch`. Liveness is not:
`ShutdownEnds`, `HandlersSettle`, `ReturnsWhenStreamEnds`, `GettersReturn`, `CreationReturns`,
`ExitsUnlessHeld` need fairness and `ENABLED`, about which the prover does not reason.

## Not modelled

- The ring of 8 events behind `Provider::subscribe`: a slow subscriber is told that it
  lags and loses events, which is the channel's documented behaviour and left to
  the subscriber. The order in which events are sent is modelled, and `Progress`
  models a channel of the same kind.
- The bytes of an encoded collection (its size is in `Collection`), the accessors of
  `Collection` and `Database`.
- The codes and reasons of `Closed`: a table that no code reads back.
- A `get` that writes to standard output: it keeps no file. Printing, progress bars,
  logging, elapsed times, `Stats`, the key log.
- ALPN, the DER parser, the cryptography and rustls; a connection without a peer id
  (`peer_id: None`), which the command line never makes; TLS 1.2, which both
  verifiers refuse.
- Bases of multibase other than base32 and base64url.
- The width of integers: a total above 2^48 bytes would be needed for `count * steps`
  to overflow in `inc`; sizes stay far below 2^64.

## Plan

Done: all modules above, their runs, and the theorems: every safety invariant and
action property of the provider, the getter, the whole system, the session, the
collection, the progress emitter and the command line, and the refinement of `Fetch`.

What would add most to it:

1. `OkIsServed` with an on_blob that returns early: what is handed on is then less than
   what is reported, and the property to state is a bound.
2. The getters of `CommandLine` as those of `Transfer`, so that Done is related to what a
   provider served and not only to what `Fetch` promises.
3. The bytes of an encoded collection, on top of `Postcard`, so that `CollectionsFit` can be
   said in bytes and the lemmas of `SessionProofs` about varints apply to it.
