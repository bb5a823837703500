# MagShare in TLA+

MagShare is a peer-to-peer file-sharing program in C++ on Qt: a client
(`src/Client`) that speaks a BitTorrent-like protocol with other peers, and a
tracker (`src/Tracker`) that tells clients of each other.  This directory holds
TLA+ modules that model the program, TLC configurations that check them on
small instances, and theorems that TLAPS proves for instances of every size.

Contents: 1 the system, 2 the modules, 3 what the runs check, 4 what is
proved, 5 where the code and its comments disagree, 6 what is not modelled, and
the plan.

## 1. The system

One client process runs an event loop in its GUI thread.  Everything except the
file manager's worker runs there, one slot at a time.

| component | state | operations | talks to |
|---|---|---|---|
| `FileManager` (a thread per torrent) | request queues for reads, writes and verifications, the lists of verified pieces, the flags `quit`, `newFile`, `wokeUp`, a mutex and a condition variable | `read`, `write`, `verifyPiece`, `startDataVerification`, `getCompletedPieces`, `wakeUp`; the worker's `run`; the destructor | answers by queued signals `dataRead`, `pieceVerified`, `fullVerificationDone`, `error` |
| `TorrentClient` (one per torrent) | state, completed / incomplete / pending pieces, payloads of connections, read ids, known peers, scheduler and connector timers | `start`, `stop`, `setPaused`, `connectToPeers`, the slots of connection, tracker and file manager signals, `scheduleDownloads`, `scheduleUploads` | calls all others |
| `PeerWireClient` (one per connection) | four flags, buffers, queued blocks and their size, awaited blocks, timers, announced pieces | protocol messages out, `processIncomingData`, `timerEvent`, `writeToSocket`, `readFromSocket` | signals to `TorrentClient`, bytes through `RateController` |
| `RateController` (singleton) | set of sockets, limits, a scheduled transfer | `addSocket`, `removeSocket`, `transfer` | the connections |
| `ConnectionManager` (singleton) | set of connections, a limit | `canAddConnection`, `addConnection`, `removeConnection` | `TorrentClient`, `TorrentServer` |
| `TorrentServer` (singleton) | torrents by info hash, waiting connections | `incomingConnection`, `processInfoHash` | hands inbound connections to a `TorrentClient` |
| `TrackerClient` (one per torrent) | socket, interval timer, event flags | `start`, `stop`, `startSeeding`, `fetchPeerList`, `trackerResponse` | `TorrentClient`, the tracker |
| tracker `Server`, `ServerThread` | one map of clients shared by a thread per request | `incomingConnection`, `run` | clients |
| `MetaInfo` | piece hashes, file description | parsing of a `.mag` file | `TorrentClient`, `FileManager` |
| `MainWindow` | the list of jobs | add, remove, pause, create a `.mag` file | `TorrentClient` |
| settings, dialogs, `main` | configuration | | |

What is hard to get right, per component:

* **FileManager** - two threads share the queues.  A request queued between the
  worker's test and its wait must still wake it; a verdict must come after the
  writes it depends on; the destructor must not miss the wait; the single
  posted `wakeUp` must neither be lost nor pile up.
* **TorrentClient** - a piece moves between missing, begun, in progress,
  verifying and complete in nine slots, and three structures point to it.  No
  verdict may meet a deleted piece, no mark may outlive the connection that
  will answer for it, no corrupt block may count, no peer may be overloaded.
* **PeerWireClient** - chokes, requests, cancels and blocks cross in the network,
  at the disk and in two queues, and control messages overtake blocks.  A
  request must be answered or the peer be told to forget it.
* **Upload scheduling** - every ten seconds some peers are unchoked and others
  choked; between two calls connections come, go, get set up and complete, and
  each can make a seat useless or one too many.
* **TrackerClient, tracker** - the socket's life, the event of each request; the
  globals that all threads of the tracker use without a mutex.
* **Life cycle** - stop and pause in every state, mutual calls of window, client
  and tracker, verdicts and answers that arrive late, and the slots of the
  connection limit, which every way a connection ends must give back.

`PROJECT.json` lists these hazards one by one at the line where they bite, with
the properties that answer to them.

## 2. The modules

| module | models | its state and actions |
|---|---|---|
| `FileManager` | `filemanager.cpp`: the GUI thread's calls and the worker thread, against a file | the worker's program counter follows `run()`: lock, test, wait, take the queues, unlock, open, then write / read / verify one request a step.  The mutex and the condition variable are state; a queued signal is an element of `events` |
| `FileStore` | what a torrent may rely on: a file whose writes take place at once, requests answered once each | abstract; no queue, no thread, no order among answers |
| `FileManagerProofs`, `FileStoreProofs` | theorems about the two | |
| `FileManagerStoreProofs` | that the one implements the other, and theorems about its answers | |
| `TorrentClient` | `torrentclient.cpp`: pieces, connections, download scheduling | one action per slot.  `scheduleDownloads` is one step per connection, and no other slot runs before it has visited all (`EventLoop`) |
| `TorrentClientMC` | instance with interchangeable peers; its assumption checks that the helpers on lists are the operators of the community modules | |
| `TorrentClientProofs` | theorems about it, after lemmas about the lists it keeps | |
| `PeerWireClient` | `peerwireclient.cpp`: one connection, its peer, and the slots of `TorrentClient` that its signals call | packets are messages; `toPeer` and `fromPeer` are the network; the peer is the environment |
| `PeerWireClientMC` | instance with interchangeable blocks | |
| `PeerWireClientProofs` | theorems about it | |
| `UploadScheduler` | `scheduleUploads` over all connections | one action per call, in which any order of transfer speeds is possible, and one per thing that happens between two calls; `early` remembers who was unchoked while no downloader |
| `UploadSchedulerProofs` | theorems about it | |
| `Session`, `SessionMC` | a run of the client program: `mainwindow.cpp`, the life cycle in `torrentclient.cpp`, `torrentserver.cpp`, `connectionmanager.cpp` | one action per slot; `stop` and `torrentStopped` call each other through a signal, so each is a step and `call` says which one the thread is in; `Delete` is the end of an object, `doomed` holds those with `deleteLater()` pending |
| `SessionProofs` | theorems about it | |
| `Tracker` | `trackerclient.cpp` of several programs and the tracker's threads | a thread's steps are the statements between which another thread may change the globals `SrvMetaInfo`, `mInfoStr`, `clients`; two threads at work are a data race, which may also end the tracker (`Crash`) |
| `TrackerProofs` | theorems about it | |

**The refinement.** `FileManager` defines `Store`, an instance of `FileStore`. The
file that the torrent sees (`FileView`) is the file on disk with every queued
write applied; what is asked is what lies in the four lists of requests; what is
answered is what lies in the GUI thread's event queue.  `ImplementsFileStore`
says that with this mapping every step of the two threads is a step of
`FileStore` or none: writes appear to happen when they are asked for, a verdict
is about the file as it is then, answers come once, and a failing file operation
or the destructor may cost data but never a verified piece.

The models meet at narrow seams.  `TorrentClient` assumes of the disk what
`FileStore` promises: a verdict counts every write made before it, and one
verdict answers each call.
`FileManager` assumes of its caller that it writes whole blocks of pieces without a
verdict.  That is so when peers send whole blocks; nothing in `TorrentClient` sees to
it (`OwnedBlocksAreKept` in section 5), so what `FileManager` and `FileStore` say of
complete pieces (`VerifiedOnDisk`, `CompletedReadsIntact`, `VerdictsSeeEveryWrite`) is
for such peers, and `TorrentClient`, which has the others too, follows what their
data is written over (`overrun`) on its own.
`PeerWireClient` assumes of the client what `TorrentClient` does: it requests
only from peers that do not choke it.  `TorrentClient` sees a connection's peer as
an environment that may send any block of a piece it announced, asked for or not,
with right or wrong contents; a peer in `Careless` also sends blocks of pieces it
did not announce, and data that begins anywhere in a block, or just before the
first, and goes on to any place in the file.  In `PeerWireClient` the peer sends
nothing before it has read our handshake, which one that opens the connection
need not wait for; no property depends on it.

Names follow the source.  Definitions whose name has no counterpart there
(`EventLoop`, `Choked`, ...) have a comment.  Definitions marked *Mutant* are
broken variants of the definition that follows them; no specification uses
them, they show that the property they belong to can fail.

## 3. What the runs check

| run | instance | shows |
|---|---|---|
| `file_manager` | 2 pieces of 1 block, one read, one failing file operation at a time; 402,588 states | safety of queues, verdicts and disk under every interleaving of the two threads; under fairness, every read is answered, every verdict arrives and the first verification ends |
| `file_manager_quit` | 1 piece of 1 block, no reads, no failures | violation: the destructor may wait for ever |
| `torrent_client` | 2 connections, a file of 3 units in pieces of 2 blocks and 1 block, limits 2 and 1, whole blocks; 804,907 states up to symmetry | the scheduler's records agree with each other |
| `torrent_client_stall` | as `torrent_client` | violation: a choked peer's piece lies beside an idle connection |
| `torrent_client_overrun` | 1 connection, to a careless peer | violation: blocks that the client has are written over |
| `peer_wire` | 2 blocks to upload, 1 to download, a queue of two blocks, two messages under way each way; 1.4 million states up to symmetry | no request is lost, no block reaches a choked peer, the queue is bounded |
| `peer_wire_timer` | 2 blocks to download | violation: a block is awaited without a timer |
| `peer_wire_greeting` | | violation: an unchoke precedes handshake and bitfield |
| `uploads` | 3 connections, one upload at a time; 6,734 states | the number of unchoked downloaders is bounded at every moment; under fairness nobody interested starves |
| `session` | 2 torrents one after the other, 2 connections, a limit of 1; 875,568 states | nothing connects for a stopped torrent, slots are counted and given back, nobody keeps a deleted client but after an error, stopping returns |
| `tracker` | 2 programs, one torrent, requests of one of them read in parts, cut in or after the hash or the name; 568,582 states | who asks alone is answered for what was read of it, which events arrive, every request is answered |
| `tracker_seeding` | 1 program | violation: a finished download is not announced |

**Bounds and why they suffice.** Two pieces are the least with which one piece's
write can disturb another's verdict, and with which the lists of the file manager
hold more than one entry.  `TotalLength = 3`, `PieceLength = 2` gives a piece with
two blocks (partly complete pieces, requests split between peers) and a short
last piece.  Two connections are the least that can share, cancel, inherit and
drop each other's pieces.  The limits 2 and 1 keep their order in the code (5
and 2), so entering and leaving warm-up changes the limit under requests that
are out.  In `PeerWireClient` the queue's limit holds two blocks, so the third
overflows it, and two messages under way each way let a choke, an unchoke, a
request and a cancel cross; `MaxMessages` and `MaxRequests` only stop
the environment and the spontaneous actions, never a handler.

With three connections and one upload there is a fastest, one that the optimistic
unchoke falls on and one that waits, which is what starving takes.  Two torrents
are the least with which one is alive while the server or the window still holds
another; a limit of one connection with two objects makes the limit bite and lets
one object outlive another.  Two programs give two threads of the tracker, the
least that race.  To keep their product small, only one of them (`Busy`) completes, stops
or misses the tracker, and only its requests (`LongRequests`) are read in parts, cut in or
after the hash or the name (`Cuts`): the parts have a hash and no name, a name and no
hash, both or neither.

`Careless` is empty in the passing run of the download side, where peers send right or wrong
whole blocks: two connections and data of any place and length together are too many
states for TLC.  `torrent_client_overrun` has one careless peer, and the theorems hold for
any `Careless`.

`tracker` needs no bound on messages: a program sends at most two requests before
its socket is deleted.  `call`, in `session`, is one slot deep, as in the code: each
of the two slots does nothing after the call of the other but return.

**Fairness.** `FairSpec` of `FileManager` asks weak fairness of the event loop
(a queued signal is delivered), of the worker's steps and of its wake-up once
signalled: the operating system schedules both threads and Qt delivers queued
signals.  The GUI thread's own calls, failures and the destructor are not fair.
`UploadScheduler` asks that its timer runs and that `qrand()`, which picks one among
those left over, picks each of them again and again (strong fairness of
`ScheduleLucky`): without it the optimistic unchoke could pass one peer by for
ever.  `Session` asks only that the thread carries on with the calls it has
begun.  `Tracker` asks that posted calls and answers are delivered and that the
tracker's threads run.  `TorrentClient` and `PeerWireClient` check safety only: whether `scheduleDownloads` makes
progress depends on peers that need not answer, and whether bytes move depends
on the limits of the rate controller, which no code sets.

**Deadlock** is not checked where the program may stop: a torrent that is
stopped or seeding with no one left to serve, a connection that is closed, a
file manager that has ended, a session in which both torrents are gone, a tracker
whose programs are done.  `uploads` checks it.

## 4. What is proved

TLAPS checks the following for every value of the constants that meets the
named assumption of the module.

* `FileManagerProofs`
  * `TypeCorrect`: the type invariant.
  * `WakeUpsKept`: `NoLostWakeUp`.  The inductive invariant adds that at most one
    `wakeUp` is posted, which is what makes `wokeUp` tell the truth.
  * `VerifiedStaysOnDisk`: `VerifiedOnDisk`, from `DiskInv`: the order of the
    first verification, where each list of pieces comes from, which verdicts
    are under way, and what the client knows.  `VerifiedOnDisk` alone is not
    inductive: it depends on no queued write reaching a verified piece, which
    depends on the client only writing to pieces it has no verdict for.
* `FileManagerStoreProofs`, from `StoreInv`: every other safety property of the file
  manager, and the refinement, for any number of pieces and blocks and any bound
  on requests and failures.  `DiskInv` says where requests and verdicts are; the
  parts added say what they are about: before the first verification is reported
  nothing was written (`BegunInv`); a read is in one list or in the event queue,
  once, and of a complete piece (`ReadsInv`); a verification the caller waits for is
  under way (`AskedInv`); a queued write is the last one to its block and of no piece
  whose verdict is out (`WritesInv`); and while nothing failed, what was written is
  queued or on disk and all answers are true (`TrueInv`).
  * `RequestsAnsweredOnce`: `OneAnswerEach`.  `VerdictsAreTrue`: `VerdictsSeeEveryWrite`.
    `ReadsAreTrue`: `CompletedReadsIntact`.
  * `ImplementsStore`: `ImplementsFileStore`.  One lemma maps the steps of each kind: the
    caller's calls to `Ask` and `Write`; a delivered signal to `Deliver` or `Ready`; the
    worker's reads and verdicts to `Reply`; the creation of the file to `Create`; a
    failing write, or writes dropped at the end, to `Fault`.  All else (`HiddenMapped`: taking the queues,
    waiting, waking) leaves what the torrent sees as it is, since the lists that
    are taken were empty.
  * `StorePromisesKept`: what `FileStoreProofs` proves of the store therefore holds of the
    two threads.
* `TorrentClientProofs`, first part, from `DownloadInv` (missing, begun and corrupt
  pieces are related, each verification is of a full begun piece):
  * `VerdictsFindTheirPiece`: `OneVerificationEach`.
  * `CompleteIsGenuine`: `CompletedAreGenuine`.  When all peers send whole blocks, complete
    pieces hold the original's data, whatever is in the blocks.  When some do not,
    the exceptions are the pieces in `overrun`, that their data was written over after
    the verdict or while it was being found.
  * `EndgameUnreached`: `NeverEndgame`, since begun pieces are missing ones
    and cannot outnumber them.
  * `InterestKept`: `InterestIsShown`.
* `TorrentClientProofs`, second part, from `WorkInv`: every other property of the
  download side, for any number of connections, any lengths and any limits.  They
  hold together or not at all: `WorkInv` is all of them, and `BookInv`, which no property
  says: no connection is set up before the file was looked at, nor while the
  client searches without a complete piece, so that no request is out when
  warm-up lowers the quota; a connection that is not set up awaits nothing; a
  complete block is not marked as requested, so that one received unneeded
  leaves no mark; the scheduler only visits connections of the list.
  * `TypeCorrect`, `BookkeepingAgrees` (`PiecesPartitioned`), `NothingDangles` (`NoDanglingPiece`),
    `QuotaIsKept` (`QuotaRespected`), `MarksAreAwaited` (`RequestedIsAwaited`),
    `ProgressIsOwned` (`InProgressIsOwned`), `FullIsVerified` (`FullPiecesAreVerified`: a
    begun piece that has blocks, and all of them, is being verified), and
    `OnlyTheEmptyPieceWaits`: under the assumption that the file is no multiple of the
    piece length, `EveryFullPieceIsVerified`, whose guard does not except the empty piece.
  * All of these hold for any `Careless`.
  * The lemmas before them are about lists, for every length: what `InOrder`, `Kept`,
    `Without` and `Requests` contain, and that every outcome of `requestMore` marks what it
    asks for and stays within the quota (`MoreRequested`).  The loop over the pieces
    is a recursive function on numbers; that it exists, and what holds after each
    round, follow by induction on a set of numbers (`SetInduction`, from the
    well-foundedness of the order), which needs no operator parameter.

* `PeerWireClientProofs`: every property of the connection that a run checks
  * `TypeCorrect`, and `QueueStaysBounded`: `QueueIsBounded`.  The count kept beside the
    queue drifts from it; the invariant is that it never falls below it.
  * `NothingAwaited`: `NothingAwaitedWhileChoked`.
  * `PeerAlwaysLearnsChoking`: `PeerLearnsChoking`, and `BlocksOnlyUnchoked`:
    `NoBlockWhileChoked`, from `ChokingInv`.  Both are one statement (`Talk`) about the
    sequence of messages between the client and the peer, which steps extend,
    shift or shorten at its head; it needs that blocks are queued only for a
    peer that is not choked.
  * `PeerIsNeverStranded`: `PeerIsNotStranded`, from `RequestInv`, which adds that a
    peer that takes itself for choked awaits nothing, and that after a cancel of
    a block it still awaits there is a newer request: else the cancel of an
    old request would remove the block of a new one.

* `UploadSchedulerProofs`, from `UploadInv`: `TypeCorrect`, and `UploadsStayBounded`:
  `UploadsAreBounded`, for any number of connections and of seats.  A connection
  that is set up becomes a downloader without being choked; the bound survives
  because `early` remembers who was unchoked before (`EarlyUnchokes`).
* `SessionProofs`, from `SessionInv`: every safety property of a session, for any
  number of torrents and connections and any limit (`TypeCorrect`,
  `StoppedIsDisconnected`, `LimitCounts`, `SlotsStayHeld`, `StoppedIsForgotten`).  The
  invariant adds that a torrent before its first verification has no connection
  and no timer, so that it cannot begin one while it prepares; that a slot whose
  connection has a torrent for parent is in that torrent's list or abandoned; that
  a client about to be deleted has no connection left; and that only a client
  the window and the server have forgotten waits for the tracker's last answer.
* `TrackerProofs`: every safety property of the tracker and its clients.
  * `AloneHearsOfItself`: `AloneGetsItself`, for any number of threads and any `Cuts`: with
    the requester, if its name was in what was read, with an entry that names nobody,
    if the read ended before the name, with the failure, if it had no hash.  Two
    threads at work both know that they had company (`AloneIsAlone`), so what one that
    had none finds in the globals is its own (`AloneOwn`), and what it answers is what
    it read itself (`ReadsOwn`).
  * `EventsStayInOrder`: `EventsInOrder`, and `TypeCorrect`, from `EventsInv`.  It is about all
    that a program sends on its socket (`Sent`: what was read, then what is on the way),
    which reading does not change and sending makes longer at its end.  A
    program's first call finds both flags as they began; the timer starts when the
    socket goes; so there are at most two requests, and at most as many answers
    as parts that were read (`AnswersInv`).
* `FileStoreProofs`: `StoreIsTrustworthy`: a piece the caller counts as complete, or is
  about to, is intact, and no request is answered while it is asked.

So each invariant that a passing run checks is also proved, and the refinement with
them.  Only model-checked is what is beyond the prover: the liveness properties
(`ReadsAnswered`, `VerdictsArrive`, `FirstVerificationEnds`, `NobodyStarves`, `StopReturnsOnceStarted`,
`RequestsAreAnswered`), which rest on fairness and `ENABLED`, and the violations of section 5.

Where a definition was to be proved about, it avoids operators that take an
operator as parameter: `TorrentClient` has `InOrder`, `Kept`, `Without` and `Outcomes` in the
place of `SetToSortSeq`, `SelectSeq`, `Remove` and `FoldLeft` (`HelpersAssumption` of `TorrentClientMC` compares
the first three with them on bounded inputs), and `heard` of `Tracker` is the items a thread
has read, of which `Orderly` picks the events.

## 5. Where the code and its comments disagree

Each is a run that expects a violation; `PROJECT.json` quotes the lines.

* `DestructorReturns`: the destructor sets `quit` and signals without holding the
  mutex, so the signal can fall between the worker's test and its wait, and
  `wait()` blocks the GUI thread.
* `ChokedPieceIsOffered`: `peerChoked` frees the piece for other connections but
  does not call the scheduler.
* `OwnedBlocksAreKept`: `blockReceived` compares a block's number with those the client
  has, but neither its place nor its length with the piece; what does not fit is
  written over its neighbours, complete pieces among them.
* `AwaitedBlocksAreTimed`: any block that arrives, and unchoking the peer, stop the
  timer of all requests that are out.
* `SeedingIsAnnounced`: `trackerResponse` deletes the socket with the first answer, and
  `startSeeding` and the request timer write to it later.
* `BitFieldComesFirst`: the optimistic unchoke of `scheduleUploads` may write to a
  connection that is not set up; the unchoke then precedes the handshake.

Other disagreements were met while modelling, and have no run of their own:

* `writeBlock` does nothing once `quit` is set, so writes queued when the destructor runs
  are dropped (`Flush` of `FileManager`), although the comment at line 171 of
  `filemanager.cpp` says that they are written.
* The last piece of a file whose size is a multiple of the piece length has length 0.
  No block of it arrives, so it is never verified, and the download does not end
  (`EveryFullPieceIsVerified` fails for such sizes only).
* A verdict that comes after a pause makes the torrent active again, and the connector's
  timer opens connections for it; `NothingConnectsWhileStopped` allows this.
* In the states idle, preparing and paused `stop` and `torrentStopped` call each other
  without end, and the client is never deleted; `StopReturnsOnceStarted` is about the other
  states.
* After an error the window and the server keep a pointer to the deleted client, which
  `ForgottenWhenGone` excepts; a connection that is being opened when its torrent is
  paused keeps its slot for good, which `SlotsAreHeld` excepts.

Some properties that hold also say something unexpected: `AloneGetsItself` (the
tracker replaces its only entry for a torrent by the requester and then names
that entry, so that without a data race a program hears only of itself, or of
nobody, when the read ended between its hash and its name), `EventsInOrder` (the
tracker is never told that a torrent stops, and is asked once) and `NeverEndgame`
(the endgame mode is unreachable).

## 6. What is not modelled, and the plan

Left out for good:

* `RateController::transfer`.  Its limits have setters that nothing calls, so they
  stay 0, `transfer` reschedules itself and moves no byte.  The models of
  connections stand for a program in which the limits are set: when bytes move is
  open, that they move in order is what they assume.
* `setPaused(false)`, resuming from a dumped state, `setCompletedPieces`, the tracker's
  removal of stale clients: dead code, since nothing calls it or its condition
  never holds.
* `MetaInfo`, settings, dialogs, progress display, the making of `.mag` files: string
  handling and user interface without state that other parts race with.
* Logging, byte layout of messages, transfer-rate statistics, choice among peers by
  weight and the ageing of the list of peers (any choice is allowed).
* In the tracker, a thread that ends after thirty seconds without a request: programs
  ask as soon as they are connected.  What a program does after it has used its
  deleted socket, and what others do once the tracker has crashed, is undefined
  and not followed (`broken`, `down`).
* The recursion of `requestMore` and `scheduleDownloads` within one call: the scheduler is
  one step per connection in `TorrentClient`.

Open: `transfer` and the limits of the rate controller, should the program come to set
them; the recursion of `requestMore` and `scheduleDownloads` within one call, which would
need the scheduler unrolled into steps.
