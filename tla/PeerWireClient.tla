--------------------------- MODULE PeerWireClient ---------------------------
(***************************************************************************)
(* One connection to a peer (src/Client/peerwireclient.cpp) with the slots *)
(* of TorrentClient its signals call at once: the four flags of pwState,   *)
(* the blocks awaited from the peer and their timer, and the blocks queued *)
(* for the peer behind the control messages.                               *)
(*                                                                         *)
(* A message is one element of a queue: the reader waits for a whole       *)
(* packet, so a message that is partly written is still to be written.     *)
(* The peer is the environment.  It follows the protocol: it asks for      *)
(* blocks while unchoked and takes its requests as lost when it is choked. *)
(* Those requests cross our messages in fromPeer; what else it sends it    *)
(* may send at any time, and is chosen when it arrives.  Its blocks are    *)
(* not empty, the client is not seeding, and the file manager answers      *)
(* every read, in order.  Time is not modelled: a running timer may fire.  *)
(***************************************************************************)
EXTENDS Integers, FiniteSets, SequencesExt

CONSTANTS
    Uploads,        \* blocks the peer may ask for; we have their pieces
    Downloads,      \* blocks we may ask for
    BlockLength,    \* 16384 in the code
    HeaderLength,   \* 13 in the code
    MaxPending,     \* 32 * 16384 in the code
    MaxMessages,    \* bound: nothing new is begun with as many on the way out
    MaxRequests     \* bound: the peer sends nothing with as many on the way in

ASSUME PWAssumption ==
    /\ IsFiniteSet(Downloads)
    /\ BlockLength \in Nat \ {0} /\ HeaderLength \in Nat
    /\ MaxPending \in Nat \ {0}
    /\ MaxMessages \in Nat \ {0} /\ MaxRequests \in Nat \ {0}

VARIABLES
    connection,        \* "connecting", "open", "closed"
    sentHandShake,
    parsed,            \* what the next data from the peer is parsed as
    invalidateTimeout, \* data came since the timeout last fired
    pwState,           \* set of flags
    incoming,          \* blocks requested and not received
    pendingRequestTimer, \* whether it runs
    outgoingBuffer,    \* messages to be written
    pendingBlocks, pendingBlockSizes, \* blocks to be written
    readIds,           \* the peer's requests at the file manager
    toPeer,            \* messages in the network
    fromPeer,          \* requests and cancels of the peer in the network
    greeted,           \* the peer has our handshake
    peerChoked,        \* the peer was told that it is choked
    outstanding        \* requests the peer has an answer to come for

conn   == <<connection, sentHandShake, parsed, invalidateTimeout>>
upload == <<pendingBlocks, pendingBlockSizes>>
peer   == <<greeted, peerChoked, outstanding>>
vars   == <<conn, pwState, incoming, pendingRequestTimer, outgoingBuffer, upload,
            readIds, toPeer, fromPeer, peer>>

Flags  == {"ChokingPeer", "InterestedInPeer", "ChokedByPeer", "PeerIsInterested"}
Stages == {"handshake", "peerId", "packets"}

Msg(t)         == [type |-> t]
BlockMsg(t, b) == [type |-> t, block |-> b]

(* Interested, not interested, have, keep-alive, request and cancel: their *)
(* content only matters to the uploading side of the peer.                 *)
Other == Msg("other")

Messages ==
    {Msg(t) : t \in {"handshake", "bitfield", "choke", "unchoke", "other"}}
      \cup {BlockMsg("piece", b) : b \in Uploads}
Requests == {BlockMsg(t, b) : t \in {"request", "cancel"}, b \in Uploads}

Init ==
    /\ connection = "connecting" /\ sentHandShake = FALSE
    /\ parsed = "handshake" /\ invalidateTimeout = FALSE
    /\ pwState = {"ChokingPeer", "ChokedByPeer"}
    /\ incoming = {} /\ pendingRequestTimer = FALSE
    /\ outgoingBuffer = <<>> /\ pendingBlocks = <<>> /\ pendingBlockSizes = 0
    /\ readIds = <<>> /\ toPeer = <<>> /\ fromPeer = <<>>
    /\ greeted = FALSE /\ peerChoked = TRUE /\ outstanding = {}

-----------------------------------------------------------------------------
(* What the connection sends.                                              *)

Open == connection = "open"
Room == Len(toPeer \o outgoingBuffer) < MaxMessages

write(messages) == outgoingBuffer' = outgoingBuffer \o messages

(* The connection is given up: the client is removed and deleted, and what *)
(* it held is gone.                                                        *)
abort ==
    /\ connection' = "closed"
    /\ sentHandShake' = FALSE /\ parsed' = "handshake" /\ invalidateTimeout' = FALSE
    /\ pwState' = {"ChokingPeer", "ChokedByPeer"}
    /\ incoming' = {} /\ pendingRequestTimer' = FALSE
    /\ outgoingBuffer' = <<>> /\ pendingBlocks' = <<>> /\ pendingBlockSizes' = 0
    /\ readIds' = <<>> /\ toPeer' = <<>> /\ fromPeer' = <<>>
    /\ greeted' = FALSE /\ peerChoked' = TRUE
    /\ outstanding' = {}

(* Mutants: the blocks of a choked peer stay queued; the peer is choked    *)
(* without being told.                                                     *)
ChokeKeepBlocks ==
    /\ write(<<Msg("choke")>>)
    /\ pwState' = pwState \cup {"ChokingPeer"}
    /\ pendingBlockSizes' = 0
    /\ UNCHANGED pendingBlocks

ChokeSilently ==
    /\ write(<<>>)
    /\ pwState' = pwState \cup {"ChokingPeer"}
    /\ pendingBlocks' = <<>> /\ pendingBlockSizes' = 0

chokePeer ==
    /\ write(<<Msg("choke")>>)
    /\ pwState' = pwState \cup {"ChokingPeer"}
    /\ pendingBlocks' = <<>> /\ pendingBlockSizes' = 0

(* Unchoking stops the timer of our own requests.                          *)
unchokePeer ==
    /\ write(<<Msg("unchoke")>>)
    /\ pwState' = pwState \ {"ChokingPeer"}
    /\ pendingRequestTimer' = FALSE

(* The connection is set up: the handshake and, if we have pieces, their   *)
(* list.                                                                   *)
SetupConnection ==
    /\ connection = "connecting"
    /\ connection' = "open" /\ sentHandShake' = TRUE
    /\ \E list \in {<<>>, <<Msg("bitfield")>>} : write(<<Msg("handshake")>> \o list)
    /\ UNCHANGED <<parsed, invalidateTimeout, pwState, incoming, pendingRequestTimer,
                   upload, readIds, toPeer, fromPeer, peer>>

(* scheduleUploads: chokes, or drops, an unchoked peer or unchokes one.    *)
(* Its optimistic unchoke may pick a connection that is not set up yet.    *)
ScheduleUploads ==
    /\ UNCHANGED <<conn, incoming, readIds, toPeer, fromPeer, peer>>
    /\ \/ /\ Open /\ Room /\ "ChokingPeer" \notin pwState
          /\ chokePeer /\ UNCHANGED pendingRequestTimer
       \/ /\ connection # "closed" /\ Room /\ "ChokingPeer" \in pwState
          /\ unchokePeer /\ UNCHANGED upload

DropUploader == Open /\ "ChokingPeer" \notin pwState /\ abort

(* A piece was completed, or the keep-alive timer fired.                   *)
sendPieceNotification == Open /\ write(<<Other>>)
sendKeepAlive         == Open /\ parsed = "packets" /\ write(<<Other>>)

Notify ==
    /\ Room /\ (sendPieceNotification \/ sendKeepAlive)
    /\ UNCHANGED <<conn, pwState, incoming, pendingRequestTimer, upload, readIds,
                   toPeer, fromPeer, peer>>

(* The scheduler asks for a block, from a peer that does not choke us.     *)
requestBlock(b) ==
    /\ write(<<Other>>)
    /\ incoming' = incoming \cup {b}
    /\ pendingRequestTimer' = TRUE

(* Another connection got the block first.                                 *)
cancelRequest(b) ==
    /\ b \in incoming
    /\ write(<<Other>>)
    /\ incoming' = incoming \ {b}
    /\ UNCHANGED pendingRequestTimer

ScheduleDownload ==
    /\ Open /\ Room
    /\ \E b \in Downloads : \/ "ChokedByPeer" \notin pwState /\ requestBlock(b)
                            \/ cancelRequest(b)
    /\ UNCHANGED <<conn, pwState, upload, readIds, toPeer, fromPeer, peer>>

-----------------------------------------------------------------------------
(* Mutants of sendBlock: the block counts without its header, or the limit *)
(* is checked for the queue without the block.                             *)
sendUncounted(b) ==
    LET size == pendingBlockSizes + BlockLength IN
    IF size > MaxPending
    THEN /\ write(<<Msg("choke"), Msg("unchoke")>>)
         /\ pwState' = pwState \ {"ChokingPeer"}
         /\ pendingRequestTimer' = FALSE
         /\ pendingBlocks' = <<>> /\ pendingBlockSizes' = 0
    ELSE /\ pendingBlocks' = Append(pendingBlocks, b)
         /\ pendingBlockSizes' = size
         /\ UNCHANGED <<pwState, pendingRequestTimer, outgoingBuffer>>

sendDropping(b) ==
    LET size == pendingBlockSizes + HeaderLength + BlockLength IN
    IF size > MaxPending
    THEN /\ pendingBlocks' = <<>> /\ pendingBlockSizes' = 0
         /\ UNCHANGED <<pwState, pendingRequestTimer, outgoingBuffer>>
    ELSE /\ pendingBlocks' = Append(pendingBlocks, b)
         /\ pendingBlockSizes' = size
         /\ UNCHANGED <<pwState, pendingRequestTimer, outgoingBuffer>>

(* A block is queued; beyond the limit the queue is dropped and the peer   *)
(* is choked and unchoked, so that it asks again.                          *)
sendBlock(b) ==
    LET size == pendingBlockSizes + HeaderLength + BlockLength IN
    IF size > MaxPending
    THEN /\ write(<<Msg("choke"), Msg("unchoke")>>)
         /\ pwState' = pwState \ {"ChokingPeer"}
         /\ pendingRequestTimer' = FALSE
         /\ pendingBlocks' = <<>> /\ pendingBlockSizes' = 0
    ELSE /\ pendingBlocks' = Append(pendingBlocks, b)
         /\ pendingBlockSizes' = size
         /\ UNCHANGED <<pwState, pendingRequestTimer, outgoingBuffer>>

(* Mutant: the block is sent to a peer choked since.                       *)
SendToChoked ==
    /\ Open /\ readIds # <<>>
    /\ readIds' = Tail(readIds)
    /\ sendBlock(Head(readIds))
    /\ UNCHANGED <<conn, incoming, toPeer, fromPeer, peer>>

(* The file manager has read a block: it goes to the peer unless the peer  *)
(* was choked since.                                                       *)
SendToPeer ==
    /\ Open /\ readIds # <<>>
    /\ readIds' = Tail(readIds)
    /\ IF "ChokingPeer" \in pwState
       THEN UNCHANGED <<pwState, pendingRequestTimer, outgoingBuffer, upload>>
       ELSE sendBlock(Head(readIds))
    /\ UNCHANGED <<conn, incoming, toPeer, fromPeer, peer>>

(* The rate controller writes some bytes, perhaps the rest of a message.   *)
(* A queued block is moved to the buffer only when that is empty; its      *)
(* header is not taken off the count.                                      *)
WriteToSocket ==
    LET load == outgoingBuffer = <<>> /\ pendingBlocks # <<>>
        buffer == IF load THEN <<BlockMsg("piece", Head(pendingBlocks))>> ELSE outgoingBuffer
    IN
    /\ Open /\ buffer # <<>>
    /\ IF load THEN /\ pendingBlocks' = Tail(pendingBlocks)
                    /\ pendingBlockSizes' = pendingBlockSizes - BlockLength
               ELSE UNCHANGED upload
    /\ \/ outgoingBuffer' = buffer /\ UNCHANGED toPeer
       \/ outgoingBuffer' = Tail(buffer) /\ toPeer' = Append(toPeer, Head(buffer))
    /\ UNCHANGED <<conn, pwState, incoming, pendingRequestTimer, readIds, fromPeer, peer>>

-----------------------------------------------------------------------------
(* What the connection receives: processIncomingData, a packet a step.     *)

(* Another protocol or torrent, our own peer id or an overlong packet      *)
(* ends the connection.                                                    *)
BadData == Open /\ greeted /\ abort

(* Nothing was heard since the timeout last fired, or the timer of our     *)
(* requests fires.                                                         *)
Timeout ==
    \/ connection # "closed" /\ ~invalidateTimeout /\ abort
    \/ /\ Open /\ invalidateTimeout
       /\ invalidateTimeout' = FALSE
       /\ UNCHANGED <<connection, sentHandShake, parsed, pwState, incoming,
                      pendingRequestTimer, outgoingBuffer, upload, readIds, toPeer,
                      fromPeer, peer>>
    \/ Open /\ pendingRequestTimer /\ abort

(* The peer's handshake, then its id.  A peer that opens the connection    *)
(* need not wait until it has read ours; this one does.                    *)
HandShakePacket ==
    /\ Open /\ greeted /\ parsed # "packets"
    /\ parsed' = IF parsed = "handshake" THEN "peerId" ELSE "packets"
    /\ invalidateTimeout' = TRUE
    /\ UNCHANGED <<connection, sentHandShake, pwState, incoming, pendingRequestTimer,
                   outgoingBuffer, upload, readIds, toPeer, fromPeer, peer>>

(* A packet that the peer may send at any time, ...                        *)
Receive ==
    /\ Open /\ Room /\ parsed = "packets"
    /\ invalidateTimeout' = TRUE /\ UNCHANGED fromPeer

(* ... and one that crosses our messages.                                  *)
ReceiveNext(t) ==
    /\ Open /\ parsed = "packets"
    /\ fromPeer # <<>> /\ Head(fromPeer).type = t
    /\ fromPeer' = Tail(fromPeer)
    /\ invalidateTimeout' = TRUE

Received == Head(fromPeer).block

(* Mutant: what was awaited is not forgotten.                              *)
ChokeKeepAwaiting ==
    /\ Receive
    /\ pwState' = pwState \cup {"ChokedByPeer"}
    /\ pendingRequestTimer' = FALSE
    /\ UNCHANGED <<connection, sentHandShake, parsed, incoming, outgoingBuffer, upload,
                   readIds, toPeer, peer>>

ChokePacket ==
    /\ Receive
    /\ pwState' = pwState \cup {"ChokedByPeer"}
    /\ incoming' = {} /\ pendingRequestTimer' = FALSE
    /\ UNCHANGED <<connection, sentHandShake, parsed, outgoingBuffer, upload, readIds,
                   toPeer, peer>>

(* Unchoked, interested, not interested, or a keep-alive.  The timer of our *)
(* requests runs on.                                                        *)
FlagPacket ==
    /\ Receive
    /\ pwState' \in {pwState \ {"ChokedByPeer"}, pwState,
                    pwState \cup {"PeerIsInterested"}, pwState \ {"PeerIsInterested"}}
    /\ UNCHANGED <<connection, sentHandShake, parsed, incoming, pendingRequestTimer,
                   outgoingBuffer, upload, readIds, toPeer, peer>>

sendInterested ==
    /\ write(<<Other>>)
    /\ pwState' = pwState \cup {"InterestedInPeer"}
    /\ pendingRequestTimer' = TRUE

sendNotInterested ==
    /\ write(<<Other>>)
    /\ pwState' = pwState \ {"InterestedInPeer"}
    /\ UNCHANGED pendingRequestTimer

(* The peer announces pieces (have or bitfield), and the client says       *)
(* whether it is interested when that changes.                             *)
HavePacket ==
    /\ Receive
    /\ \E wanted \in BOOLEAN :
         \/ wanted /\ "InterestedInPeer" \notin pwState /\ sendInterested
         \/ ~wanted /\ "InterestedInPeer" \in pwState /\ sendNotInterested
         \/ /\ wanted <=> "InterestedInPeer" \in pwState
            /\ UNCHANGED <<pwState, pendingRequestTimer, outgoingBuffer>>
    /\ UNCHANGED <<connection, sentHandShake, parsed, incoming, upload, readIds, toPeer, peer>>

(* A request is passed to the file manager unless the peer is choked.      *)
RequestPacket ==
    /\ ReceiveNext("request")
    /\ readIds' = IF "ChokingPeer" \in pwState THEN readIds ELSE Append(readIds, Received)
    /\ UNCHANGED <<connection, sentHandShake, parsed, pwState, incoming,
                   pendingRequestTimer, outgoingBuffer, upload, toPeer, peer>>

(* A block arrives.  The client may ask for more blocks at once; only then *)
(* the timer is stopped.                                                   *)
PiecePacket ==
    /\ Receive
    /\ \E b \in Downloads, more \in SUBSET Downloads :
         /\ more # {} => "ChokedByPeer" \notin pwState
         /\ incoming' = (incoming \ {b}) \cup more
         /\ write([i \in 1 .. Cardinality(more) |-> Other])
    /\ pendingRequestTimer' = FALSE
    /\ UNCHANGED <<connection, sentHandShake, parsed, pwState, upload, readIds, toPeer, peer>>

(* The first such block is taken from the queue, not from the count.       *)
CancelPacket ==
    /\ ReceiveNext("cancel")
    /\ pendingBlocks' = RemoveFirst(pendingBlocks, Received)
    /\ UNCHANGED <<connection, sentHandShake, parsed, pwState, incoming, pendingBlockSizes,
                   pendingRequestTimer, outgoingBuffer, readIds, toPeer, peer>>

-----------------------------------------------------------------------------
(* The peer.                                                               *)

PeerRequests ==
    /\ Open /\ Room /\ parsed = "packets"
    /\ Len(fromPeer) < MaxRequests /\ Len(readIds) < MaxRequests
    /\ \E b \in Uploads :
         \/ /\ ~peerChoked /\ b \notin outstanding
            /\ outstanding' = outstanding \cup {b}
            /\ fromPeer' = Append(fromPeer, BlockMsg("request", b))
         \/ /\ b \in outstanding
            /\ outstanding' = outstanding \ {b}
            /\ fromPeer' = Append(fromPeer, BlockMsg("cancel", b))
    /\ UNCHANGED <<conn, pwState, incoming, pendingRequestTimer, outgoingBuffer, upload,
                   readIds, toPeer, greeted, peerChoked>>

(* The peer reads a message; it drops who does not greet first.            *)
PeerReads ==
    /\ Open /\ toPeer # <<>>
    /\ LET m == Head(toPeer) IN
         IF ~greeted /\ m.type # "handshake" THEN abort
         ELSE /\ toPeer' = Tail(toPeer) /\ greeted' = TRUE
              /\ peerChoked' = (m.type = "choke" \/ (peerChoked /\ m.type # "unchoke"))
              /\ outstanding' = CASE m.type = "choke" -> {}
                                  [] m.type = "piece" -> outstanding \ {m.block}
                                  [] OTHER -> outstanding
              /\ UNCHANGED <<conn, pwState, incoming, pendingRequestTimer, outgoingBuffer,
                             upload, readIds, fromPeer>>

Next ==
    \/ SetupConnection \/ ScheduleUploads \/ DropUploader \/ Notify \/ ScheduleDownload
    \/ SendToPeer \/ WriteToSocket \/ Timeout
    \/ BadData \/ HandShakePacket \/ ChokePacket \/ FlagPacket
    \/ HavePacket \/ RequestPacket \/ PiecePacket \/ CancelPacket
    \/ PeerRequests \/ PeerReads

Spec == Init /\ [][Next]_vars

-----------------------------------------------------------------------------
(* Properties.                                                             *)

Stream == toPeer \o outgoingBuffer

(* What a peer that takes itself for choked, or not (c), takes itself for  *)
(* after reading the first n messages of s.                                *)
Choked(c, s, n) ==
    \/ c /\ \A j \in 1 .. n : s[j].type # "unchoke"
    \/ \E i \in 1 .. n : /\ s[i].type = "choke"
                         /\ \A j \in i + 1 .. n : s[j].type # "unchoke"

(* Every variable has its type; the count of queued bytes is not negative. *)
TypeOK ==
    /\ connection \in {"connecting", "open", "closed"}
    /\ parsed \in Stages
    /\ sentHandShake \in BOOLEAN /\ invalidateTimeout \in BOOLEAN
    /\ pendingRequestTimer \in BOOLEAN
    /\ greeted \in BOOLEAN /\ peerChoked \in BOOLEAN
    /\ pwState \subseteq Flags
    /\ toPeer \in Seq(Messages) /\ outgoingBuffer \in Seq(Messages)
    /\ fromPeer \in Seq(Requests)
    /\ incoming \subseteq Downloads /\ outstanding \subseteq Uploads
    /\ pendingBlocks \in Seq(Uploads) /\ pendingBlockSizes \in Nat
    /\ readIds \in Seq(Uploads)

(* No request of the peer is lost while it waits for the answer: the       *)
(* request is on its way to us or to the disk, the block is queued or on   *)
(* its way to the peer, or a choke is, which makes the peer ask again.     *)
PeerIsNotStranded ==
    \A b \in outstanding :
        \/ BlockMsg("request", b) \in ToSet(fromPeer)
        \/ b \in ToSet(readIds) \cup ToSet(pendingBlocks)
        \/ BlockMsg("piece", b) \in ToSet(Stream)
        \/ Msg("choke") \in ToSet(Stream)

(* When the peer has read what is under way it knows whether we choke it,  *)
(* however often the state changed meanwhile.                              *)
PeerLearnsChoking ==
    Choked(peerChoked, Stream, Len(Stream)) <=> "ChokingPeer" \in pwState

(* The peer never gets a block between a choke and the next unchoke:       *)
(* control messages overtake queued blocks, never blocks being written.    *)
NoBlockWhileChoked ==
    \A i \in DOMAIN Stream :
        Stream[i].type = "piece" => ~Choked(peerChoked, Stream, i)

(* The blocks held for a slow peer never exceed the limit of the queue:    *)
(* the count drifts from what is queued, but only upwards.                 *)
QueueIsBounded == Len(pendingBlocks) * (HeaderLength + BlockLength) <= MaxPending

(* No block is awaited from a peer that chokes us: the peer has dropped    *)
(* our requests, and the scheduler counts what is awaited.                 *)
NothingAwaitedWhileChoked == "ChokedByPeer" \in pwState => incoming = {}

(* The code says (requestBlock): after requesting a block, we expect it    *)
(* to be sent "within a certain number of seconds. Otherwise, we drop the  *)
(* connection".  So the timer runs while a block is awaited.               *)
AwaitedBlocksAreTimed == Open /\ incoming # {} => pendingRequestTimer

(* The code says (sendPieceList): the bitfield may only be sent            *)
(* "immediately after the handshaking sequence is completed, and before    *)
(* any other messages are sent".                                           *)
BitFieldComesFirst ==
    \A i \in DOMAIN Stream : Stream[i].type = "bitfield" =>
        \A j \in 1 .. i - 1 : Stream[j].type = "handshake"
=============================================================================
