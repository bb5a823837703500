--------------------------- MODULE TorrentClient ---------------------------
(***************************************************************************)
(* The download side of one torrent (src/Client/torrentclient.cpp): which  *)
(* pieces are complete, which are being downloaded, which connection is    *)
(* asked for which blocks, and the client's state.                         *)
(*                                                                         *)
(* Everything runs in the GUI thread: an action is one slot.  The slot     *)
(* scheduleDownloads visits its connections one by one, and is one step    *)
(* per connection; no other slot runs while it has connections to visit.   *)
(* The file manager is here what FileManager.tla says of it: it verifies   *)
(* a piece against everything that was written, and a verification that    *)
(* fails for another reason follows an error.                              *)
(*                                                                         *)
(* The peers are the environment: they connect and leave, choke, announce  *)
(* pieces and send blocks of the pieces they announced, asked for or not,  *)
(* with good or bad contents.  The code looks neither at the announcement  *)
(* nor at the place and the length of the data, and writes it wherever it  *)
(* says: a peer in Careless sends blocks it did not announce, and data     *)
(* that is no whole block.  Left out is a block number that its piece does *)
(* not have, which breaks an assertion of QBitArray.                       *)
(***************************************************************************)
EXTENDS Integers, FiniteSets, SequencesExt

CONSTANTS
    Clients,               \* the PeerWireClient objects
    Careless,              \* those whose peers send more than whole, announced blocks
    TotalLength,           \* length of the file, in the unit of the next two
    PieceLength,
    BlockSize,
    MaxBlocksInProgress,   \* 5 in the code: requests to a peer, ...
    MaxBlocksInMultiMode,  \* 2 in the code: ... when peers share pieces
    WarmUpPieces           \* 4 in the code: pieces begun during warm-up

ASSUME TCAssumption ==
    /\ Careless \subseteq Clients
    /\ TotalLength \in Nat \ {0}
    /\ PieceLength \in Nat \ {0}
    /\ BlockSize \in Nat \ {0}
    /\ MaxBlocksInProgress \in Nat \ {0}
    /\ MaxBlocksInMultiMode \in 1 .. MaxBlocksInProgress
    /\ WarmUpPieces \in Nat \ {0}

(* One hash per piece; the last piece may be short.                        *)
NumPieces == (TotalLength + PieceLength - 1) \div PieceLength
Pieces    == 0 .. NumPieces - 1

pieceLengthAt(p) == IF NumPieces = p + 1 THEN TotalLength % PieceLength ELSE PieceLength
NumBlocks(p)     == (pieceLengthAt(p) + BlockSize - 1) \div BlockSize
BlocksOf         == [p \in Pieces |-> 0 .. NumBlocks(p) - 1]
TorrentBlock     == UNION {{<<p, b>> : b \in BlocksOf[p]} : p \in Pieces}

VARIABLES
    state,            \* TorrentClient::State
    verification,     \* of the whole file: "none", "asked", "done"
    completedPieces, incompletePieces,
    pendingPieces,    \* keys of the map of TorrentPiece objects
    inProgress, completedBlocks, requestedBlocks,   \* fields of those
    payloads,         \* pieces of a connection, the latest first
    connections,      \* the list of connections
    sockets,          \* state of each connection's socket
    chokedBy,         \* connections whose peer chokes us
    interestedIn,     \* connections whose peer we told we are interested
    availablePieces,  \* what the peer announced
    incoming,         \* blocks asked for and not received
    schedulerCalled,  \* a call of scheduleDownloads is posted
    toSchedule,       \* connections scheduleDownloads still has to visit
    connectingToClients, \* the timer that calls connectToPeers runs
    verifying,        \* calls of verifyPiece without a verdict
    corrupt,          \* blocks we have that are not the original's
    overrun,          \* pieces changed while complete or being verified
    fileError         \* the file manager reported an error

piece == <<pendingPieces, inProgress, completedBlocks, requestedBlocks>>
lists == <<completedPieces, incompletePieces>>
conns == <<connections, sockets, chokedBy, interestedIn, availablePieces>>
files == <<verification, verifying, corrupt, overrun, fileError>>
vars  == <<state, piece, lists, conns, files, payloads, incoming, schedulerCalled,
           toSchedule, connectingToClients>>

States == {"Idle", "Paused", "Stopping", "Preparing", "Searching", "Connecting",
           "WarmingUp", "Downloading", "Endgame", "Seeding"}

Init ==
    /\ state = "Idle" /\ verification = "none"
    /\ completedPieces = {} /\ incompletePieces = {}
    /\ pendingPieces = {} /\ inProgress = {}
    /\ completedBlocks = [p \in Pieces |-> {}]
    /\ requestedBlocks = [p \in Pieces |-> {}]
    /\ payloads = [c \in Clients |-> <<>>]
    /\ connections = {} /\ sockets = [c \in Clients |-> "none"]
    /\ chokedBy = Clients /\ interestedIn = {}
    /\ availablePieces = [c \in Clients |-> {}]
    /\ incoming = [c \in Clients |-> <<>>]
    /\ schedulerCalled = FALSE /\ toSchedule = {}
    /\ connectingToClients = FALSE
    /\ verifying = [p \in Pieces |-> 0]
    /\ corrupt = {} /\ overrun = {} /\ fileError = FALSE

-----------------------------------------------------------------------------
(* Helpers.                                                                *)

(* No other slot runs between the steps of scheduleDownloads.              *)
EventLoop == toSchedule = {}

Multi(s) == s \in {"WarmingUp", "Endgame"}
Quota(s) == IF Multi(s) THEN MaxBlocksInMultiMode ELSE MaxBlocksInProgress

BlocksLeft(p) == BlocksOf[p] \ completedBlocks[p]

(* A finite set of numbers from the least to the greatest, and the members *)
(* of list s that are in S, in the list's order.  They and Outcomes below  *)
(* are SetToSortSeq, SelectSeq and FoldLeft, in a form that                *)
(* TorrentClientProofs can reason about.                                   *)
InOrder(S) == [k \in 1 .. Cardinality(S) |->
                 CHOOSE n \in S : Cardinality({m \in S : m <= n}) = k]

Kept(s, S) == LET at == InOrder({i \in DOMAIN s : s[i] \in S})
              IN  [k \in DOMAIN at |-> s[at[k]]]

Without(s, e)       == Kept(s, ToSet(s) \ {e})
WithoutPiece(pl, p) == [c \in Clients |-> Without(pl[c], p)]

(* Mutant: as many begun as missing pieces are enough.                     *)
EndgameWhenAllBegun ==
    IF state \notin {"Searching", "Connecting"} THEN state
    ELSE IF completedPieces = {} THEN "WarmingUp"
    ELSE IF Cardinality(incompletePieces) < 5
              /\ Cardinality(pendingPieces) >= Cardinality(incompletePieces)
         THEN "Endgame" ELSE state

(* The state a newly set up connection leads to: warm-up without a         *)
(* complete piece, endgame with fewer missing pieces than begun ones.      *)
StateWhenConnected ==
    IF state \notin {"Searching", "Connecting"} THEN state
    ELSE IF completedPieces = {} THEN "WarmingUp"
    ELSE IF Cardinality(incompletePieces) < 5
              /\ Cardinality(pendingPieces) > Cardinality(incompletePieces)
         THEN "Endgame" ELSE state

(* Mutants: the marks, or the progress flag, are left as they are.         *)
ForgetPayloadKeepMarks(c) ==
    /\ inProgress' = inProgress \ ToSet(payloads[c])
    /\ payloads' = [payloads EXCEPT ![c] = <<>>]
    /\ UNCHANGED requestedBlocks

ForgetPayloadKeepProgress(c) ==
    LET mine == ToSet(payloads[c]) IN
    /\ requestedBlocks' = [p \in Pieces |-> IF p \in mine THEN {} ELSE requestedBlocks[p]]
    /\ payloads' = [payloads EXCEPT ![c] = <<>>]
    /\ UNCHANGED inProgress

(* The payload pieces of the departing or choking connection c are free    *)
(* for others: their requests are forgotten, whoever made them.            *)
ForgetPayload(c) ==
    LET mine == ToSet(payloads[c]) IN
    /\ inProgress' = inProgress \ mine
    /\ requestedBlocks' = [p \in Pieces |-> IF p \in mine THEN {} ELSE requestedBlocks[p]]
    /\ payloads' = [payloads EXCEPT ![c] = <<>>]

(* removeClient: the connection is taken out of every structure; the       *)
(* object is deleted, and c stands for the next one.                       *)
RemoveClient(c) ==
    /\ ForgetPayload(c)
    /\ connections' = connections \ {c}
    /\ sockets' = [sockets EXCEPT ![c] = "none"]
    /\ chokedBy' = chokedBy \cup {c}
    /\ interestedIn' = interestedIn \ {c}
    /\ availablePieces' = [availablePieces EXCEPT ![c] = {}]
    /\ incoming' = [incoming EXCEPT ![c] = <<>>]
    /\ connectingToClients' = TRUE

-----------------------------------------------------------------------------
(* Requesting blocks.                                                      *)

Requests(p, S) == [k \in 1 .. Cardinality(S) |-> <<p, InOrder(S)[k]>>]

(* The blocks of p that are neither complete nor requested; when there is  *)
(* none, peers that share pieces are asked for what others were asked for. *)
Requestable(s, rq, done, p) ==
    LET fresh == (BlocksOf[p] \ done[p]) \ rq[p] IN
    IF fresh # {} \/ ~Multi(s) THEN fresh ELSE BlocksOf[p] \ done[p]

(* Mutant: the requests that are out are not counted.                      *)
requestBlocksFullQuota(s, done, o, p) ==
    LET bits == Requestable(s, o.rq, done, p)
        k    == IF Quota(s) < Cardinality(bits) THEN Quota(s) ELSE Cardinality(bits) IN
    {[rq  |-> [o.rq EXCEPT ![p] = @ \cup chosen],
      inc |-> o.inc \o Requests(p, chosen)] :
        chosen \in {S \in SUBSET bits : Cardinality(S) = k}}

(* requestBlocks: as many as the quota allows, the first ones, or random   *)
(* ones when peers share pieces.  o is the requests so far: the marks rq   *)
(* and the list inc of the connection.  The result is every outcome.       *)
requestBlocks(s, done, o, p) ==
    LET bits == Requestable(s, o.rq, done, p)
        room == Quota(s) - Len(o.inc)
        k    == IF room < Cardinality(bits) THEN room ELSE Cardinality(bits) IN
    {[rq  |-> [o.rq EXCEPT ![p] = @ \cup chosen],
      inc |-> o.inc \o Requests(p, chosen)] :
        chosen \in {S \in SUBSET bits :
                      /\ Cardinality(S) = k
                      /\ Multi(s) \/ \A b \in S, a \in bits \ S : b < a}}

(* Every outcome of a call of requestBlocks for each piece of list mine.   *)
Outcomes(s, done, start, mine) ==
    LET after[n \in 0 .. Len(mine)] ==
            IF n = 0 THEN {start}
            ELSE UNION {requestBlocks(s, done, o, mine[n]) : o \in after[n - 1]}
    IN  after[Len(mine)]

(* requestMore(c) with the client in state s, the connection's payload pl, *)
(* and the pieces, marks and requests as the slot left them: blocks of the *)
(* connection's pieces are requested in order up to the quota, and the     *)
(* scheduler is called when there was nothing to ask for, or room is left. *)
requestMore(c, s, pl, inProg, done, rq, inc) ==
    LET mine == IF Multi(s) THEN pl ELSE Kept(pl, inProg) IN
    IF mine = <<>> /\ incompletePieces # {}
    THEN /\ requestedBlocks' = rq /\ incoming' = inc
         /\ schedulerCalled' = TRUE
    ELSE IF Len(inc[c]) = Quota(s)
    THEN /\ requestedBlocks' = rq /\ incoming' = inc
         /\ UNCHANGED schedulerCalled
    ELSE \E o \in Outcomes(s, done, [rq |-> rq, inc |-> inc[c]], mine) :
         /\ requestedBlocks' = o.rq
         /\ incoming' = [inc EXCEPT ![c] = o.inc]
         /\ schedulerCalled' = (schedulerCalled
                                  \/ (Len(o.inc) < Quota(s) /\ s # "WarmingUp"))

-----------------------------------------------------------------------------
(* Starting, stopping, pausing, errors.                                    *)

Start ==
    /\ EventLoop /\ state = "Idle" /\ verification = "none"
    /\ state' = "Preparing" /\ verification' = "asked"
    /\ UNCHANGED <<piece, lists, conns, verifying, corrupt, overrun, fileError, payloads,
                   incoming, schedulerCalled, toSchedule, connectingToClients>>

(* Mutant: one incomplete piece too many.                                  *)
FullVerificationDoneOffByOne(found, listening) ==
    /\ EventLoop /\ verification = "asked"
    /\ verification' = "done"
    /\ completedPieces' = found
    /\ incompletePieces' = (0 .. NumPieces) \ found
    /\ state' = IF ~listening THEN state
                ELSE IF found = Pieces THEN "Seeding" ELSE "Searching"
    /\ UNCHANGED <<piece, conns, verifying, corrupt, overrun, fileError, payloads,
                   incoming, schedulerCalled, toSchedule, connectingToClients>>

(* What is found on disk is whatever the file holds; without a port to     *)
(* listen on the client stays where it is and reports an error.            *)
FullVerificationDone(found, listening) ==
    /\ EventLoop /\ verification = "asked"
    /\ verification' = "done"
    /\ completedPieces' = found
    /\ incompletePieces' = Pieces \ found
    /\ state' = IF ~listening THEN state
                ELSE IF found = Pieces THEN "Seeding" ELSE "Searching"
    /\ UNCHANGED <<piece, conns, verifying, corrupt, overrun, fileError, payloads,
                   incoming, schedulerCalled, toSchedule, connectingToClients>>

Connected == {c \in Clients : sockets[c] = "connected"}

(* Every connection is aborted.  One that is still connecting does not     *)
(* say so: it is forgotten here and its socket goes on connecting.         *)
AbortAll ==
    LET dropped == connections \cap Connected
        mine    == UNION {ToSet(payloads[c]) : c \in dropped} IN
    /\ connections' = {}
    /\ sockets' = [c \in Clients |-> IF c \in dropped THEN "none" ELSE sockets[c]]
    /\ chokedBy' = chokedBy \cup dropped
    /\ interestedIn' = interestedIn \ dropped
    /\ availablePieces' = [c \in Clients |-> IF c \in dropped THEN {} ELSE availablePieces[c]]
    /\ incoming' = [c \in Clients |-> IF c \in dropped THEN <<>> ELSE incoming[c]]
    /\ payloads' = [c \in Clients |-> IF c \in dropped THEN <<>> ELSE payloads[c]]
    /\ inProgress' = inProgress \ mine
    /\ requestedBlocks' = [p \in Pieces |-> IF p \in mine THEN {} ELSE requestedBlocks[p]]
    /\ connectingToClients' = (connectingToClients \/ dropped # {})

(* handleFileError and the setPaused(true) it calls.                       *)
HandleFileError ==
    /\ EventLoop /\ verification # "none" /\ ~fileError
    /\ fileError' = TRUE
    /\ IF state = "Paused"
       THEN UNCHANGED <<state, piece, conns, payloads, incoming, connectingToClients>>
       ELSE /\ state' = "Paused"
            /\ AbortAll
            /\ UNCHANGED <<pendingPieces, completedBlocks>>
    /\ UNCHANGED <<lists, verification, verifying, corrupt, overrun, schedulerCalled,
                   toSchedule>>

(* Mutant: the begun pieces are deleted.                                   *)
StopForgetsPieces ==
    /\ EventLoop /\ verification # "none" /\ state \notin {"Idle", "Stopping"}
    /\ state' = IF state \in {"Paused", "Preparing"} THEN "Idle" ELSE "Stopping"
    /\ AbortAll
    /\ pendingPieces' = {}
    /\ UNCHANGED <<completedBlocks, lists, files, schedulerCalled, toSchedule>>

(* The tracker is told unless it was never asked.                          *)
Stop ==
    /\ EventLoop /\ verification # "none" /\ state \notin {"Idle", "Stopping"}
    /\ state' = IF state \in {"Paused", "Preparing"} THEN "Idle" ELSE "Stopping"
    /\ AbortAll
    /\ UNCHANGED <<pendingPieces, completedBlocks, lists, files, schedulerCalled, toSchedule>>

-----------------------------------------------------------------------------
(* Connections.                                                            *)

Fresh(c) == c \notin connections /\ sockets[c] = "none"

(* connectToPeers: connections to some of the known peers are begun.       *)
ConnectToPeers(new) ==
    /\ connectingToClients' = FALSE
    /\ IF state \in {"Stopping", "Idle", "Paused"}
       THEN UNCHANGED <<state, connections, sockets>>
       ELSE /\ state' = IF state = "Searching" THEN "Connecting" ELSE state
            /\ connections' = connections \cup new
            /\ sockets' = [c \in Clients |-> IF c \in new THEN "connecting" ELSE sockets[c]]

ConnectorTimer(new) ==
    /\ EventLoop /\ connectingToClients
    /\ ConnectToPeers(new)
    /\ UNCHANGED <<piece, lists, chokedBy, interestedIn, availablePieces, files, payloads,
                   incoming, schedulerCalled, toSchedule>>

(* The tracker's answer: peers are known, and connected to at once or when *)
(* the timer says so.                                                      *)
AddToPeerList(new) ==
    /\ EventLoop /\ verification = "done"
    /\ IF state \in {"Searching", "WarmingUp"}
       THEN ConnectToPeers(new)
       ELSE /\ state \notin {"Paused", "Stopping", "Idle"}
            /\ new = {} /\ connectingToClients' = TRUE
            /\ UNCHANGED <<state, connections, sockets>>
    /\ UNCHANGED <<piece, lists, chokedBy, interestedIn, availablePieces, files, payloads,
                   incoming, schedulerCalled, toSchedule>>

(* A socket is connected: a connection begun here, forgotten or not.       *)
SetupOutgoingConnection(c) ==
    /\ EventLoop /\ sockets[c] = "connecting"
    /\ sockets' = [sockets EXCEPT ![c] = "connected"]
    /\ state' = StateWhenConnected
    /\ UNCHANGED <<piece, lists, connections, chokedBy, interestedIn, availablePieces, files,
                   payloads, incoming, schedulerCalled, toSchedule, connectingToClients>>

(* The server hands over a peer's connection when the torrent is found.    *)
SetupIncomingConnection(c) ==
    /\ EventLoop /\ Fresh(c)
    /\ state \in {"Searching", "Connecting", "WarmingUp", "Downloading", "Endgame", "Seeding"}
    /\ connections' = connections \cup {c}
    /\ sockets' = [sockets EXCEPT ![c] = "connected"]
    /\ state' = StateWhenConnected
    /\ UNCHANGED <<piece, lists, chokedBy, interestedIn, availablePieces, files, payloads,
                   incoming, schedulerCalled, toSchedule, connectingToClients>>

(* The socket reports its end: refused, closed, timed out, or a protocol   *)
(* error.                                                                  *)
Disconnect(c) ==
    /\ EventLoop /\ sockets[c] # "none"
    /\ RemoveClient(c)
    /\ UNCHANGED <<state, pendingPieces, completedBlocks, lists, files, schedulerCalled,
                   toSchedule>>

-----------------------------------------------------------------------------
(* Messages of a peer.                                                     *)

PeerChoked(c) ==
    /\ EventLoop /\ c \in Connected
    /\ chokedBy' = chokedBy \cup {c}
    /\ incoming' = [incoming EXCEPT ![c] = <<>>]
    /\ ForgetPayload(c)
    /\ UNCHANGED <<state, pendingPieces, completedBlocks, lists, files, connections, sockets,
                   interestedIn, availablePieces, schedulerCalled, toSchedule,
                   connectingToClients>>

PeerUnchoked(c) ==
    /\ EventLoop /\ c \in Connected
    /\ chokedBy' = chokedBy \ {c}
    /\ schedulerCalled' = (schedulerCalled \/ state # "Seeding")
    /\ UNCHANGED <<state, piece, lists, files, connections, sockets, interestedIn,
                   availablePieces, payloads, incoming, toSchedule, connectingToClients>>

(* Blocks requested of pieces in progress that c is waiting for.           *)
InProgressOf(c) == {p \in ToSet(payloads[c]) \cap inProgress : requestedBlocks[p] # {}}

(* Mutant: only a seed is told that we are interested.                     *)
InterestInSeeds(c, new) ==
    LET pieces == availablePieces[c] \cup new IN
    /\ EventLoop /\ c \in Connected
    /\ availablePieces' = [availablePieces EXCEPT ![c] = pieces]
    /\ interestedIn' = IF pieces = Pieces THEN interestedIn \cup {c} ELSE interestedIn
    /\ schedulerCalled' = TRUE
    /\ UNCHANGED <<inProgress, requestedBlocks, payloads, connections, sockets, chokedBy,
                   incoming, connectingToClients, state, pendingPieces, completedBlocks,
                   lists, files, toSchedule>>

(* A bitfield or a have message: the pieces new are added to what the peer *)
(* announced.  The connection of two seeds is closed; a peer that has what *)
(* we lack is told of our interest, and the scheduler called unless it is  *)
(* asked for blocks already.                                               *)
PeerPiecesAvailable(c, new) ==
    LET pieces == availablePieces[c] \cup new
        wanted == pieces \ completedPieces # {} IN
    /\ EventLoop /\ c \in Connected
    /\ \/ /\ pieces = Pieces /\ state = "Seeding"
          /\ RemoveClient(c)
          /\ UNCHANGED schedulerCalled
       \/ /\ ~(pieces = Pieces /\ state = "Seeding")
          /\ availablePieces' = [availablePieces EXCEPT ![c] = pieces]
          /\ interestedIn' = IF pieces = Pieces \/ wanted
                             THEN interestedIn \cup {c} ELSE interestedIn \ {c}
          /\ schedulerCalled' = (schedulerCalled \/ pieces = Pieces
                                   \/ (wanted /\ InProgressOf(c) = {}))
          /\ UNCHANGED <<inProgress, requestedBlocks, payloads, connections, sockets,
                         chokedBy, incoming, connectingToClients>>
    /\ UNCHANGED <<state, pendingPieces, completedBlocks, lists, files, toSchedule>>

(* The blocks of the file that data for block b of piece p may be written  *)
(* over.  Data that fits is that block.  Other data begins inside the      *)
(* block, or, for the first block, less than a block's length before it,   *)
(* and may go on to the end of the file.                                   *)
Begin(w) == w[1] * PieceLength + w[2] * BlockSize

WrittenOver(p, b, fits) ==
    LET start == Begin(<<p, b>>) - (IF b = 0 THEN BlockSize ELSE 0) IN
    IF fits THEN {<<p, b>>} ELSE {w \in TorrentBlock : Begin(w) + BlockSize > start}

(* A block for number b of piece p, asked for or not.  Data that does not  *)
(* fit is no answer to a request, but is written and marked all the same.  *)
(* wrong is what the write leaves different from the original among the    *)
(* blocks we have; one that is not needed only makes room for requests.    *)
BlockReceived(c, p, b, fits, wrong) ==
    LET received == IF fits THEN [incoming EXCEPT ![c] = Without(@, <<p, b>>)] ELSE incoming
        Needed   == p \in pendingPieces /\ b \in BlocksLeft(p)
        cancels  == [o \in Clients |->
                       IF fits /\ o # c /\ Multi(state) /\ p \in ToSet(payloads[o])
                       THEN Without(received[o], <<p, b>>) ELSE received[o]]
        done     == [completedBlocks EXCEPT ![p] = @ \cup {b}]
        marks    == [requestedBlocks EXCEPT ![p] = @ \ {b}]
        full     == done[p] = BlocksOf[p]
        next     == IF state \notin {"Downloading", "Endgame"} /\ completedPieces # {}
                    THEN "Downloading" ELSE state
        left     == IF full THEN WithoutPiece(payloads, p) ELSE payloads
        written  == {w \in WrittenOver(p, b, fits) :
                        w[1] \in completedPieces \/ w[2] \in done[w[1]]}
        contents == (corrupt \ written) \cup wrong IN
    /\ EventLoop /\ c \in Connected
    /\ c \in Careless \/ (fits /\ p \in availablePieces[c])
    /\ \/ /\ ~Needed /\ wrong = {}
          /\ requestMore(c, state, payloads[c], inProgress, completedBlocks,
                         requestedBlocks, received)
          /\ UNCHANGED <<state, completedBlocks, corrupt, overrun, verifying, payloads>>
       \/ /\ Needed /\ wrong \subseteq written
          /\ state' = next
          /\ corrupt' = contents
          /\ overrun' = overrun \cup
                {q \in Pieces : /\ q \in completedPieces \/ verifying[q] > 0
                                /\ \E n \in BlocksOf[q] :
                                     <<q, n>> \in (contents \ corrupt) \cup (corrupt \ contents)}
          /\ completedBlocks' = done
          /\ verifying' = IF full THEN [verifying EXCEPT ![p] = @ + 1] ELSE verifying
          /\ payloads' = left
          /\ requestMore(c, next, left[c], inProgress, done, marks, cancels)
    /\ UNCHANGED <<pendingPieces, inProgress, lists, conns, verification, fileError,
                   toSchedule, connectingToClients>>

-----------------------------------------------------------------------------
(* The file manager's verdict on piece p.                                  *)

(* Mutant: the contents are not looked at.                                 *)
VerdictUnchecked(p, ok) ==
    /\ verifying[p] > 0
    /\ ok \in BOOLEAN
    /\ verifying' = [verifying EXCEPT ![p] = @ - 1]

(* The hash may have been taken before or after the piece was overrun.     *)
Verdict(p, ok) ==
    /\ verifying[p] > 0
    /\ \/ p \in overrun
       \/ IF ok THEN \A b \in BlocksOf[p] : <<p, b>> \notin corrupt
                ELSE fileError \/ \E b \in BlocksOf[p] : <<p, b>> \in corrupt
    /\ verifying' = [verifying EXCEPT ![p] = @ - 1]

(* Mutant: the blocks stay marked as completed.                            *)
PieceRejectedKeepBlocks(p) ==
    /\ EventLoop /\ Verdict(p, FALSE)
    /\ payloads' = WithoutPiece(payloads, p)
    /\ inProgress' = inProgress \ {p}
    /\ schedulerCalled' = TRUE
    /\ UNCHANGED <<completedBlocks, requestedBlocks, corrupt, overrun, state, pendingPieces,
                   lists, conns, verification, fileError, incoming, toSchedule,
                   connectingToClients>>

PieceRejected(p) ==
    /\ EventLoop /\ Verdict(p, FALSE)
    /\ payloads' = WithoutPiece(payloads, p)
    /\ inProgress' = inProgress \ {p}
    /\ completedBlocks' = [completedBlocks EXCEPT ![p] = {}]
    /\ requestedBlocks' = [requestedBlocks EXCEPT ![p] = {}]
    /\ corrupt' = {w \in corrupt : w[1] # p}
    /\ overrun' = overrun \ {p}
    /\ schedulerCalled' = TRUE
    /\ UNCHANGED <<state, pendingPieces, lists, conns, verification, fileError,
                   incoming, toSchedule, connectingToClients>>

StateWithPieces(completed, incomplete, pending) ==
    IF completed = Pieces THEN "Seeding"
    ELSE IF Cardinality(completed) = 1 THEN "Downloading"
    ELSE IF Cardinality(incomplete) < 5 /\ Cardinality(pending) > Cardinality(incomplete)
         THEN "Endgame" ELSE state

(* Mutants: the payloads, or the incomplete pieces, are left as they are.  *)
PieceAcceptedKeepPayloads(p) ==
    /\ EventLoop /\ Verdict(p, TRUE)
    /\ pendingPieces' = pendingPieces \ {p}
    /\ inProgress' = inProgress \ {p}
    /\ completedBlocks' = [completedBlocks EXCEPT ![p] = {}]
    /\ requestedBlocks' = [requestedBlocks EXCEPT ![p] = {}]
    /\ completedPieces' = completedPieces \cup {p}
    /\ incompletePieces' = incompletePieces \ {p}
    /\ state' = StateWithPieces(completedPieces', incompletePieces', pendingPieces')
    /\ schedulerCalled' = TRUE
    /\ UNCHANGED <<payloads, conns, verification, corrupt, overrun, fileError, incoming,
                   toSchedule, connectingToClients>>

PieceAcceptedStillIncomplete(p) ==
    /\ EventLoop /\ Verdict(p, TRUE)
    /\ payloads' = WithoutPiece(payloads, p)
    /\ pendingPieces' = pendingPieces \ {p}
    /\ inProgress' = inProgress \ {p}
    /\ completedBlocks' = [completedBlocks EXCEPT ![p] = {}]
    /\ requestedBlocks' = [requestedBlocks EXCEPT ![p] = {}]
    /\ completedPieces' = completedPieces \cup {p}
    /\ state' = StateWithPieces(completedPieces', incompletePieces, pendingPieces')
    /\ schedulerCalled' = TRUE
    /\ UNCHANGED <<incompletePieces, conns, verification, corrupt, overrun, fileError, incoming,
                   toSchedule, connectingToClients>>

PieceAccepted(p) ==
    /\ EventLoop /\ Verdict(p, TRUE)
    /\ payloads' = WithoutPiece(payloads, p)
    /\ pendingPieces' = pendingPieces \ {p}
    /\ inProgress' = inProgress \ {p}
    /\ completedBlocks' = [completedBlocks EXCEPT ![p] = {}]
    /\ requestedBlocks' = [requestedBlocks EXCEPT ![p] = {}]
    /\ completedPieces' = completedPieces \cup {p}
    /\ incompletePieces' = incompletePieces \ {p}
    /\ state' = StateWithPieces(completedPieces', incompletePieces', pendingPieces')
    /\ schedulerCalled' = (schedulerCalled \/ completedPieces' # Pieces)
    /\ UNCHANGED <<conns, verification, corrupt, overrun, fileError, incoming, toSchedule,
                   connectingToClients>>

-----------------------------------------------------------------------------
(* The scheduler.                                                          *)

(* Connected, not choked by the peer, and with room for requests.          *)
Schedulable(c) == /\ c \in Connected \ chokedBy
                  /\ Len(incoming[c]) < Quota(state)

(* The slot visits every connection.  The first tests of a visit concern   *)
(* that connection alone, so those that fail them are left out here.       *)
ScheduleDownloads ==
    /\ EventLoop /\ schedulerCalled
    /\ schedulerCalled' = FALSE
    /\ toSchedule' = IF state \in {"Stopping", "Paused", "Idle"} THEN {}
                     ELSE {c \in connections : Schedulable(c)}
    /\ UNCHANGED <<state, piece, lists, conns, files, payloads, incoming, connectingToClients>>

(* During warm-up, when enough pieces are begun, connections share them.   *)
SharesPieces == state = "WarmingUp" /\ Cardinality(pendingPieces) >= WarmUpPieces

(* A connection that waits for nothing although one of its pieces was      *)
(* taken out of progress goes on with its oldest piece.                    *)
Resumes(c) == /\ \E i \in DOMAIN payloads[c] : payloads[c][i] \notin inProgress
              /\ incoming[c] = <<>>

(* The pieces that may be begun or continued on connection c: incomplete,  *)
(* announced by the peer, not its own, and, except during warm-up, not in  *)
(* progress on another connection.                                         *)
AvailableToClient(c) ==
    ((IF state = "WarmingUp" THEN incompletePieces
      ELSE incompletePieces \ (pendingPieces \cap inProgress))
        \cap availablePieces[c]) \ (ToSet(payloads[c]) \cap inProgress)

(* The first of the begun pieces that can be continued.                    *)
PartialPieces(c) ==
    LET partial == {p \in pendingPieces \cap AvailableToClient(c) :
                        p \notin inProgress \/ Multi(state)}
    IN  {p \in partial : \A q \in partial : p <= q}

(* A new piece: the most common one during warm-up, else the rarest or any *)
(* other.  One that can be continued is none of the available ones left.   *)
NewPieces(c) ==
    LET occurrences(p) == Cardinality({o \in connections : p \in availablePieces[o]})
    IN  IF state = "WarmingUp"
        THEN {p \in AvailableToClient(c) :
                 \A q \in AvailableToClient(c) : occurrences(q) <= occurrences(p)}
        ELSE AvailableToClient(c)

(* Requests are made for the pieces of c, in progress or not, as the       *)
(* scheduler leaves them.                                                  *)
RequestForPieces(c) ==
    requestMore(c, state, payloads'[c], inProgress', completedBlocks, requestedBlocks, incoming)

(* c takes piece p, begun before or now, as its latest.                    *)
Assign(c, p) ==
    /\ pendingPieces' = pendingPieces \cup {p}
    /\ inProgress' = inProgress \cup {p}
    /\ payloads' = [payloads EXCEPT ![c] = <<p>> \o @]

(* The slot's visit to connection c goes on to the next one.               *)
Visit(c) ==
    /\ c \in toSchedule
    /\ toSchedule' = toSchedule \ {c}
    /\ UNCHANGED <<state, completedBlocks, lists, conns, files, connectingToClients>>

KeepPieces == UNCHANGED <<pendingPieces, inProgress, payloads>>

LeaveIdle(c) ==
    /\ Visit(c)
    /\ ~SharesPieces /\ ~Resumes(c) /\ AvailableToClient(c) = {}
    /\ KeepPieces
    /\ UNCHANGED <<requestedBlocks, incoming, schedulerCalled>>

ShareWarmUpPiece(c) ==
    /\ Visit(c)
    /\ SharesPieces
    /\ \E p \in IF payloads[c] = <<>> THEN pendingPieces ELSE {Head(payloads[c])} :
         /\ IF payloads[c] = <<>> THEN Assign(c, p) ELSE KeepPieces
         /\ IF Cardinality(BlocksLeft(p)) = Len(incoming[c])
            THEN UNCHANGED <<requestedBlocks, incoming, schedulerCalled>>
            ELSE RequestForPieces(c)

ResumePiece(c) ==
    /\ Visit(c)
    /\ ~SharesPieces /\ Resumes(c)
    /\ KeepPieces
    /\ RequestForPieces(c)

TakePiece(c) ==
    /\ Visit(c)
    /\ ~SharesPieces /\ ~Resumes(c)
    /\ \E p \in IF PartialPieces(c) # {} THEN PartialPieces(c) ELSE NewPieces(c) :
         Assign(c, p)
    /\ RequestForPieces(c)

SchedulePieceForClient(c) ==
    LeaveIdle(c) \/ ShareWarmUpPiece(c) \/ ResumePiece(c) \/ TakePiece(c)

-----------------------------------------------------------------------------
Next ==
    \/ Start
    \/ \E found \in SUBSET Pieces, l \in BOOLEAN : FullVerificationDone(found, l)
    \/ HandleFileError \/ Stop
    \/ \E new \in SUBSET {c \in Clients : Fresh(c)} : ConnectorTimer(new) \/ AddToPeerList(new)
    \/ \E c \in Clients :
         \/ SetupOutgoingConnection(c) \/ SetupIncomingConnection(c) \/ Disconnect(c)
         \/ PeerChoked(c) \/ PeerUnchoked(c)
         \/ \E new \in {{p} : p \in Pieces} \cup {Pieces} : PeerPiecesAvailable(c, new)
         \/ \E p \in Pieces : \E b \in BlocksOf[p], fits \in {TRUE, c \notin Careless} :
               \E wrong \in SUBSET WrittenOver(p, b, fits) :
                  BlockReceived(c, p, b, fits, wrong)
         \/ SchedulePieceForClient(c)
    \/ \E p \in Pieces : PieceRejected(p) \/ PieceAccepted(p)
    \/ ScheduleDownloads

Spec == Init /\ [][Next]_vars

-----------------------------------------------------------------------------
(* Properties.                                                             *)

(* Every variable stays in its set.                                        *)
TypeOK ==
    /\ state \in States /\ verification \in {"none", "asked", "done"}
    /\ completedPieces \subseteq Pieces /\ incompletePieces \subseteq Pieces
    /\ pendingPieces \subseteq Pieces /\ inProgress \subseteq Pieces
    /\ completedBlocks \in [Pieces -> SUBSET Nat]
    /\ requestedBlocks \in [Pieces -> SUBSET Nat]
    /\ \A p \in Pieces : /\ completedBlocks[p] \subseteq BlocksOf[p]
                         /\ requestedBlocks[p] \subseteq BlocksOf[p]
    /\ payloads \in [Clients -> Seq(Pieces)]
    /\ connections \subseteq Clients
    /\ sockets \in [Clients -> {"none", "connecting", "connected"}]
    /\ chokedBy \subseteq Clients /\ interestedIn \subseteq Clients
    /\ availablePieces \in [Clients -> SUBSET Pieces]
    /\ incoming \in [Clients -> Seq(TorrentBlock)]
    /\ schedulerCalled \in BOOLEAN /\ toSchedule \subseteq Clients
    /\ connectingToClients \in BOOLEAN
    /\ verifying \in [Pieces -> Nat]
    /\ corrupt \subseteq TorrentBlock /\ overrun \subseteq Pieces /\ fileError \in BOOLEAN

(* The bookkeeping of pieces never contradicts itself: once the file was   *)
(* looked at a piece is complete or not, only incomplete pieces are being  *)
(* downloaded, and a piece that is not has no marks left over.             *)
PiecesPartitioned ==
    /\ verification = "done" => completedPieces \cup incompletePieces = Pieces
    /\ completedPieces \cap incompletePieces = {}
    /\ pendingPieces \subseteq incompletePieces
    /\ inProgress \subseteq pendingPieces
    /\ \A p \in Pieces \ pendingPieces : completedBlocks[p] = {} /\ requestedBlocks[p] = {}

(* The payloads of the connections hold no pointer to a deleted            *)
(* TorrentPiece, and only connections in the list hold any: pieceVerified, *)
(* blockReceived, peerChoked and removeClient all prune them.              *)
NoDanglingPiece ==
    \A c \in Clients : payloads[c] # <<>> =>
        /\ ToSet(payloads[c]) \subseteq pendingPieces
        /\ c \in connections /\ c \in Connected

(* A piece is verified once at a time, while it is full and not asked for; *)
(* the verdict finds the TorrentPiece that pieceVerified dereferences.     *)
OneVerificationEach ==
    \A p \in Pieces : verifying[p] > 0 =>
        /\ verifying[p] = 1
        /\ p \in pendingPieces /\ BlocksLeft(p) = {}

(* A piece counts as complete only if each of its blocks was last written  *)
(* with the original's data, unless data that did not fit its block and    *)
(* came for another piece was written over it, after the verdict or while  *)
(* it was being found.  There is no such piece when all peers send whole   *)
(* blocks, whatever is in them.                                            *)
CompletedAreGenuine ==
    /\ \A p \in completedPieces \ overrun : \A b \in BlocksOf[p] : <<p, b>> \notin corrupt
    /\ Careless = {} => overrun = {}

(* A peer is never asked for more blocks at once than the client's mode    *)
(* allows, though requestMore only compares the number with the limit for  *)
(* equality and the mode changes under requests that are out.              *)
QuotaRespected == \A c \in Clients : Len(incoming[c]) <= Quota(state)

(* A block marked as requested is awaited from a connection that has its   *)
(* piece as payload.  Outside warm-up a marked block is not asked for      *)
(* again, so a mark nobody answers for would stop the download.            *)
RequestedIsAwaited ==
    \A p \in pendingPieces : \A b \in requestedBlocks[p] :
        \E c \in connections : /\ <<p, b>> \in ToSet(incoming[c])
                               /\ p \in ToSet(payloads[c])

(* A piece in progress belongs to a connection or is being verified: no    *)
(* other connection takes it, so one without an owner would never finish.  *)
InProgressIsOwned ==
    \A p \in inProgress : \/ \E c \in connections : p \in ToSet(payloads[c])
                          \/ verifying[p] > 0

(* A begun piece whose blocks are all there was handed to the file         *)
(* manager.  The call is made when a block arrives, so this says nothing   *)
(* of the empty last piece of a file that is a multiple of the piece       *)
(* length: see EveryFullPieceIsVerified.                                   *)
FullPiecesAreVerified ==
    \A p \in pendingPieces :
        BlocksOf[p] # {} /\ BlocksLeft(p) = {} => verifying[p] = 1

(* No sequence of slots leads into the endgame mode: its condition asks    *)
(* for more begun than missing pieces.                                     *)
NeverEndgame == state # "Endgame"

(* A peer that announced a piece we still lack has been told that we are   *)
(* interested, whatever was completed or announced since.                  *)
InterestIsShown ==
    \A c \in Connected : availablePieces[c] \ completedPieces # {} => c \in interestedIn

(* An idle connection beside a begun piece that nobody works on and that   *)
(* its peer would send, with no call of the scheduler under way.           *)
PieceLeftLying ==
    /\ EventLoop /\ ~schedulerCalled
    /\ \E c \in connections \cap Connected, p \in pendingPieces \ inProgress :
         /\ c \notin chokedBy /\ incoming[c] = <<>>
         /\ p \in availablePieces[c] /\ BlocksLeft(p) # {}

(* The code says (peerChoked): when the peer chokes us the piece is        *)
(* removed from our payload, "making it available to other clients".  So   *)
(* a choke while downloading does not leave a piece lying.                 *)
ChokedPieceIsOffered ==
    [][state = "Downloading" /\ (\E c \in Clients : PeerChoked(c)) => ~PieceLeftLying']_vars

(* The code says (blockReceived): "Discard blocks that we already have".   *)
(* So a block we have, complete or of a complete piece, stays right once   *)
(* it is right.                                                            *)
OwnedBlocksAreKept ==
    [][\A p \in Pieces : \A b \in BlocksOf[p] :
          /\ p \in completedPieces \/ b \in completedBlocks[p]
          /\ <<p, b>> \notin corrupt
          => <<p, b>> \notin corrupt']_vars

(* The code says (blockReceived): no block left, "Ask the file manager to  *)
(* verify the newly downloaded piece".  So a begun piece without a block   *)
(* left is being verified, an empty last piece as well: true of files that *)
(* are no multiple of the piece length.                                    *)
EveryFullPieceIsVerified ==
    \A p \in pendingPieces : BlocksLeft(p) = {} => verifying[p] = 1
=============================================================================
