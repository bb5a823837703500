------------------------------ MODULE Tracker ------------------------------
(***************************************************************************)
(* A tracker and the programs that announce themselves to it: the          *)
(* TrackerClient of each (src/Client/trackerclient.cpp) and the tracker's  *)
(* thread for its connection (src/Tracker/serverthread.cpp, server.cpp,    *)
(* servermetainfo.cpp).                                                    *)
(*                                                                         *)
(* The threads of the tracker share, without a mutex, the parsed request   *)
(* SrvMetaInfo, the record mInfoStr and the map clients; a thread's steps  *)
(* are the statements between which another may change those.  Two threads *)
(* at work at once are a data race, and may bring the tracker down.        *)
(*                                                                         *)
(* A request is a query with the torrent's whole description, its hash,    *)
(* the peer and the event, in this order.  The thread takes what has come  *)
(* for a request, and a read may end anywhere in the query: the hash or    *)
(* the peer may be cut short, or come with the next read, or be lost       *)
(* between the two.                                                        *)
(***************************************************************************)
EXTENDS Integers, Sequences

CONSTANTS
    Peers,        \* programs with one torrent each
    Torrents,     \* info hashes
    Busy,         \* bound: the peers that may complete, stop or miss the tracker
    LongRequests, \* bound: the peers whose requests may be read in parts
    Cuts          \* bound: the items of a request in or after which a read may end

ASSUME TrackerAssumption ==
    /\ Peers \cap {"none", "failure"} = {} /\ Torrents \cap {"none", "missing"} = {}
    /\ Busy \subseteq Peers /\ LongRequests \subseteq Peers /\ Cuts \subseteq 1 .. 3

VARIABLES
    infoHash,             \* the torrent of each peer
    socket,               \* "idle", "connected", "deleted"
    running,              \* start() was called
    fetchPosted,          \* the call of fetchPeerList that start() posts
    firstTrackerRequest, lastTrackerRequest, firstSeeding, \* flags: peers that have them
    seeding,              \* peers whose torrent is in state Seeding
    finished,             \* those that completed it while running
    timer,                \* peers whose request timer runs
    broken,               \* peers whose program used the deleted socket
    requests, replies,    \* what is on the way: items of queries, answers
    heard,                \* the items that the tracker read from each peer
    thread,               \* where the thread of each peer is
    data, query,          \* its locals: what it read, and what it parses
    SrvMetaInfo, mInfoStr, clients, \* the tracker's globals
    overlapped,           \* threads that had company since they read a request
    down                  \* the tracker has crashed

flags   == <<firstTrackerRequest, lastTrackerRequest, firstSeeding>>
program == <<infoHash, socket, running, fetchPosted, flags, seeding, finished, timer, broken>>
locals  == <<data, query>>
tracker == <<thread, locals, SrvMetaInfo, mInfoStr, clients, overlapped, down>>
vars    == <<program, requests, replies, heard, tracker>>

Events  == {"started", "completed", "stopped", "none"}
Items   == {"info", "hash", "peer"} \cup Events
Message(event) == <<"info", "hash", "peer", event>>

(* What the bytes of a read have: "missing" is no item info_hash, "none" a *)
(* hash or a name that is not all there, if any of it is.                  *)
Queries == [hash : Torrents \cup {"none", "missing"}, peer : Peers \cup {"none"}]
Nothing == [hash |-> "missing", peer |-> "none"]

(* An answer, what a thread owes for what it read, and whether it was      *)
(* alone from the read to the answer.                                      *)
Owed    == Peers \cup {"none", "failure"}
Answers == [peer : Owed, due : Owed, alone : BOOLEAN]
Due(q)  == IF q.hash = "missing" THEN "failure" ELSE q.peer

Working == {p \in Peers : thread[p] # "reading"}

Init ==
    /\ infoHash \in [Peers -> Torrents]
    /\ seeding \in SUBSET Busy /\ finished = {}
    /\ socket = [p \in Peers |-> "idle"]
    /\ running = {} /\ fetchPosted = {}
    /\ firstTrackerRequest = Peers /\ lastTrackerRequest = {} /\ firstSeeding = Peers
    /\ timer = {} /\ broken = {}
    /\ requests = [p \in Peers |-> <<>>] /\ replies = [p \in Peers |-> <<>>]
    /\ heard = [p \in Peers |-> <<>>]
    /\ thread = [p \in Peers |-> "reading"]
    /\ data = [p \in Peers |-> Nothing] /\ query = [p \in Peers |-> Nothing]
    /\ SrvMetaInfo = [hash |-> "none", peer |-> "none", error |-> FALSE, content |-> Nothing]
    /\ mInfoStr = "none"
    /\ clients = [h \in Torrents \cup {"none"} |-> "none"]
    /\ overlapped = {} /\ down = FALSE

-----------------------------------------------------------------------------
(* TrackerClient.                                                          *)

(* What a program does after a use of its deleted socket, or once the      *)
(* tracker is down, is not followed.                                       *)
Runs(p) == p \notin broken /\ ~down

(* start(): it waits for the connection, and goes on without one.          *)
Start(p, reachable) ==
    /\ Runs(p) /\ p \notin running /\ (reachable \/ p \in Busy)
    /\ running' = running \cup {p}
    /\ fetchPosted' = fetchPosted \cup {p}
    /\ socket' = [socket EXCEPT ![p] = IF reachable THEN "connected" ELSE "idle"]
    /\ UNCHANGED <<infoHash, flags, seeding, finished, timer, broken, requests, replies, heard,
                   tracker>>

(* The event of a request.                                                 *)
EventOf(p, nowSeeding, firstAsSeed) ==
    IF nowSeeding /\ firstAsSeed THEN "completed"
    ELSE IF p \in firstTrackerRequest THEN "started"
    ELSE IF p \in lastTrackerRequest THEN "stopped" ELSE "none"

(* fetchPeerList(): on a deleted socket there is no telling what happens,  *)
(* but the request does not leave; nor does it without a connection.       *)
fetchPeerList(p, nowSeeding, firstAsSeed) ==
    LET event == EventOf(p, nowSeeding, firstAsSeed) IN
    IF socket[p] = "deleted"
    THEN /\ broken' = broken \cup {p}
         /\ UNCHANGED <<firstSeeding, firstTrackerRequest, requests>>
    ELSE /\ firstSeeding' = IF firstAsSeed /\ event # "completed"
                            THEN firstSeeding \cup {p} ELSE firstSeeding \ {p}
         /\ firstTrackerRequest' = IF event = "started" THEN firstTrackerRequest \ {p}
                                   ELSE firstTrackerRequest
         /\ requests' = IF socket[p] = "idle" THEN requests
                        ELSE [requests EXCEPT ![p] = @ \o Message(event)]
         /\ UNCHANGED broken

(* Mutant: the timer is not a single shot.                                 *)
FirstFetchRepeats(p) ==
    /\ Runs(p) /\ p \in fetchPosted
    /\ fetchPeerList(p, p \in seeding, p \in firstSeeding)
    /\ UNCHANGED <<infoHash, socket, running, fetchPosted, lastTrackerRequest, seeding,
                   finished, timer, replies, heard, tracker>>

(* The call that start() posted.                                           *)
FirstFetch(p) ==
    /\ Runs(p) /\ p \in fetchPosted
    /\ fetchPosted' = fetchPosted \ {p}
    /\ fetchPeerList(p, p \in seeding, p \in firstSeeding)
    /\ UNCHANGED <<infoHash, socket, running, lastTrackerRequest, seeding, finished, timer,
                   replies, heard, tracker>>

(* timerEvent, at the interval the tracker asked for.                      *)
TimerEvent(p) ==
    /\ Runs(p) /\ p \in timer
    /\ fetchPeerList(p, p \in seeding, p \in firstSeeding)
    /\ UNCHANGED <<infoHash, socket, running, fetchPosted, lastTrackerRequest, seeding,
                   finished, timer, replies, heard, tracker>>

(* The torrent's last piece is verified, and TorrentClient calls           *)
(* startSeeding().                                                         *)
StartSeeding(p) ==
    /\ Runs(p) /\ p \in (Busy \cap running) \ (seeding \cup fetchPosted)
    /\ seeding' = seeding \cup {p} /\ finished' = finished \cup {p}
    /\ fetchPeerList(p, TRUE, TRUE)
    /\ UNCHANGED <<infoHash, socket, running, fetchPosted, lastTrackerRequest, timer, replies,
                   heard, tracker>>

(* stop(): nothing is sent.                                                *)
Stop(p) ==
    /\ Runs(p) /\ p \in (Busy \cap running) \ lastTrackerRequest
    /\ lastTrackerRequest' = lastTrackerRequest \cup {p}
    /\ UNCHANGED <<infoHash, socket, running, fetchPosted, firstTrackerRequest, firstSeeding,
                   seeding, finished, timer, broken, requests, replies, heard, tracker>>

(* Mutant: the socket is kept.                                             *)
ResponseKeepsSocket(p, socketError) ==
    /\ Runs(p) /\ socket[p] = "connected" /\ replies[p] # <<>>
    /\ replies' = [replies EXCEPT ![p] = <<>>]
    /\ timer' = IF \/ p \in lastTrackerRequest \/ socketError
                   \/ Head(replies[p]).peer = "failure"
                THEN timer ELSE timer \cup {p}
    /\ UNCHANGED <<infoHash, socket, running, fetchPosted, flags, seeding, finished, broken,
                   requests, heard, tracker>>

(* trackerResponse(): whatever the answer is, the socket is deleted.  After*)
(* stop() the torrent is told; an error of the socket or a failure ends    *)
(* it; else the timer starts.                                              *)
TrackerResponse(p, socketError) ==
    /\ Runs(p) /\ socket[p] = "connected" /\ replies[p] # <<>>
    /\ socket' = [socket EXCEPT ![p] = "deleted"]
    /\ replies' = [replies EXCEPT ![p] = <<>>]
    /\ timer' = IF \/ p \in lastTrackerRequest \/ socketError
                   \/ Head(replies[p]).peer = "failure"
                THEN timer ELSE timer \cup {p}
    /\ UNCHANGED <<infoHash, running, fetchPosted, flags, seeding, finished, broken, requests,
                   heard, tracker>>

-----------------------------------------------------------------------------
(* The thread of a connection.                                             *)

(* Another thread is at work on the globals: a step may end the tracker.   *)
Races(p) == Working \ {p} # {}

Crash(p) ==
    /\ ~down /\ p \in Working /\ Races(p)
    /\ down' = TRUE
    /\ UNCHANGED <<program, requests, replies, heard, thread, locals, SrvMetaInfo, mInfoStr,
                   clients, overlapped>>

(* The value of an item in the bytes that were read; when they end in the  *)
(* item, it is all there, cut short or not even to be recognised.          *)
ValueIn(bytes, item, value, absent) ==
    IF \E i \in 1 .. Len(bytes) - 1 : bytes[i] = item THEN {value}
    ELSE IF bytes[Len(bytes)] = item THEN {value, "none", absent} ELSE {absent}

(* What readAll() returns: one or more requests, or any part of what is    *)
(* long.                                                                   *)
Ends(p) == {n \in 1 .. Len(requests[p]) :
                n % 4 = 0 \/ (p \in LongRequests /\ n % 4 \in Cuts)}

(* magTrackerQueryParser() begins with clear(): it leaves the fields that  *)
(* describe the torrent and the peer.                                      *)
ReadRequest(p) ==
    /\ ~down /\ thread[p] = "reading"
    /\ \E n \in Ends(p) :
         LET bytes == SubSeq(requests[p], 1, n) IN
         /\ requests' = [requests EXCEPT ![p] = SubSeq(@, n + 1, Len(@))]
         /\ heard' = [heard EXCEPT ![p] = @ \o bytes]
         /\ \E hash \in ValueIn(bytes, "hash", infoHash[p], "missing"),
               peer \in ValueIn(bytes, "peer", p, "none") :
                  data' = [data EXCEPT ![p] = [hash |-> hash, peer |-> peer]]
    /\ SrvMetaInfo' = [SrvMetaInfo EXCEPT !.error = FALSE, !.hash = "none",
                                          !.content = Nothing]
    /\ thread' = [thread EXCEPT ![p] = "cleared"]
    /\ overlapped' = IF Working = {} THEN overlapped ELSE overlapped \cup Working \cup {p}
    /\ UNCHANGED <<program, replies, query, mInfoStr, clients, down>>

(* content = data, in the shared record, from where it is parsed.          *)
KeepContent(p) ==
    /\ ~down /\ thread[p] = "cleared"
    /\ SrvMetaInfo' = [SrvMetaInfo EXCEPT !.content = data[p]]
    /\ thread' = [thread EXCEPT ![p] = "kept"]
    /\ UNCHANGED <<program, requests, replies, heard, locals, mInfoStr, clients, overlapped,
                   down>>

(* Without a hash it is an error, and nothing else is parsed ...           *)
ParseHash(p) ==
    /\ ~down /\ thread[p] = "kept"
    /\ IF SrvMetaInfo.content.hash = "missing"
       THEN /\ SrvMetaInfo' = [SrvMetaInfo EXCEPT !.error = TRUE]
            /\ thread' = [thread EXCEPT ![p] = "registered"]
            /\ UNCHANGED query
       ELSE /\ SrvMetaInfo' = [SrvMetaInfo EXCEPT !.hash = SrvMetaInfo.content.hash]
            /\ query' = [query EXCEPT ![p] = SrvMetaInfo.content]
            /\ thread' = [thread EXCEPT ![p] = "hashed"]
    /\ UNCHANGED <<program, requests, replies, heard, data, mInfoStr, clients, overlapped,
                   down>>

(* Mutant: a query without a name leaves that of the one before.           *)
ParsePeerKeepsName(p) ==
    /\ ~down /\ thread[p] = "hashed"
    /\ SrvMetaInfo' = [SrvMetaInfo EXCEPT !.peer = IF query[p].peer = "none" THEN @
                                                   ELSE query[p].peer]
    /\ query' = [query EXCEPT ![p] = Nothing]
    /\ thread' = [thread EXCEPT ![p] = "parsed"]
    /\ UNCHANGED <<program, requests, replies, heard, data, mInfoStr, clients, overlapped,
                   down>>

(* ... and later than the hash the peer, which is empty and has port 0     *)
(* when the query does not name it.                                        *)
ParsePeer(p) ==
    /\ ~down /\ thread[p] = "hashed"
    /\ SrvMetaInfo' = [SrvMetaInfo EXCEPT !.peer = query[p].peer]
    /\ query' = [query EXCEPT ![p] = Nothing]
    /\ thread' = [thread EXCEPT ![p] = "parsed"]
    /\ UNCHANGED <<program, requests, replies, heard, data, mInfoStr, clients, overlapped,
                   down>>

(* The entry of the torrent is looked up and replaced.  lastUpd is never   *)
(* set, so the time since then is 0 and no entry is ever stale.            *)
RegisterClient(p) ==
    /\ ~down /\ thread[p] = "parsed"
    /\ mInfoStr' = clients[SrvMetaInfo.hash]
    /\ clients' = [clients EXCEPT ![SrvMetaInfo.hash] = SrvMetaInfo.peer]
    /\ thread' = [thread EXCEPT ![p] = "registered"]
    /\ UNCHANGED <<program, requests, replies, heard, locals, SrvMetaInfo, overlapped, down>>

(* What is written to a socket that the program has closed is lost.        *)
Reply(p, peer) ==
    /\ replies' = IF socket[p] # "connected" THEN replies
                  ELSE [replies EXCEPT ![p] = Append(@, [peer |-> peer, due |-> Due(data[p]),
                                                         alone |-> p \notin overlapped])]
    /\ data' = [data EXCEPT ![p] = Nothing]
    /\ overlapped' = overlapped \ {p}
    /\ thread' = [thread EXCEPT ![p] = "reading"]

LookUpAgain(p) ==
    /\ ~SrvMetaInfo.error
    /\ mInfoStr' = clients[SrvMetaInfo.hash]
    /\ thread' = [thread EXCEPT ![p] = "looked up"]
    /\ UNCHANGED <<replies, data, overlapped>>

(* Mutant: a request that cannot be parsed is not answered.                *)
ErrorIsDropped(p) ==
    /\ ~down /\ thread[p] = "registered"
    /\ \/ /\ SrvMetaInfo.error
          /\ data' = [data EXCEPT ![p] = Nothing] /\ overlapped' = overlapped \ {p}
          /\ thread' = [thread EXCEPT ![p] = "reading"]
          /\ UNCHANGED <<mInfoStr, replies>>
       \/ LookUpAgain(p)
    /\ UNCHANGED <<program, requests, heard, query, SrvMetaInfo, clients, down>>

(* The error of whichever request was parsed last is the answer; else      *)
(* magTrackerResponseBuilder() looks the torrent up again, ...             *)
LookUp(p) ==
    /\ ~down /\ thread[p] = "registered"
    /\ \/ SrvMetaInfo.error /\ Reply(p, "failure") /\ UNCHANGED mInfoStr
       \/ LookUpAgain(p)
    /\ UNCHANGED <<program, requests, heard, query, SrvMetaInfo, clients, down>>

(* ... and names the peer it found.                                        *)
Answer(p) ==
    /\ ~down /\ thread[p] = "looked up"
    /\ Reply(p, mInfoStr)
    /\ UNCHANGED <<program, requests, heard, query, SrvMetaInfo, mInfoStr, clients, down>>

-----------------------------------------------------------------------------
Thread(p) == \/ ReadRequest(p) \/ KeepContent(p) \/ ParseHash(p) \/ ParsePeer(p)
             \/ RegisterClient(p) \/ LookUp(p) \/ Answer(p)

Next ==
    \E p \in Peers :
        \/ \E reachable \in BOOLEAN : Start(p, reachable)
        \/ FirstFetch(p) \/ TimerEvent(p) \/ StartSeeding(p) \/ Stop(p)
        \/ \E socketError \in BOOLEAN : TrackerResponse(p, socketError)
        \/ Crash(p) \/ Thread(p)

Spec == Init /\ [][Next]_vars

(* The programs run posted calls, answers reach them, and the tracker's    *)
(* threads run.  Nobody has to start, stop or finish a torrent.            *)
FairSpec ==
    /\ Spec
    /\ \A p \in Peers :
         /\ WF_vars(FirstFetch(p)) /\ WF_vars(Thread(p))
         /\ WF_vars(\E socketError \in BOOLEAN : TrackerResponse(p, socketError))

-----------------------------------------------------------------------------
(* Properties.                                                             *)

(* Types; at most two requests, of four items each, are sent on a socket.  *)
TypeOK ==
    /\ infoHash \in [Peers -> Torrents]
    /\ socket \in [Peers -> {"idle", "connected", "deleted"}]
    /\ running \subseteq Peers /\ fetchPosted \subseteq running
    /\ firstTrackerRequest \subseteq Peers /\ lastTrackerRequest \subseteq running
    /\ firstSeeding \subseteq Peers
    /\ seeding \subseteq Peers /\ finished \subseteq seeding
    /\ timer \subseteq running /\ broken \subseteq running
    /\ \A p \in Peers :
         /\ Len(requests[p]) <= 8 /\ \A i \in DOMAIN requests[p] : requests[p][i] \in Items
         /\ Len(replies[p]) <= 8 /\ \A i \in DOMAIN replies[p] : replies[p][i] \in Answers
         /\ \A i \in DOMAIN heard[p] : heard[p][i] \in Items
    /\ thread \in [Peers -> {"reading", "cleared", "kept", "hashed", "parsed", "registered",
                             "looked up"}]
    /\ data \in [Peers -> Queries] /\ query \in [Peers -> Queries]
    /\ SrvMetaInfo \in [hash : Torrents \cup {"none"}, peer : Peers \cup {"none"},
                        error : BOOLEAN, content : Queries]
    /\ mInfoStr \in Peers \cup {"none"}
    /\ clients \in [Torrents \cup {"none"} -> Peers \cup {"none"}]
    /\ overlapped \subseteq Peers /\ down \in BOOLEAN

(* What the tracker reads while no other thread is at work, and until it   *)
(* answers, is answered for itself: a part with no hash with the failure,  *)
(* one that names the requester with the requester as the only peer, and   *)
(* one that ends before that with an entry that names nobody.  Whoever     *)
(* shares the torrent, only a data race lets a peer hear of another.       *)
AloneGetsItself ==
    \A p \in Peers : \A i \in DOMAIN replies[p] :
        replies[p][i].alone => /\ replies[p][i].peer = replies[p][i].due
                               /\ replies[p][i].due \in {p, "none", "failure"}

(* The items of l tell of a torrent that it was started, then that it was  *)
(* completed, each at most once.                                           *)
Orderly(l) ==
    \A i \in DOMAIN l :
        /\ l[i] \notin {"stopped", "none"}
        /\ \A j \in 1 .. i - 1 :
              l[j] \in Events /\ l[i] \in Events => l[j] = "started" /\ l[i] = "completed"

(* The tracker hears of a torrent that it was started, then that it was    *)
(* completed, each at most once, or only that it is complete; it is never  *)
(* told that one stops, and no request comes at the interval it asked for. *)
EventsInOrder == \A p \in Peers : Orderly(heard[p])

(* A peer whose request has left hears from the tracker, unless the data   *)
(* race has brought that down: no interleaving of the threads loses a      *)
(* request or an answer.                                                   *)
RequestsAreAnswered ==
    \A p \in Peers :
        (requests[p] # <<>>) ~> (socket[p] = "deleted" \/ p \in broken \/ down)

(* What the comment where TorrentClient calls startSeeding() says: the     *)
(* tracker is notified of a download that is completed.                    *)
SeedingIsAnnounced ==
    \A p \in Peers :
        (p \in finished \ lastTrackerRequest /\ socket[p] # "idle")
            ~> (down \/ \E i \in DOMAIN heard[p] : heard[p][i] = "completed")
=============================================================================
