------------------------------ MODULE Session ------------------------------
(***************************************************************************)
(* One run of the client program: the window starts and stops torrents     *)
(* (src/Client/mainwindow.cpp), each a TorrentClient with its life cycle   *)
(* (torrentclient.cpp), and all share the server for incoming connections  *)
(* (torrentserver.cpp) and the limit of the ConnectionManager.             *)
(*                                                                         *)
(* Everything is in the GUI thread and an action is one slot, except for   *)
(* stop() and torrentStopped(), which call each other through the signal   *)
(* stopped(): call is what the slot that runs is in the middle of, and     *)
(* nothing else happens until it has returned.                             *)
(*                                                                         *)
(* The sets of the ConnectionManager and of the RateController change at   *)
(* the same places and are one variable, slots.  What torrents download    *)
(* is in TorrentClient.tla, what the tracker hears in Tracker.tla.         *)
(***************************************************************************)
EXTENDS Integers, FiniteSets

CONSTANTS
    Torrents,        \* the TorrentClient objects made one after the other
    Connections,     \* the PeerWireClient objects
    MaxConnections   \* 250 in the code

ASSUME SessionAssumption ==
    /\ MaxConnections \in Nat \ {0} /\ IsFiniteSet(Connections)
    /\ "none" \notin Torrents /\ "server" \notin Torrents

VARIABLES
    isConn,       \* the window's flag: Start is disabled, Stop enabled
    jobs,         \* the window's list: its clients
    state,        \* TorrentClient::State; "Active" is Searching and all above
    verification, \* of the whole file: "none", "asked", "done"
    verifying,    \* a downloaded piece waits for its verdict
    tracker,      \* "off", "waiting" for the first answer, "answered"
    lastRequest,  \* TrackerClient::lastTrackerRequest
    connectingToClients, \* the timer that calls connectToPeers runs
    failed,       \* clients that reported an error to the window
    doomed,       \* clients with deleteLater() pending
    listening,    \* the server has a port
    clients,      \* the server's list of torrents
    connections,  \* a torrent's list of connections
    parent,       \* who owns a connection object: "none" when there is none
    handler,      \* whose slots its signals call
    link,         \* its socket: "none", "connecting", "up", "aborted"
    slots,        \* ConnectionManager::connections
    abandoned,    \* connections setPaused forgot while they were connecting
    call,         \* the calls of stop() and torrentStopped(), see above
    crashed       \* a deleted object was used

window  == <<isConn, jobs>>
torrent == <<state, verification, verifying, tracker, lastRequest, connectingToClients>>
server  == <<listening, clients>>
sockets == <<connections, parent, handler, link, slots>>
life    == <<failed, doomed, abandoned, crashed>>
vars    == <<window, torrent, server, sockets, life, call>>

States == {"none", "Idle", "Paused", "Stopping", "Preparing", "Active", "gone"}

NoCall == [client |-> "none", in |-> "none", for |-> "none"]
Calls  == {NoCall} \cup [client : Torrents, in : {"stop", "torrentStopped"},
                         for : {"removeTorrent", "tracker"}]

Alive == {t \in Torrents : state[t] \notin {"none", "gone"}}

(* Signals that are already posted are delivered before an object whose    *)
(* deletion is due goes; sockets, timers and clicks come after.            *)
Posted    == call = NoCall /\ ~crashed
EventLoop == Posted /\ doomed = {}

Init ==
    /\ isConn = FALSE /\ jobs = {}
    /\ state = [t \in Torrents |-> "none"]
    /\ verification = [t \in Torrents |-> "none"]
    /\ verifying = [t \in Torrents |-> FALSE]
    /\ tracker = [t \in Torrents |-> "off"]
    /\ lastRequest = [t \in Torrents |-> FALSE]
    /\ connectingToClients = [t \in Torrents |-> FALSE]
    /\ failed = {} /\ doomed = {} /\ abandoned = {} /\ crashed = FALSE
    /\ listening = FALSE /\ clients = {}
    /\ connections = [t \in Torrents |-> {}]
    /\ parent = [c \in Connections |-> "none"]
    /\ handler = [c \in Connections |-> "none"]
    /\ link = [c \in Connections |-> "none"]
    /\ slots = {}
    /\ call = NoCall

-----------------------------------------------------------------------------
(* Connections that go.                                                    *)

(* Mutant: the test is off by one.                                         *)
canAddOneMore(new) == Cardinality(slots) <= MaxConnections

canAddConnection(new) == Cardinality(slots \cup new) <= MaxConnections

(* Objects that do not exist and that no set still points to.              *)
Fresh == {c \in Connections : parent[c] = "none" /\ c \notin slots}

(* The objects of gone are deleted.                                        *)
Delete(gone) ==
    /\ parent' = [c \in Connections |-> IF c \in gone THEN "none" ELSE parent[c]]
    /\ handler' = [c \in Connections |-> IF c \in gone THEN "none" ELSE handler[c]]
    /\ link' = [c \in Connections |-> IF c \in gone THEN "none" ELSE link[c]]

(* TorrentClient::removeClient, for a connection that ended.               *)
removeClient(t, c) ==
    /\ Delete({c})
    /\ slots' = slots \ {c}
    /\ connections' = [connections EXCEPT ![t] = @ \ {c}]
    /\ connectingToClients' = [connectingToClients EXCEPT ![t] = TRUE]

(* Mutant: the slots of the connections that go are not given back.        *)
AbortAllUnfreed(t, freed) ==
    LET up == {c \in connections[t] : link[c] = "up"} IN
    /\ Delete(up)
    /\ slots' = slots \ freed
    /\ connections' = [connections EXCEPT ![t] = {}]
    /\ connectingToClients' = [connectingToClients EXCEPT ![t] = @ \/ up # {}]

(* The torrent aborts its connections and forgets them.  One that is       *)
(* connecting emits nothing when aborted: removeClient is not called, the  *)
(* object stays, and its inner socket goes on connecting.                  *)
AbortAll(t, freed) ==
    LET up == {c \in connections[t] : link[c] = "up"} IN
    /\ Delete(up)
    /\ slots' = slots \ (up \cup freed)
    /\ connections' = [connections EXCEPT ![t] = {}]
    /\ connectingToClients' = [connectingToClients EXCEPT ![t] = @ \/ up # {}]

-----------------------------------------------------------------------------
(* The window.                                                             *)

(* torrentStart with a file that addTorrent can parse: it becomes a job    *)
(* and its client is started.                                              *)
TorrentStart(t) ==
    /\ EventLoop /\ ~isConn /\ state[t] = "none"
    /\ isConn' = TRUE
    /\ jobs' = jobs \cup {t}
    /\ clients' = clients \cup {t}
    /\ state' = [state EXCEPT ![t] = "Preparing"]
    /\ verification' = [verification EXCEPT ![t] = "asked"]
    /\ UNCHANGED <<verifying, tracker, lastRequest, connectingToClients, listening,
                   sockets, life, call>>

(* The file cannot be parsed: there is no job, but isConn is set.          *)
TorrentStartFails ==
    /\ EventLoop /\ ~isConn /\ isConn' = TRUE
    /\ UNCHANGED <<jobs, torrent, server, sockets, life, call>>

(* torrentStop and removeTorrent, up to the call of stop().  A job whose   *)
(* client was deleted after an error is still in the list.                 *)
TorrentStop ==
    /\ EventLoop /\ isConn
    /\ IF jobs = {}
       THEN isConn' = FALSE /\ UNCHANGED <<call, crashed>>
       ELSE \E t \in jobs :
              /\ UNCHANGED isConn
              /\ IF state[t] = "gone"
                 THEN crashed' = TRUE /\ UNCHANGED call
                 ELSE /\ call' = [client |-> t, in |-> "stop", for |-> "removeTorrent"]
                      /\ UNCHANGED crashed
    /\ UNCHANGED <<jobs, torrent, server, sockets, failed, doomed, abandoned>>

(* Mutant: the job stays in the list.                                      *)
ReturnKeepsJob(t) ==
    /\ call' = NoCall
    /\ IF call.for = "removeTorrent"
       THEN isConn' = FALSE /\ UNCHANGED <<jobs, doomed>>
       ELSE doomed' = doomed \cup {t} /\ UNCHANGED window

(* stop() has returned: removeTorrent removes the job, torrentStopped      *)
(* schedules the deletion.                                                 *)
Return(t) ==
    /\ call' = NoCall
    /\ IF call.for = "removeTorrent"
       THEN jobs' = jobs \ {t} /\ isConn' = FALSE /\ UNCHANGED doomed
       ELSE doomed' = doomed \cup {t} /\ UNCHANGED window

(* Mutant: a client that is stopping is stopped once more.                 *)
StopTwice(t) ==
    /\ ~crashed /\ call.client = t /\ call.in = "stop"
    /\ clients' = clients \ {t}
    /\ AbortAll(t, connections[t])
    /\ IF state[t] = "Active"
       THEN /\ state' = [state EXCEPT ![t] = "Stopping"]
            /\ lastRequest' = [lastRequest EXCEPT ![t] = TRUE]
            /\ Return(t)
       ELSE /\ state' = [state EXCEPT ![t] = "Idle"]
            /\ call' = [call EXCEPT !.in = "torrentStopped"]
            /\ UNCHANGED <<lastRequest, window, doomed>>
    /\ UNCHANGED <<verification, verifying, tracker, listening, failed, abandoned, crashed>>

(* TorrentClient::stop.  Before the tracker was asked, stopped() is        *)
(* emitted at once, and calls torrentStopped.                              *)
stop(t) ==
    /\ ~crashed /\ call.client = t /\ call.in = "stop"
    /\ IF state[t] = "Stopping"
       THEN Return(t) /\ UNCHANGED <<torrent, clients, sockets>>
       ELSE /\ clients' = clients \ {t}
            /\ AbortAll(t, connections[t])
            /\ IF state[t] = "Active"
               THEN /\ state' = [state EXCEPT ![t] = "Stopping"]
                    /\ lastRequest' = [lastRequest EXCEPT ![t] = TRUE]
                    /\ Return(t)
               ELSE /\ state' = [state EXCEPT ![t] = "Idle"]
                    /\ call' = [call EXCEPT !.in = "torrentStopped"]
                    /\ UNCHANGED <<lastRequest, window, doomed>>
            /\ UNCHANGED <<verification, verifying, tracker>>
    /\ UNCHANGED <<listening, failed, abandoned, crashed>>

(* MainWindow::torrentStopped calls stop() before anything else.           *)
torrentStopped(t) ==
    /\ ~crashed /\ call.client = t /\ call.in = "torrentStopped"
    /\ call' = [call EXCEPT !.in = "stop"]
    /\ UNCHANGED <<window, torrent, server, sockets, life>>

(* The signal error() reaches the window while the client is a job:        *)
(* torrentError deletes the client and leaves the job.                     *)
torrentError(t) ==
    IF t \in jobs
    THEN failed' = failed \cup {t} /\ doomed' = doomed \cup {t}
    ELSE UNCHANGED <<failed, doomed>>

(* Mutant: the deletion stays due.                                         *)
DeleteClientAgain(t) ==
    /\ Posted /\ t \in doomed
    /\ state' = [state EXCEPT ![t] = "gone"]
    /\ UNCHANGED <<window, verification, verifying, tracker, lastRequest, connectingToClients,
                   server, sockets, life, call>>

(* A client is deleted: its children go, what others hold of it stays.     *)
DeleteClient(t) ==
    /\ Posted /\ t \in doomed
    /\ doomed' = doomed \ {t}
    /\ state' = [state EXCEPT ![t] = "gone"]
    /\ verification' = [verification EXCEPT ![t] = "none"]
    /\ verifying' = [verifying EXCEPT ![t] = FALSE]
    /\ tracker' = [tracker EXCEPT ![t] = "off"]
    /\ connectingToClients' = [connectingToClients EXCEPT ![t] = FALSE]
    /\ connections' = [connections EXCEPT ![t] = {}]
    /\ parent' = [c \in Connections |-> IF parent[c] = t THEN "none" ELSE parent[c]]
    /\ link' = [c \in Connections |-> IF parent[c] = t THEN "none" ELSE link[c]]
    /\ handler' = [c \in Connections |-> IF t \in {parent[c], handler[c]} THEN "none" ELSE handler[c]]
    /\ UNCHANGED <<window, lastRequest, server, slots, failed, abandoned, crashed, call>>

-----------------------------------------------------------------------------
(* The file manager's and the tracker's answers.                           *)

(* fullVerificationDone: whatever the state is by now, it becomes active   *)
(* and the tracker is asked, if the server can listen.                     *)
FullVerificationDone(t, port, reachable) ==
    /\ Posted /\ t \in Alive /\ verification[t] = "asked"
    /\ verification' = [verification EXCEPT ![t] = "done"]
    /\ listening' = (listening \/ port)
    /\ IF listening'
       THEN /\ state' = [state EXCEPT ![t] = "Active"]
            /\ tracker' = [tracker EXCEPT ![t] = IF reachable THEN "waiting" ELSE "off"]
            /\ UNCHANGED <<failed, doomed>>
       ELSE torrentError(t) /\ UNCHANGED <<state, tracker>>
    /\ UNCHANGED <<window, verifying, lastRequest, connectingToClients, clients, sockets,
                   abandoned, crashed, call>>

(* A peer sends the last block of a piece.                                 *)
VerifyPiece(t) ==
    /\ EventLoop /\ t \in Alive /\ ~verifying[t] /\ verification[t] = "done"
    /\ \E c \in slots : handler[c] = t /\ link[c] = "up"
    /\ verifying' = [verifying EXCEPT ![t] = TRUE]
    /\ UNCHANGED <<window, state, verification, tracker, lastRequest, connectingToClients,
                   server, sockets, life, call>>

(* pieceVerified: the first complete piece and the last one set the state, *)
(* whatever it is by now; other verdicts leave it alone.                   *)
PieceVerified(t, next) ==
    /\ Posted /\ t \in Alive /\ verifying[t]
    /\ next \in {state[t], "Active"}
    /\ verifying' = [verifying EXCEPT ![t] = FALSE]
    /\ state' = [state EXCEPT ![t] = next]
    /\ UNCHANGED <<window, verification, tracker, lastRequest, connectingToClients, server,
                   sockets, life, call>>

(* handleFileError and the setPaused(true) it calls.                       *)
HandleFileError(t) ==
    /\ Posted /\ t \in Alive /\ verification[t] # "none"
    /\ state[t] # "Paused"
    /\ state' = [state EXCEPT ![t] = "Paused"]
    /\ AbortAll(t, {})
    /\ abandoned' = abandoned \cup {c \in connections[t] : link[c] # "up"}
    /\ clients' = clients \ {t}
    /\ torrentError(t)
    /\ UNCHANGED <<window, verification, verifying, tracker, lastRequest, listening, crashed,
                   call>>

(* connectToPeers begins any number of connections there is room for.      *)
connectToPeers(t, new) ==
    IF state[t] \in {"Stopping", "Idle", "Paused"}
    THEN UNCHANGED sockets
    ELSE /\ new \subseteq Fresh /\ (new = {} \/ canAddConnection(new))
         /\ connections' = [connections EXCEPT ![t] = @ \cup new]
         /\ parent' = [c \in Connections |-> IF c \in new THEN t ELSE parent[c]]
         /\ handler' = [c \in Connections |-> IF c \in new THEN t ELSE handler[c]]
         /\ link' = [c \in Connections |-> IF c \in new THEN "connecting" ELSE link[c]]
         /\ slots' = slots \cup new

(* trackerResponse: the first answer after stop() emits stopped(), else    *)
(* the peers go to addToPeerList, which connects at once or soon.          *)
TrackerResponse(t, new) ==
    /\ EventLoop /\ t \in Alive /\ tracker[t] = "waiting"
    /\ tracker' = [tracker EXCEPT ![t] = "answered"]
    /\ IF lastRequest[t]
       THEN /\ call' = [client |-> t, in |-> "torrentStopped", for |-> "tracker"]
            /\ UNCHANGED <<sockets, connectingToClients>>
       ELSE /\ UNCHANGED call
            /\ IF state[t] = "Active"
               THEN \/ /\ connectToPeers(t, new)
                       /\ connectingToClients' = [connectingToClients EXCEPT ![t] = FALSE]
                    \/ /\ connectingToClients' = [connectingToClients EXCEPT ![t] = TRUE]
                       /\ UNCHANGED sockets
               ELSE UNCHANGED <<sockets, connectingToClients>>
    /\ UNCHANGED <<window, state, verification, verifying, lastRequest, server, life>>

(* Mutant: the state is not looked at.                                     *)
ConnectAnyway(t, new) ==
    /\ EventLoop /\ t \in Alive /\ connectingToClients[t]
    /\ connectingToClients' = [connectingToClients EXCEPT ![t] = FALSE]
    /\ new \subseteq Fresh /\ (new = {} \/ canAddConnection(new))
    /\ connections' = [connections EXCEPT ![t] = @ \cup new]
    /\ parent' = [c \in Connections |-> IF c \in new THEN t ELSE parent[c]]
    /\ handler' = [c \in Connections |-> IF c \in new THEN t ELSE handler[c]]
    /\ link' = [c \in Connections |-> IF c \in new THEN "connecting" ELSE link[c]]
    /\ slots' = slots \cup new
    /\ UNCHANGED <<window, state, verification, verifying, tracker, lastRequest, server, life,
                   call>>

ConnectorTimer(t, new) ==
    /\ EventLoop /\ t \in Alive /\ connectingToClients[t]
    /\ connectingToClients' = [connectingToClients EXCEPT ![t] = FALSE]
    /\ connectToPeers(t, new)
    /\ UNCHANGED <<window, state, verification, verifying, tracker, lastRequest, server, life,
                   call>>

-----------------------------------------------------------------------------
(* Sockets.                                                                *)

(* setupOutgoingConnection: handshake and pieces are sent, whether the     *)
(* torrent still lists the connection or not.                              *)
SetupOutgoingConnection(c) ==
    /\ EventLoop /\ link[c] = "connecting"
    /\ link' = [link EXCEPT ![c] = "up"]
    /\ UNCHANGED <<window, torrent, server, connections, parent, handler, slots, life, call>>

(* A torrent's connection is refused, closed by the peer, or aborted by    *)
(* itself: error() or disconnected() calls removeClient.                   *)
Disconnected(c) ==
    /\ EventLoop /\ handler[c] \in Torrents
    /\ removeClient(handler[c], c)
    /\ UNCHANGED <<window, state, verification, verifying, tracker, lastRequest, server, life,
                   call>>

(* TorrentServer::incomingConnection, for one that it accepts.             *)
IncomingConnection(c) ==
    /\ EventLoop /\ listening /\ c \in Fresh
    /\ canAddConnection({c}) /\ clients # {}
    /\ parent' = [parent EXCEPT ![c] = "server"]
    /\ handler' = [handler EXCEPT ![c] = "server"]
    /\ link' = [link EXCEPT ![c] = "up"]
    /\ slots' = slots \cup {c}
    /\ UNCHANGED <<window, torrent, server, connections, life, call>>

(* A waiting connection that times out or hears nonsense aborts itself:    *)
(* that emits disconnected(), which the server is not connected to.        *)
WaitingAborts(c) ==
    /\ EventLoop /\ handler[c] = "server" /\ link[c] = "up"
    /\ link' = [link EXCEPT ![c] = "aborted"]
    /\ UNCHANGED <<window, torrent, server, connections, parent, handler, slots, life, call>>

(* TorrentServer::removeClient, when the peer closes a waiting connection. *)
WaitingCloses(c) ==
    /\ EventLoop /\ handler[c] = "server"
    /\ Delete({c})
    /\ slots' = slots \ {c}
    /\ UNCHANGED <<window, torrent, server, connections, life, call>>

(* TorrentServer::processInfoHash: the torrent of that hash takes the      *)
(* connection over (setupIncomingConnection) if it is active; known says   *)
(* that there is one.  Clients in the list that were deleted are asked too.*)
ProcessInfoHash(c, known) ==
    /\ EventLoop /\ handler[c] = "server" /\ link[c] = "up"
    /\ LET found == {t \in clients : state[t] = "Active"} IN
       \/ /\ clients \ Alive # {} /\ crashed' = TRUE /\ UNCHANGED sockets
       \/ /\ known
          /\ \E t \in found :
               /\ handler' = [handler EXCEPT ![c] = t]
               /\ connections' = [connections EXCEPT ![t] = @ \cup {c}]
          /\ UNCHANGED <<parent, link, slots, crashed>>
       \/ /\ ~known \/ found = {}
          /\ Delete({c}) /\ slots' = slots \ {c}
          /\ UNCHANGED <<connections, crashed>>
    /\ UNCHANGED <<window, torrent, server, failed, doomed, abandoned, call>>

-----------------------------------------------------------------------------
Next ==
    \/ TorrentStartFails \/ TorrentStop
    \/ \E t \in Torrents :
         \/ TorrentStart(t) \/ stop(t) \/ torrentStopped(t) \/ DeleteClient(t)
         \/ \E port, reachable \in BOOLEAN : FullVerificationDone(t, port, reachable)
         \/ VerifyPiece(t) \/ HandleFileError(t)
         \/ \E next \in States : PieceVerified(t, next)
         \/ \E new \in SUBSET Connections : TrackerResponse(t, new) \/ ConnectorTimer(t, new)
    \/ \E c \in Connections :
         \/ SetupOutgoingConnection(c) \/ Disconnected(c)
         \/ IncomingConnection(c) \/ WaitingAborts(c) \/ WaitingCloses(c)
         \/ \E known \in BOOLEAN : ProcessInfoHash(c, known)

Spec == Init /\ [][Next]_vars

(* A call that has begun is carried on: the thread runs it.                *)
FairSpec == Spec /\ \A t \in Torrents : WF_vars(stop(t) \/ torrentStopped(t))

-----------------------------------------------------------------------------
(* Properties.                                                             *)

(* Types, and what an object that does not exist looks like.               *)
TypeOK ==
    /\ isConn \in BOOLEAN /\ jobs \subseteq Torrents
    /\ state \in [Torrents -> States]
    /\ verification \in [Torrents -> {"none", "asked", "done"}]
    /\ verifying \in [Torrents -> BOOLEAN]
    /\ tracker \in [Torrents -> {"off", "waiting", "answered"}]
    /\ lastRequest \in [Torrents -> BOOLEAN]
    /\ connectingToClients \in [Torrents -> BOOLEAN]
    /\ failed \subseteq Torrents /\ doomed \subseteq Alive
    /\ abandoned \subseteq Connections /\ crashed \in BOOLEAN
    /\ listening \in BOOLEAN /\ clients \subseteq Torrents
    /\ connections \in [Torrents -> SUBSET Connections]
    /\ parent \in [Connections -> {"none", "server"} \cup Torrents]
    /\ handler \in [Connections -> {"none", "server"} \cup Torrents]
    /\ link \in [Connections -> {"none", "connecting", "up", "aborted"}]
    /\ slots \subseteq Connections
    /\ call \in Calls

(* A torrent that is not active (paused, stopping, before its first        *)
(* verification, deleted) has no connection: none is begun by a late timer *)
(* or tracker's answer, none is handed over by the server, none is left    *)
(* behind by stop and setPaused.                                           *)
NothingConnectsWhileStopped ==
    \A t \in Torrents : state[t] # "Active" => connections[t] = {}

(* The limit counts every connection that a torrent works with, whoever    *)
(* opened it, and is kept; and one connection works for one torrent.       *)
ConnectionsAreCounted ==
    /\ Cardinality(slots) <= MaxConnections
    /\ \A t \in Torrents : \A c \in connections[t] : c \in slots /\ handler[c] = t

(* A slot belongs to a connection that exists, unless the torrent was      *)
(* paused while it was connecting: only that loses a slot for good.        *)
SlotsAreHeld ==
    \A c \in slots : parent[c] = "none" => c \in abandoned

(* What the window and the server hold of a deleted client was left there  *)
(* by an error, never by stopping it.                                      *)
ForgottenWhenGone ==
    \A t \in jobs \cup clients : state[t] = "gone" => t \in failed

(* Stopping a client that has started, or that is being stopped, returns:  *)
(* stop() and torrentStopped() do not call each other without end.         *)
StopReturnsOnceStarted ==
    \A t \in Torrents :
        (call.client = t /\ state[t] \in {"Active", "Stopping"}) ~> (call = NoCall)
=============================================================================
