---------------------------- MODULE SessionProofs ----------------------------
(***************************************************************************)
(* Theorems about a session, for every number of torrents and connections. *)
(***************************************************************************)
EXTENDS Session, FiniteSetTheorems, TLAPS

(* A torrent works with no connection before its first verification.       *)
NotStarted == {t \in Torrents : state[t] \in {"none", "Preparing"}}

StartedOnly ==
    /\ \A t \in NotStarted : ~connectingToClients[t]
    /\ \A c \in Connections : handler[c] \notin NotStarted

VerifiedFirst ==
    \A t \in Torrents :
        /\ verifying[t] => verification[t] = "done"
        /\ state[t] = "Active" => verification[t] = "done"
        /\ state[t] = "none" => verification[t] = "none"

(* Who owns a connection that works for a torrent, or that waits.          *)
Owned ==
    \A c \in Connections :
        /\ parent[c] \in Torrents => handler[c] = parent[c]
        /\ handler[c] = "server" => c \in slots

(* What a torrent's slots are for.                                         *)
Accounted ==
    \A c \in slots : parent[c] \in Torrents => c \in connections[parent[c]] \cup abandoned

(* A client whose deletion is due is done with its connections.            *)
DoomedAreIdle == \A t \in doomed : connections[t] = {}

(* Only a client that was stopped waits for the tracker's last answer, and *)
(* only such a client, or one that failed, is deleted.                     *)
LastRequests ==
    /\ \A t \in Torrents : lastRequest[t] => state[t] # "none" /\ t \notin jobs \cup clients
    /\ call.for = "tracker" => lastRequest[call.client]
    /\ \A t \in doomed : t \in failed \/ lastRequest[t]

(* ConnectionsAreCounted has two parts.                                    *)
LimitKept == Cardinality(slots) <= MaxConnections

WorkForOne ==
    \A t \in Torrents : \A c \in connections[t] : c \in slots /\ handler[c] = t

SessionInv ==
    /\ TypeOK /\ StartedOnly /\ VerifiedFirst /\ Owned /\ Accounted
    /\ DoomedAreIdle /\ LastRequests /\ LimitKept /\ WorkForOne
    /\ NothingConnectsWhileStopped /\ SlotsAreHeld /\ ForgottenWhenGone

-----------------------------------------------------------------------------
(* Giving slots back keeps the limit.                                      *)
LEMMA FewerSlots ==
    ASSUME slots \subseteq Connections, LimitKept, slots' \subseteq slots
    PROVE  LimitKept'
  <1>1. IsFiniteSet(slots) /\ IsFiniteSet(slots')
    BY FS_Subset, SessionAssumption
  <1>2. /\ Cardinality(slots) \in Nat /\ Cardinality(slots') \in Nat
        /\ Cardinality(slots') <= Cardinality(slots)
    BY <1>1, FS_Subset, FS_CardinalityType
  <1> QED
    BY <1>2, SessionAssumption DEF LimitKept

LEMMA InitSafe == Init => SessionInv
  <1> SUFFICES ASSUME Init PROVE SessionInv
    OBVIOUS
  <1>1. LimitKept
    BY FS_EmptySet, SessionAssumption DEF Init, LimitKept
  <1> QED
    BY <1>1, SessionAssumption
       DEF Init, SessionInv, TypeOK, StartedOnly, VerifiedFirst, Owned, Accounted,
           DoomedAreIdle, LastRequests, WorkForOne, NothingConnectsWhileStopped, SlotsAreHeld,
           ForgottenWhenGone, States, NoCall, Calls, NotStarted, Alive

-----------------------------------------------------------------------------
(* The window.                                                             *)
LEMMA StartSafe ==
    ASSUME SessionInv, NEW t \in Torrents, TorrentStart(t)
    PROVE  SessionInv'
  <1> USE SessionAssumption
         DEF SessionInv, TypeOK, TorrentStart, window, torrent, server, sockets, life
  <1>1. TypeOK'
    BY DEF States, NoCall, Calls, Alive
  <1>2. StartedOnly'
    BY DEF StartedOnly, NotStarted
  <1>3. VerifiedFirst'
    BY DEF VerifiedFirst
  <1>4. Owned'
    BY DEF Owned, WorkForOne
  <1>5. Accounted'
    BY DEF Accounted, Owned, WorkForOne
  <1>6. DoomedAreIdle'
    BY DEF DoomedAreIdle, NothingConnectsWhileStopped, VerifiedFirst, Alive
  <1>7. LastRequests'
    BY DEF LastRequests, Alive, NoCall, Calls
  <1>8. WorkForOne'
    BY DEF WorkForOne, Owned
  <1>9. NothingConnectsWhileStopped'
    BY DEF NothingConnectsWhileStopped, StartedOnly, NotStarted, Alive, States
  <1>10. SlotsAreHeld'
    BY DEF SlotsAreHeld, Accounted, DoomedAreIdle, NothingConnectsWhileStopped,
       VerifiedFirst
  <1>11. ForgottenWhenGone'
    BY DEF ForgottenWhenGone, LastRequests, Alive
  <1>12. LimitKept'
    BY FewerSlots
  <1> QED
    BY <1>1, <1>2, <1>3, <1>4, <1>5, <1>6, <1>7, <1>8, <1>9, <1>10, <1>11, <1>12 DEF
       SessionInv

LEMMA StartFailsSafe ==
    ASSUME SessionInv, TorrentStartFails
    PROVE  SessionInv'
  <1> USE SessionAssumption
         DEF SessionInv, TypeOK, TorrentStartFails, window, torrent, server, sockets,
             life
  <1>1. TypeOK'
    BY DEF States, NoCall, Calls, Alive
  <1>2. StartedOnly'
    BY DEF StartedOnly, NotStarted
  <1>3. VerifiedFirst'
    BY DEF VerifiedFirst
  <1>4. Owned'
    BY DEF Owned, WorkForOne
  <1>5. Accounted'
    BY DEF Accounted, Owned, WorkForOne
  <1>6. DoomedAreIdle'
    BY DEF DoomedAreIdle, NothingConnectsWhileStopped, VerifiedFirst, Alive
  <1>7. LastRequests'
    BY DEF LastRequests, Alive, NoCall, Calls
  <1>8. WorkForOne'
    BY DEF WorkForOne, Owned
  <1>9. NothingConnectsWhileStopped'
    BY DEF NothingConnectsWhileStopped, StartedOnly, NotStarted, Alive, States
  <1>10. SlotsAreHeld'
    BY DEF SlotsAreHeld, Accounted, DoomedAreIdle, NothingConnectsWhileStopped,
       VerifiedFirst
  <1>11. ForgottenWhenGone'
    BY DEF ForgottenWhenGone, LastRequests, Alive
  <1>12. LimitKept'
    BY FewerSlots
  <1> QED
    BY <1>1, <1>2, <1>3, <1>4, <1>5, <1>6, <1>7, <1>8, <1>9, <1>10, <1>11, <1>12 DEF
       SessionInv

LEMMA TorrentStopSafe ==
    ASSUME SessionInv, TorrentStop
    PROVE  SessionInv'
  <1> USE SessionAssumption
         DEF SessionInv, TypeOK, TorrentStop, window, torrent, server, sockets, life
  <1>1. TypeOK'
    <2>1. call' \in Calls
      <3>1. \A u \in Torrents : [client |-> u, in |-> "stop", for |-> "removeTorrent"] \in Calls
        BY DEF Calls
      <3>2. CASE UNCHANGED call
        BY <3>2
      <3>3. CASE \E u \in jobs :
                   call' = [client |-> u, in |-> "stop", for |-> "removeTorrent"]
        BY <3>1, <3>3
      <3> QED
        BY <3>2, <3>3
    <2> QED
      BY <2>1 DEF States, Alive
  <1>2. StartedOnly'
    BY DEF StartedOnly, NotStarted
  <1>3. VerifiedFirst'
    BY DEF VerifiedFirst
  <1>4. Owned'
    BY DEF Owned, WorkForOne
  <1>5. Accounted'
    BY DEF Accounted, Owned, WorkForOne
  <1>6. DoomedAreIdle'
    BY DEF DoomedAreIdle, NothingConnectsWhileStopped, VerifiedFirst, Alive
  <1>7. LastRequests'
    <2>1. CASE UNCHANGED call
      BY <2>1 DEF LastRequests
    <2>2. CASE \E u \in jobs :
                 call' = [client |-> u, in |-> "stop", for |-> "removeTorrent"]
      BY <2>2 DEF LastRequests
    <2> QED
      BY <2>1, <2>2
  <1>8. WorkForOne'
    BY DEF WorkForOne, Owned
  <1>9. NothingConnectsWhileStopped'
    BY DEF NothingConnectsWhileStopped, StartedOnly, NotStarted, Alive, States
  <1>10. SlotsAreHeld'
    BY DEF SlotsAreHeld, Accounted, DoomedAreIdle, NothingConnectsWhileStopped,
       VerifiedFirst
  <1>11. ForgottenWhenGone'
    BY DEF ForgottenWhenGone, LastRequests, Alive
  <1>12. LimitKept'
    BY FewerSlots
  <1> QED
    BY <1>1, <1>2, <1>3, <1>4, <1>5, <1>6, <1>7, <1>8, <1>9, <1>10, <1>11, <1>12 DEF
       SessionInv

-----------------------------------------------------------------------------
(* stop() and the slots it calls.                                          *)
LEMMA StopSafe ==
    ASSUME SessionInv, NEW t \in Torrents, stop(t)
    PROVE  SessionInv'
  <1> USE SessionAssumption
         DEF SessionInv, TypeOK, stop, Return, AbortAll, Delete, window, torrent,
             server, sockets, life
  <1>1. TypeOK'
    <2>1. call' \in Calls
      <3>1. call \in Calls /\ call # NoCall
        BY DEF NoCall
      <3>2. [call EXCEPT !.in = "torrentStopped"] \in Calls
        BY <3>1 DEF Calls
      <3>3. NoCall \in Calls
        BY DEF Calls
      <3> QED
        BY <3>2, <3>3
    <2>2. doomed' \subseteq Alive'
      BY DEF Alive, States
    <2>3. state' \in [Torrents -> States] /\ jobs' \subseteq Torrents
      BY DEF States
    <2>4. UNCHANGED sockets \/ AbortAll(t, connections[t])
      OBVIOUS
    <2>5. /\ connections' \in [Torrents -> SUBSET Connections]
          /\ parent' \in [Connections -> {"none", "server"} \cup Torrents]
          /\ handler' \in [Connections -> {"none", "server"} \cup Torrents]
          /\ link' \in [Connections -> {"none", "connecting", "up", "aborted"}]
          /\ slots' \subseteq Connections
      BY <2>4
    <2>6. /\ connectingToClients' \in [Torrents -> BOOLEAN]
          /\ lastRequest' \in [Torrents -> BOOLEAN] /\ isConn' \in BOOLEAN
      <3>1. CASE state[t] = "Stopping"
        BY <3>1
      <3>2. CASE state[t] # "Stopping"
        <4>1. AbortAll(t, connections[t])
          BY <3>2
        <4>2. connectingToClients' \in [Torrents -> BOOLEAN]
          BY <4>1
        <4>3. lastRequest' \in [Torrents -> BOOLEAN]
          <5>1. lastRequest' = lastRequest \/ lastRequest' = [lastRequest EXCEPT ![t] = TRUE]
            BY <3>2
          <5>2. lastRequest \in [Torrents -> BOOLEAN]
            OBVIOUS
          <5> HIDE DEF SessionInv, TypeOK, stop
          <5> QED
            BY <5>1, <5>2
        <4>4. isConn' \in BOOLEAN
          BY <3>2
        <4> QED
          BY <4>2, <4>3, <4>4
      <3> QED
        BY <3>1, <3>2
    <2>7. clients' \subseteq Torrents /\ UNCHANGED <<verification, verifying, tracker>>
      OBVIOUS
    <2>8. UNCHANGED <<failed, abandoned, crashed, listening>>
      BY <2>3, <2>6
    <2> QED
      BY <2>1, <2>2, <2>3, <2>5, <2>6, <2>7, <2>8
  <1>2. StartedOnly'
    BY DEF StartedOnly, NotStarted
  <1>3. VerifiedFirst'
    BY DEF VerifiedFirst
  <1>4. Owned'
    BY DEF Owned, WorkForOne
  <1>5. Accounted'
    BY DEF Accounted, Owned, WorkForOne
  <1>6. DoomedAreIdle'
    BY DEF DoomedAreIdle, NothingConnectsWhileStopped, VerifiedFirst, Alive
  <1>7. LastRequests'
    BY DEF LastRequests, Alive, NoCall, Calls
  <1>8. WorkForOne'
    BY DEF WorkForOne, Owned
  <1>9. NothingConnectsWhileStopped'
    BY DEF NothingConnectsWhileStopped, StartedOnly, NotStarted, Alive, States
  <1>10. SlotsAreHeld'
    BY DEF SlotsAreHeld, Accounted, DoomedAreIdle, NothingConnectsWhileStopped,
       VerifiedFirst
  <1>11. ForgottenWhenGone'
    BY DEF ForgottenWhenGone, LastRequests, Alive
  <1>12. LimitKept'
    BY FewerSlots
  <1> QED
    BY <1>1, <1>2, <1>3, <1>4, <1>5, <1>6, <1>7, <1>8, <1>9, <1>10, <1>11, <1>12 DEF
       SessionInv

LEMMA StoppedSafe ==
    ASSUME SessionInv, NEW t \in Torrents, torrentStopped(t)
    PROVE  SessionInv'
  <1> USE SessionAssumption
         DEF SessionInv, TypeOK, torrentStopped, window, torrent, server, sockets,
             life
  <1>1. TypeOK'
    BY DEF States, NoCall, Calls, Alive
  <1>2. StartedOnly'
    BY DEF StartedOnly, NotStarted
  <1>3. VerifiedFirst'
    BY DEF VerifiedFirst
  <1>4. Owned'
    BY DEF Owned, WorkForOne
  <1>5. Accounted'
    BY DEF Accounted, Owned, WorkForOne
  <1>6. DoomedAreIdle'
    BY DEF DoomedAreIdle, NothingConnectsWhileStopped, VerifiedFirst, Alive
  <1>7. LastRequests'
    BY DEF LastRequests, Alive, NoCall, Calls
  <1>8. WorkForOne'
    BY DEF WorkForOne, Owned
  <1>9. NothingConnectsWhileStopped'
    BY DEF NothingConnectsWhileStopped, StartedOnly, NotStarted, Alive, States
  <1>10. SlotsAreHeld'
    BY DEF SlotsAreHeld, Accounted, DoomedAreIdle, NothingConnectsWhileStopped,
       VerifiedFirst
  <1>11. ForgottenWhenGone'
    BY DEF ForgottenWhenGone, LastRequests, Alive
  <1>12. LimitKept'
    BY FewerSlots
  <1> QED
    BY <1>1, <1>2, <1>3, <1>4, <1>5, <1>6, <1>7, <1>8, <1>9, <1>10, <1>11, <1>12 DEF
       SessionInv

-----------------------------------------------------------------------------
(* The deletion of a client.                                               *)
LEMMA DeleteSafe ==
    ASSUME SessionInv, NEW t \in Torrents, DeleteClient(t)
    PROVE  SessionInv'
  <1> USE SessionAssumption
         DEF SessionInv, TypeOK, DeleteClient, Posted, window, torrent, server,
             sockets, life
  <1>1. TypeOK'
    BY DEF States, NoCall, Calls, Alive
  <1>2. StartedOnly'
    BY DEF StartedOnly, NotStarted
  <1>3. VerifiedFirst'
    BY DEF VerifiedFirst
  <1>4. Owned'
    BY DEF Owned, WorkForOne
  <1>5. Accounted'
    BY DEF Accounted, Owned, WorkForOne
  <1>6. DoomedAreIdle'
    BY DEF DoomedAreIdle, NothingConnectsWhileStopped, VerifiedFirst, Alive
  <1>7. LastRequests'
    BY DEF LastRequests, Alive, NoCall, Calls
  <1>8. WorkForOne'
    BY DEF WorkForOne, Owned
  <1>9. NothingConnectsWhileStopped'
    BY DEF NothingConnectsWhileStopped, StartedOnly, NotStarted, Alive, States
  <1>10. SlotsAreHeld'
    BY DEF SlotsAreHeld, Accounted, DoomedAreIdle, NothingConnectsWhileStopped,
       VerifiedFirst
  <1>11. ForgottenWhenGone'
    BY DEF ForgottenWhenGone, LastRequests, Alive
  <1>12. LimitKept'
    BY FewerSlots
  <1> QED
    BY <1>1, <1>2, <1>3, <1>4, <1>5, <1>6, <1>7, <1>8, <1>9, <1>10, <1>11, <1>12 DEF
       SessionInv

-----------------------------------------------------------------------------
(* The file manager's and the tracker's answers.                           *)
LEMMA VerificationSafe ==
    ASSUME SessionInv, NEW t \in Torrents, NEW port \in BOOLEAN, NEW reachable \in
           BOOLEAN, FullVerificationDone(t, port, reachable)
    PROVE  SessionInv'
  <1> USE SessionAssumption
         DEF SessionInv, TypeOK, FullVerificationDone, Posted, torrentError, window,
             torrent, server, sockets, life
  <1>1. TypeOK'
    BY DEF States, NoCall, Calls, Alive
  <1>2. StartedOnly'
    BY DEF StartedOnly, NotStarted
  <1>3. VerifiedFirst'
    BY DEF VerifiedFirst
  <1>4. Owned'
    BY DEF Owned, WorkForOne
  <1>5. Accounted'
    BY DEF Accounted, Owned, WorkForOne
  <1>6. DoomedAreIdle'
    BY DEF DoomedAreIdle, NothingConnectsWhileStopped, VerifiedFirst, Alive
  <1>7. LastRequests'
    BY DEF LastRequests, Alive, NoCall, Calls
  <1>8. WorkForOne'
    BY DEF WorkForOne, Owned
  <1>9. NothingConnectsWhileStopped'
    BY DEF NothingConnectsWhileStopped, StartedOnly, NotStarted, Alive, States
  <1>10. SlotsAreHeld'
    BY DEF SlotsAreHeld, Accounted, DoomedAreIdle, NothingConnectsWhileStopped,
       VerifiedFirst
  <1>11. ForgottenWhenGone'
    BY DEF ForgottenWhenGone, LastRequests, Alive
  <1>12. LimitKept'
    BY FewerSlots
  <1> QED
    BY <1>1, <1>2, <1>3, <1>4, <1>5, <1>6, <1>7, <1>8, <1>9, <1>10, <1>11, <1>12 DEF
       SessionInv

LEMMA VerifyPieceSafe ==
    ASSUME SessionInv, NEW t \in Torrents, VerifyPiece(t)
    PROVE  SessionInv'
  <1> USE SessionAssumption
         DEF SessionInv, TypeOK, VerifyPiece, EventLoop, Posted, window, torrent,
             server, sockets, life
  <1>1. TypeOK'
    BY DEF States, NoCall, Calls, Alive
  <1>2. StartedOnly'
    BY DEF StartedOnly, NotStarted
  <1>3. VerifiedFirst'
    BY DEF VerifiedFirst
  <1>4. Owned'
    BY DEF Owned, WorkForOne
  <1>5. Accounted'
    BY DEF Accounted, Owned, WorkForOne
  <1>6. DoomedAreIdle'
    BY DEF DoomedAreIdle, NothingConnectsWhileStopped, VerifiedFirst, Alive
  <1>7. LastRequests'
    BY DEF LastRequests, Alive, NoCall, Calls
  <1>8. WorkForOne'
    BY DEF WorkForOne, Owned
  <1>9. NothingConnectsWhileStopped'
    BY DEF NothingConnectsWhileStopped, StartedOnly, NotStarted, Alive, States
  <1>10. SlotsAreHeld'
    BY DEF SlotsAreHeld, Accounted, DoomedAreIdle, NothingConnectsWhileStopped,
       VerifiedFirst
  <1>11. ForgottenWhenGone'
    BY DEF ForgottenWhenGone, LastRequests, Alive
  <1>12. LimitKept'
    BY FewerSlots
  <1> QED
    BY <1>1, <1>2, <1>3, <1>4, <1>5, <1>6, <1>7, <1>8, <1>9, <1>10, <1>11, <1>12 DEF
       SessionInv

LEMMA FileErrorSafe ==
    ASSUME SessionInv, NEW t \in Torrents, HandleFileError(t)
    PROVE  SessionInv'
  <1> USE SessionAssumption
         DEF SessionInv, TypeOK, HandleFileError, Posted, AbortAll, Delete,
             torrentError, window, torrent, server, sockets, life
  <1>1. TypeOK'
    BY DEF States, NoCall, Calls, Alive
  <1>2. StartedOnly'
    BY DEF StartedOnly, NotStarted
  <1>3. VerifiedFirst'
    BY DEF VerifiedFirst
  <1>4. Owned'
    BY DEF Owned, WorkForOne
  <1>5. Accounted'
    BY DEF Accounted, Owned, WorkForOne
  <1>6. DoomedAreIdle'
    BY DEF DoomedAreIdle, NothingConnectsWhileStopped, VerifiedFirst, Alive
  <1>7. LastRequests'
    BY DEF LastRequests, Alive, NoCall, Calls
  <1>8. WorkForOne'
    BY DEF WorkForOne, Owned
  <1>9. NothingConnectsWhileStopped'
    BY DEF NothingConnectsWhileStopped, StartedOnly, NotStarted, Alive, States
  <1>10. SlotsAreHeld'
    BY DEF SlotsAreHeld, Accounted, DoomedAreIdle, NothingConnectsWhileStopped,
       VerifiedFirst
  <1>11. ForgottenWhenGone'
    BY DEF ForgottenWhenGone, LastRequests, Alive
  <1>12. LimitKept'
    BY FewerSlots
  <1> QED
    BY <1>1, <1>2, <1>3, <1>4, <1>5, <1>6, <1>7, <1>8, <1>9, <1>10, <1>11, <1>12 DEF
       SessionInv

LEMMA PieceVerifiedSafe ==
    ASSUME SessionInv, NEW t \in Torrents, NEW next \in States, PieceVerified(t, next)
    PROVE  SessionInv'
  <1> USE SessionAssumption
         DEF SessionInv, TypeOK, PieceVerified, Posted, window, torrent, server,
             sockets, life
  <1>1. TypeOK'
    BY DEF States, NoCall, Calls, Alive
  <1>2. StartedOnly'
    BY DEF StartedOnly, NotStarted
  <1>3. VerifiedFirst'
    BY DEF VerifiedFirst
  <1>4. Owned'
    BY DEF Owned, WorkForOne
  <1>5. Accounted'
    BY DEF Accounted, Owned, WorkForOne
  <1>6. DoomedAreIdle'
    BY DEF DoomedAreIdle, NothingConnectsWhileStopped, VerifiedFirst, Alive
  <1>7. LastRequests'
    BY DEF LastRequests, Alive, NoCall, Calls
  <1>8. WorkForOne'
    BY DEF WorkForOne, Owned
  <1>9. NothingConnectsWhileStopped'
    BY DEF NothingConnectsWhileStopped, StartedOnly, NotStarted, Alive, States
  <1>10. SlotsAreHeld'
    BY DEF SlotsAreHeld, Accounted, DoomedAreIdle, NothingConnectsWhileStopped,
       VerifiedFirst
  <1>11. ForgottenWhenGone'
    BY DEF ForgottenWhenGone, LastRequests, Alive
  <1>12. LimitKept'
    BY FewerSlots
  <1> QED
    BY <1>1, <1>2, <1>3, <1>4, <1>5, <1>6, <1>7, <1>8, <1>9, <1>10, <1>11, <1>12 DEF
       SessionInv

LEMMA TrackerResponseSafe ==
    ASSUME SessionInv, NEW t \in Torrents, NEW new \in SUBSET Connections,
           TrackerResponse(t, new)
    PROVE  SessionInv'
  <1> USE SessionAssumption
         DEF SessionInv, TypeOK, TrackerResponse, connectToPeers, Fresh, EventLoop,
             Posted, window, torrent, server, sockets, life
  <1>1. TypeOK'
    <2>1. call' \in Calls
      <3>1. [client |-> t, in |-> "torrentStopped", for |-> "tracker"] \in Calls
        BY DEF Calls
      <3> QED
        BY <3>1
    <2>2. CASE UNCHANGED sockets
      BY <2>1, <2>2 DEF Alive
    <2>3. CASE connectToPeers(t, new)
      <3>1. /\ connections' \in [Torrents -> SUBSET Connections]
            /\ parent' \in [Connections -> {"none", "server"} \cup Torrents]
            /\ handler' \in [Connections -> {"none", "server"} \cup Torrents]
            /\ link' \in [Connections -> {"none", "connecting", "up", "aborted"}]
            /\ slots' \subseteq Connections
        BY <2>3
      <3> QED
        BY <2>1, <3>1 DEF Alive
    <2> QED
      BY <2>2, <2>3
  <1>2. StartedOnly'
    BY DEF StartedOnly, NotStarted
  <1>3. VerifiedFirst'
    BY DEF VerifiedFirst
  <1>4. Owned'
    BY DEF Owned, WorkForOne
  <1>5. Accounted'
    BY DEF Accounted, Owned, WorkForOne
  <1>6. DoomedAreIdle'
    BY DEF DoomedAreIdle, NothingConnectsWhileStopped, VerifiedFirst, Alive
  <1>7. LastRequests'
    BY DEF LastRequests, Alive, NoCall, Calls
  <1>8. WorkForOne'
    BY DEF WorkForOne, Owned
  <1>9. NothingConnectsWhileStopped'
    BY DEF NothingConnectsWhileStopped, StartedOnly, NotStarted, Alive, States
  <1>10. SlotsAreHeld'
    BY DEF SlotsAreHeld, Accounted, DoomedAreIdle, NothingConnectsWhileStopped,
       VerifiedFirst
  <1>11. ForgottenWhenGone'
    BY DEF ForgottenWhenGone, LastRequests, Alive
  <1>12. LimitKept'
    BY FewerSlots DEF LimitKept, canAddConnection
  <1> QED
    BY <1>1, <1>2, <1>3, <1>4, <1>5, <1>6, <1>7, <1>8, <1>9, <1>10, <1>11, <1>12 DEF
       SessionInv

LEMMA ConnectorSafe ==
    ASSUME SessionInv, NEW t \in Torrents, NEW new \in SUBSET Connections,
           ConnectorTimer(t, new)
    PROVE  SessionInv'
  <1> USE SessionAssumption
         DEF SessionInv, TypeOK, ConnectorTimer, connectToPeers, Fresh, EventLoop,
             Posted, window, torrent, server, sockets, life
  <1>1. TypeOK'
    BY DEF States, NoCall, Calls, Alive
  <1>2. StartedOnly'
    BY DEF StartedOnly, NotStarted
  <1>3. VerifiedFirst'
    BY DEF VerifiedFirst
  <1>4. Owned'
    BY DEF Owned, WorkForOne
  <1>5. Accounted'
    BY DEF Accounted, Owned, WorkForOne
  <1>6. DoomedAreIdle'
    BY DEF DoomedAreIdle, NothingConnectsWhileStopped, VerifiedFirst, Alive
  <1>7. LastRequests'
    BY DEF LastRequests, Alive, NoCall, Calls
  <1>8. WorkForOne'
    BY DEF WorkForOne, Owned
  <1>9. NothingConnectsWhileStopped'
    BY DEF NothingConnectsWhileStopped, StartedOnly, NotStarted, Alive, States
  <1>10. SlotsAreHeld'
    BY DEF SlotsAreHeld, Accounted, DoomedAreIdle, NothingConnectsWhileStopped,
       VerifiedFirst
  <1>11. ForgottenWhenGone'
    BY DEF ForgottenWhenGone, LastRequests, Alive
  <1>12. LimitKept'
    BY FewerSlots DEF LimitKept, canAddConnection
  <1> QED
    BY <1>1, <1>2, <1>3, <1>4, <1>5, <1>6, <1>7, <1>8, <1>9, <1>10, <1>11, <1>12 DEF
       SessionInv

-----------------------------------------------------------------------------
(* Sockets.                                                                *)
LEMMA SetupSafe ==
    ASSUME SessionInv, NEW c \in Connections, SetupOutgoingConnection(c)
    PROVE  SessionInv'
  <1> USE SessionAssumption
         DEF SessionInv, TypeOK, SetupOutgoingConnection, EventLoop, Posted, window,
             torrent, server, sockets, life
  <1>1. TypeOK'
    BY DEF States, NoCall, Calls, Alive
  <1>2. StartedOnly'
    BY DEF StartedOnly, NotStarted
  <1>3. VerifiedFirst'
    BY DEF VerifiedFirst
  <1>4. Owned'
    BY DEF Owned, WorkForOne
  <1>5. Accounted'
    BY DEF Accounted, Owned, WorkForOne
  <1>6. DoomedAreIdle'
    BY DEF DoomedAreIdle, NothingConnectsWhileStopped, VerifiedFirst, Alive
  <1>7. LastRequests'
    BY DEF LastRequests, Alive, NoCall, Calls
  <1>8. WorkForOne'
    BY DEF WorkForOne, Owned
  <1>9. NothingConnectsWhileStopped'
    BY DEF NothingConnectsWhileStopped, StartedOnly, NotStarted, Alive, States
  <1>10. SlotsAreHeld'
    BY DEF SlotsAreHeld, Accounted, DoomedAreIdle, NothingConnectsWhileStopped,
       VerifiedFirst
  <1>11. ForgottenWhenGone'
    BY DEF ForgottenWhenGone, LastRequests, Alive
  <1>12. LimitKept'
    BY FewerSlots
  <1> QED
    BY <1>1, <1>2, <1>3, <1>4, <1>5, <1>6, <1>7, <1>8, <1>9, <1>10, <1>11, <1>12 DEF
       SessionInv

LEMMA DisconnectedSafe ==
    ASSUME SessionInv, NEW c \in Connections, Disconnected(c)
    PROVE  SessionInv'
  <1> USE SessionAssumption
         DEF SessionInv, TypeOK, Disconnected, removeClient, Delete, EventLoop,
             Posted, window, torrent, server, sockets, life
  <1>1. TypeOK'
    BY DEF States, NoCall, Calls, Alive
  <1>2. StartedOnly'
    BY DEF StartedOnly, NotStarted
  <1>3. VerifiedFirst'
    BY DEF VerifiedFirst
  <1>4. Owned'
    BY DEF Owned, WorkForOne
  <1>5. Accounted'
    BY DEF Accounted, Owned, WorkForOne
  <1>6. DoomedAreIdle'
    BY DEF DoomedAreIdle, NothingConnectsWhileStopped, VerifiedFirst, Alive
  <1>7. LastRequests'
    BY DEF LastRequests, Alive, NoCall, Calls
  <1>8. WorkForOne'
    BY DEF WorkForOne, Owned
  <1>9. NothingConnectsWhileStopped'
    BY DEF NothingConnectsWhileStopped, StartedOnly, NotStarted, Alive, States
  <1>10. SlotsAreHeld'
    BY DEF SlotsAreHeld, Accounted, DoomedAreIdle, NothingConnectsWhileStopped,
       VerifiedFirst
  <1>11. ForgottenWhenGone'
    BY DEF ForgottenWhenGone, LastRequests, Alive
  <1>12. LimitKept'
    BY FewerSlots
  <1> QED
    BY <1>1, <1>2, <1>3, <1>4, <1>5, <1>6, <1>7, <1>8, <1>9, <1>10, <1>11, <1>12 DEF
       SessionInv

LEMMA IncomingSafe ==
    ASSUME SessionInv, NEW c \in Connections, IncomingConnection(c)
    PROVE  SessionInv'
  <1> USE SessionAssumption
         DEF SessionInv, TypeOK, IncomingConnection, Fresh, EventLoop, Posted, window,
             torrent, server, sockets, life
  <1>1. TypeOK'
    BY DEF States, NoCall, Calls, Alive
  <1>2. StartedOnly'
    BY DEF StartedOnly, NotStarted
  <1>3. VerifiedFirst'
    BY DEF VerifiedFirst
  <1>4. Owned'
    BY DEF Owned, WorkForOne
  <1>5. Accounted'
    BY DEF Accounted, Owned, WorkForOne
  <1>6. DoomedAreIdle'
    BY DEF DoomedAreIdle, NothingConnectsWhileStopped, VerifiedFirst, Alive
  <1>7. LastRequests'
    BY DEF LastRequests, Alive, NoCall, Calls
  <1>8. WorkForOne'
    BY DEF WorkForOne, Owned
  <1>9. NothingConnectsWhileStopped'
    BY DEF NothingConnectsWhileStopped, StartedOnly, NotStarted, Alive, States
  <1>10. SlotsAreHeld'
    BY DEF SlotsAreHeld, Accounted, DoomedAreIdle, NothingConnectsWhileStopped,
       VerifiedFirst
  <1>11. ForgottenWhenGone'
    BY DEF ForgottenWhenGone, LastRequests, Alive
  <1>12. LimitKept'
    BY DEF LimitKept, canAddConnection
  <1> QED
    BY <1>1, <1>2, <1>3, <1>4, <1>5, <1>6, <1>7, <1>8, <1>9, <1>10, <1>11, <1>12 DEF
       SessionInv

LEMMA WaitingAbortsSafe ==
    ASSUME SessionInv, NEW c \in Connections, WaitingAborts(c)
    PROVE  SessionInv'
  <1> USE SessionAssumption
         DEF SessionInv, TypeOK, WaitingAborts, EventLoop, Posted, window, torrent,
             server, sockets, life
  <1>1. TypeOK'
    BY DEF States, NoCall, Calls, Alive
  <1>2. StartedOnly'
    BY DEF StartedOnly, NotStarted
  <1>3. VerifiedFirst'
    BY DEF VerifiedFirst
  <1>4. Owned'
    BY DEF Owned, WorkForOne
  <1>5. Accounted'
    BY DEF Accounted, Owned, WorkForOne
  <1>6. DoomedAreIdle'
    BY DEF DoomedAreIdle, NothingConnectsWhileStopped, VerifiedFirst, Alive
  <1>7. LastRequests'
    BY DEF LastRequests, Alive, NoCall, Calls
  <1>8. WorkForOne'
    BY DEF WorkForOne, Owned
  <1>9. NothingConnectsWhileStopped'
    BY DEF NothingConnectsWhileStopped, StartedOnly, NotStarted, Alive, States
  <1>10. SlotsAreHeld'
    BY DEF SlotsAreHeld, Accounted, DoomedAreIdle, NothingConnectsWhileStopped,
       VerifiedFirst
  <1>11. ForgottenWhenGone'
    BY DEF ForgottenWhenGone, LastRequests, Alive
  <1>12. LimitKept'
    BY FewerSlots
  <1> QED
    BY <1>1, <1>2, <1>3, <1>4, <1>5, <1>6, <1>7, <1>8, <1>9, <1>10, <1>11, <1>12 DEF
       SessionInv

LEMMA WaitingClosesSafe ==
    ASSUME SessionInv, NEW c \in Connections, WaitingCloses(c)
    PROVE  SessionInv'
  <1> USE SessionAssumption
         DEF SessionInv, TypeOK, WaitingCloses, Delete, EventLoop, Posted, window,
             torrent, server, sockets, life
  <1>1. TypeOK'
    BY DEF States, NoCall, Calls, Alive
  <1>2. StartedOnly'
    BY DEF StartedOnly, NotStarted
  <1>3. VerifiedFirst'
    BY DEF VerifiedFirst
  <1>4. Owned'
    BY DEF Owned, WorkForOne
  <1>5. Accounted'
    BY DEF Accounted, Owned, WorkForOne
  <1>6. DoomedAreIdle'
    BY DEF DoomedAreIdle, NothingConnectsWhileStopped, VerifiedFirst, Alive
  <1>7. LastRequests'
    BY DEF LastRequests, Alive, NoCall, Calls
  <1>8. WorkForOne'
    BY DEF WorkForOne, Owned
  <1>9. NothingConnectsWhileStopped'
    BY DEF NothingConnectsWhileStopped, StartedOnly, NotStarted, Alive, States
  <1>10. SlotsAreHeld'
    BY DEF SlotsAreHeld, Accounted, DoomedAreIdle, NothingConnectsWhileStopped,
       VerifiedFirst
  <1>11. ForgottenWhenGone'
    BY DEF ForgottenWhenGone, LastRequests, Alive
  <1>12. LimitKept'
    BY FewerSlots
  <1> QED
    BY <1>1, <1>2, <1>3, <1>4, <1>5, <1>6, <1>7, <1>8, <1>9, <1>10, <1>11, <1>12 DEF
       SessionInv

LEMMA HandOverSafe ==
    ASSUME SessionInv, NEW c \in Connections, NEW known \in BOOLEAN,
           ProcessInfoHash(c, known)
    PROVE  SessionInv'
  <1> USE SessionAssumption
         DEF SessionInv, TypeOK, ProcessInfoHash, Delete, EventLoop, Posted, window,
             torrent, server, sockets, life
  <1>1. TypeOK'
    <2>1. CASE UNCHANGED sockets /\ crashed' \in BOOLEAN
      BY <2>1 DEF Alive
    <2>2. ASSUME NEW t \in Torrents, handler' = [handler EXCEPT ![c] = t],
                 connections' = [connections EXCEPT ![t] = @ \cup {c}],
                 UNCHANGED <<parent, link, slots, crashed>>
          PROVE  TypeOK'
      BY <2>2 DEF Alive
    <2>3. CASE Delete({c}) /\ slots' = slots \ {c} /\ UNCHANGED <<connections, crashed>>
      BY <2>3 DEF Alive
    <2> QED
      BY <2>1, <2>2, <2>3
  <1>2. StartedOnly'
    BY DEF StartedOnly, NotStarted
  <1>3. VerifiedFirst'
    BY DEF VerifiedFirst
  <1>4. Owned'
    BY DEF Owned, WorkForOne
  <1>5. Accounted'
    BY DEF Accounted, Owned, WorkForOne
  <1>6. DoomedAreIdle'
    BY DEF DoomedAreIdle, NothingConnectsWhileStopped, VerifiedFirst, Alive
  <1>7. LastRequests'
    BY DEF LastRequests, Alive, NoCall, Calls
  <1>8. WorkForOne'
    BY DEF WorkForOne, Owned
  <1>9. NothingConnectsWhileStopped'
    BY DEF NothingConnectsWhileStopped, StartedOnly, NotStarted, Alive, States
  <1>10. SlotsAreHeld'
    BY DEF SlotsAreHeld, Accounted, DoomedAreIdle, NothingConnectsWhileStopped,
       VerifiedFirst
  <1>11. ForgottenWhenGone'
    BY DEF ForgottenWhenGone, LastRequests, Alive
  <1>12. LimitKept'
    BY FewerSlots
  <1> QED
    BY <1>1, <1>2, <1>3, <1>4, <1>5, <1>6, <1>7, <1>8, <1>9, <1>10, <1>11, <1>12 DEF
       SessionInv

-----------------------------------------------------------------------------
LEMMA StepSafe == SessionInv /\ [Next]_vars => SessionInv'
  <1> SUFFICES ASSUME SessionInv, [Next]_vars PROVE SessionInv'
    OBVIOUS
  <1>1. CASE UNCHANGED vars
    BY <1>1
       DEF vars, window, torrent, server, sockets, life, SessionInv, TypeOK, StartedOnly,
           VerifiedFirst, Owned, Accounted, DoomedAreIdle, LastRequests, LimitKept, WorkForOne,
           NothingConnectsWhileStopped, SlotsAreHeld, ForgottenWhenGone, NotStarted, Alive
  <1>2. CASE Next
    <2>1. CASE TorrentStartFails \/ TorrentStop
      BY <2>1, StartFailsSafe, TorrentStopSafe
    <2>2. ASSUME NEW t \in Torrents,
                 \/ TorrentStart(t) \/ stop(t) \/ torrentStopped(t) \/ DeleteClient(t)
                 \/ VerifyPiece(t) \/ HandleFileError(t)
          PROVE  SessionInv'
      BY <2>2, StartSafe, StopSafe, StoppedSafe, DeleteSafe, VerifyPieceSafe, FileErrorSafe
    <2>3. ASSUME NEW t \in Torrents,
                 \/ \E port, reachable \in BOOLEAN : FullVerificationDone(t, port, reachable)
                 \/ \E next \in States : PieceVerified(t, next)
                 \/ \E new \in SUBSET Connections :
                        TrackerResponse(t, new) \/ ConnectorTimer(t, new)
          PROVE  SessionInv'
      BY <2>3, VerificationSafe, PieceVerifiedSafe, TrackerResponseSafe, ConnectorSafe
    <2>4. ASSUME NEW c \in Connections,
                 \/ SetupOutgoingConnection(c) \/ Disconnected(c)
                 \/ IncomingConnection(c) \/ WaitingAborts(c) \/ WaitingCloses(c)
                 \/ \E known \in BOOLEAN : ProcessInfoHash(c, known)
          PROVE  SessionInv'
      BY <2>4, SetupSafe, DisconnectedSafe, IncomingSafe, WaitingAbortsSafe, WaitingClosesSafe,
         HandOverSafe
    <2> QED
      BY <1>2, <2>1, <2>2, <2>3, <2>4 DEF Next
  <1> QED
    BY <1>1, <1>2

LEMMA AlwaysSafe == Spec => []SessionInv
  BY InitSafe, StepSafe, PTL DEF Spec

(* Types; a client whose deletion is due still exists.                     *)
THEOREM TypeCorrect == Spec => []TypeOK
  <1>1. SessionInv => TypeOK
    BY DEF SessionInv
  <1> QED
    BY <1>1, AlwaysSafe, PTL

(* No timer, tracker's answer or hand-over by the server gives a torrent   *)
(* that is not active a connection, and none is left when it stops.        *)
THEOREM StoppedIsDisconnected == Spec => []NothingConnectsWhileStopped
  <1>1. SessionInv => NothingConnectsWhileStopped
    BY DEF SessionInv
  <1> QED
    BY <1>1, AlwaysSafe, PTL

(* The limit of the ConnectionManager counts every connection a torrent    *)
(* works with, and is kept.                                                *)
THEOREM LimitCounts == Spec => []ConnectionsAreCounted
  <1>1. SessionInv => ConnectionsAreCounted
    BY DEF SessionInv, LimitKept, WorkForOne, ConnectionsAreCounted
  <1> QED
    BY <1>1, AlwaysSafe, PTL

(* Only a pause while it is connecting makes a connection lose its slot.   *)
THEOREM SlotsStayHeld == Spec => []SlotsAreHeld
  <1>1. SessionInv => SlotsAreHeld
    BY DEF SessionInv
  <1> QED
    BY <1>1, AlwaysSafe, PTL

(* Stopping a client leaves nothing of it with the window or the server.   *)
THEOREM StoppedIsForgotten == Spec => []ForgottenWhenGone
  <1>1. SessionInv => ForgottenWhenGone
    BY DEF SessionInv
  <1> QED
    BY <1>1, AlwaysSafe, PTL
=============================================================================
