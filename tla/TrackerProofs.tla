---------------------------- MODULE TrackerProofs ----------------------------
(***************************************************************************)
(* Theorems about the tracker's threads and the requests of the programs,  *)
(* for every number of peers and torrents: TrackerInv is about what the    *)
(* threads find in the globals they share, EventsInv about all a program   *)
(* sends on its one socket, whether it was read or is on the way.          *)
(***************************************************************************)
EXTENDS Tracker, SequenceTheorems, TLAPS

(* What the threads change.                                                *)
Record == [hash : Torrents \cup {"none"}, peer : Peers \cup {"none"}, error : BOOLEAN,
           content : Queries]

ThreadsOK ==
    /\ infoHash \in [Peers -> Torrents]
    /\ socket \in [Peers -> {"idle", "connected", "deleted"}]
    /\ thread \in [Peers -> {"reading", "cleared", "kept", "hashed", "parsed", "registered",
                             "looked up"}]
    /\ data \in [Peers -> Queries] /\ query \in [Peers -> Queries]
    /\ SrvMetaInfo \in Record
    /\ mInfoStr \in Peers \cup {"none"}
    /\ clients \in [Torrents \cup {"none"} -> Peers \cup {"none"}]
    /\ overlapped \subseteq Peers

RepliesOK == replies \in [Peers -> Seq(Answers)]

(* No thread reads the name of another's peer, and one that parses a peer  *)
(* has found a hash.                                                       *)
ReadsOwn ==
    \A p \in Peers : /\ data[p].peer \in {p, "none"}
                     /\ thread[p] = "hashed" => query[p].hash # "missing"

(* A thread is alone unless it is known to have had company.               *)
AloneIsAlone ==
    \A p, q \in Peers :
        p # q /\ thread[p] # "reading" /\ thread[q] # "reading" => p \in overlapped

(* What a thread that is alone finds in the globals comes from what it     *)
(* read.                                                                   *)
OwnGlobals(p) ==
    /\ thread[p] \in {"cleared", "kept", "hashed", "parsed"} => ~SrvMetaInfo.error
    /\ thread[p] = "kept" => SrvMetaInfo.content = data[p]
    /\ thread[p] = "hashed" => query[p] = data[p]
    /\ thread[p] \in {"hashed", "parsed"} => SrvMetaInfo.hash = data[p].hash
    /\ thread[p] = "parsed" => SrvMetaInfo.peer = data[p].peer
    /\ thread[p] = "registered" =>
           IF data[p].hash = "missing" THEN SrvMetaInfo.error
           ELSE ~SrvMetaInfo.error /\ clients[SrvMetaInfo.hash] = data[p].peer
    /\ thread[p] = "looked up" => mInfoStr = data[p].peer
    /\ thread[p] \in {"hashed", "parsed", "looked up"} => data[p].hash # "missing"

AloneOwn == \A p \in Peers \ overlapped : OwnGlobals(p)

TrackerInv == ThreadsOK /\ RepliesOK /\ ReadsOwn /\ AloneIsAlone /\ AloneOwn /\ AloneGetsItself

-----------------------------------------------------------------------------
LEMMA InitOwn == Init => TrackerInv
  <1> SUFFICES ASSUME Init PROVE TrackerInv
    OBVIOUS
  <1>1. RepliesOK /\ AloneGetsItself
    BY DEF Init, RepliesOK, AloneGetsItself
  <1>2. Nothing \in Queries /\ Nothing.peer = "none"
    BY DEF Nothing, Queries
  <1>3. ThreadsOK /\ ReadsOwn
    <2> HIDE DEF Queries, Nothing
    <2> QED
      BY <1>2 DEF Init, ThreadsOK, Record, ReadsOwn
  <1>4. AloneIsAlone /\ AloneOwn
    BY DEF Init, AloneIsAlone, AloneOwn, OwnGlobals
  <1> QED
    BY <1>1, <1>3, <1>4 DEF TrackerInv

(* The programs change no global, and lose answers at most.                *)
LEMMA ProgramsOwn ==
    ASSUME TrackerInv, NEW p \in Peers,
           \/ \E reachable \in BOOLEAN : Start(p, reachable)
           \/ FirstFetch(p) \/ TimerEvent(p) \/ StartSeeding(p) \/ Stop(p)
           \/ \E socketError \in BOOLEAN : TrackerResponse(p, socketError)
           \/ Crash(p)
    PROVE  TrackerInv'
  <1>1. /\ UNCHANGED <<thread, data, query, SrvMetaInfo, mInfoStr, clients, overlapped, infoHash>>
        /\ socket' \in [Peers -> {"idle", "connected", "deleted"}]
        /\ replies' = replies \/ replies' = [replies EXCEPT ![p] = <<>>]
    BY DEF Start, FirstFetch, TimerEvent, StartSeeding, Stop, TrackerResponse, Crash, tracker,
           locals, program, ThreadsOK, TrackerInv
  <1>2. ThreadsOK' /\ ReadsOwn' /\ AloneIsAlone' /\ AloneOwn'
    <2>1. ThreadsOK /\ ReadsOwn /\ AloneIsAlone /\ AloneOwn
      BY DEF TrackerInv
    <2>2. thread' = thread /\ data' = data /\ query' = query /\ SrvMetaInfo' = SrvMetaInfo
          /\ mInfoStr' = mInfoStr /\ clients' = clients /\ overlapped' = overlapped
          /\ infoHash' = infoHash
      BY <1>1
    <2>3. ThreadsOK'
      BY <1>1, <2>1, <2>2 DEF ThreadsOK
    <2>4. ReadsOwn' /\ AloneIsAlone'
      BY <2>1, <2>2 DEF AloneIsAlone, ReadsOwn
    <2>5. AloneOwn'
      BY <2>1, <2>2, Zenon DEF AloneOwn, OwnGlobals
    <2> QED
      BY <2>3, <2>4, <2>5
  <1>3. RepliesOK' /\ AloneGetsItself'
    <2>1. CASE replies' = replies
      BY <1>1, <2>1 DEF TrackerInv, RepliesOK, AloneGetsItself
    <2>2. CASE replies' = [replies EXCEPT ![p] = <<>>]
      <3>1. \A q \in Peers : replies'[q] = replies[q] \/ replies'[q] = <<>>
        BY <2>2 DEF TrackerInv, RepliesOK
      <3> QED
        BY <2>2, <3>1 DEF TrackerInv, RepliesOK, AloneGetsItself
    <2> QED
      BY <1>1, <2>1, <2>2
  <1> QED
    BY <1>2, <1>3 DEF TrackerInv

(* What the bytes of a read have is what the reader's own request says.    *)
LEMMA ReadValues ==
    ASSUME ThreadsOK, NEW p \in Peers, NEW bytes,
           NEW hash \in ValueIn(bytes, "hash", infoHash[p], "missing"),
           NEW peer \in ValueIn(bytes, "peer", p, "none")
    PROVE  /\ [hash |-> hash, peer |-> peer] \in Queries
           /\ peer \in {p, "none"}
  <1>1. hash \in {infoHash[p], "none", "missing"} /\ peer \in {p, "none"}
    BY DEF ValueIn
  <1>2. infoHash[p] \in Torrents
    BY DEF ThreadsOK
  <1> QED
    BY <1>1, <1>2 DEF Queries

(* A thread that begins to work shares its company with all that do.       *)
LEMMA ReadOwn ==
    ASSUME TrackerInv, NEW p \in Peers, ReadRequest(p)
    PROVE  TrackerInv'
  <1>1. ThreadsOK /\ RepliesOK /\ ReadsOwn /\ AloneIsAlone /\ AloneOwn /\ AloneGetsItself
    BY DEF TrackerInv
  <1>2. /\ infoHash' = infoHash /\ socket' = socket /\ replies' = replies /\ query' = query
        /\ mInfoStr' = mInfoStr /\ clients' = clients
        /\ thread[p] = "reading" /\ thread' = [thread EXCEPT ![p] = "cleared"]
        /\ SrvMetaInfo' = [SrvMetaInfo EXCEPT !.error = FALSE, !.hash = "none",
                                              !.content = Nothing]
        /\ overlapped' = IF Working = {} THEN overlapped ELSE overlapped \cup Working \cup {p}
    BY DEF ReadRequest, program
  <1>3. PICK found \in Queries : /\ data' = [data EXCEPT ![p] = found]
                                 /\ found.peer \in {p, "none"}
    <2>1. PICK bytes : \E hash \in ValueIn(bytes, "hash", infoHash[p], "missing"),
                          peer \in ValueIn(bytes, "peer", p, "none") :
                             data' = [data EXCEPT ![p] = [hash |-> hash, peer |-> peer]]
      BY DEF ReadRequest
    <2>2. PICK hash \in ValueIn(bytes, "hash", infoHash[p], "missing"),
               peer \in ValueIn(bytes, "peer", p, "none") :
                  data' = [data EXCEPT ![p] = [hash |-> hash, peer |-> peer]]
      BY <2>1
    <2> DEFINE read == [hash |-> hash, peer |-> peer]
    <2>3. read \in Queries /\ peer \in {p, "none"}
      BY <1>1, ReadValues
    <2>4. read.peer = peer /\ data' = [data EXCEPT ![p] = read]
      BY <2>2
    <2> HIDE DEF read
    <2> QED
      BY <2>3, <2>4
  <1>4. SrvMetaInfo' \in Record /\ ~SrvMetaInfo'.error
    <2>1. Nothing \in Queries
      BY DEF Nothing, Queries
    <2> HIDE DEF Queries, Nothing
    <2>2. SrvMetaInfo \in Record
      BY <1>1 DEF ThreadsOK
    <2> QED
      BY <1>2, <2>1, <2>2 DEF Record
  <1>5. ThreadsOK'
    BY <1>1, <1>2, <1>3, <1>4 DEF ThreadsOK, Working
  <1>6. \A q \in Peers \ {p} :
            /\ thread'[q] = thread[q] /\ data'[q] = data[q]
            /\ thread[q] # "reading" => q \in overlapped'
    BY <1>1, <1>2, <1>3 DEF ThreadsOK, Working
  <1>7. thread'[p] = "cleared" /\ data'[p] = found
    BY <1>1, <1>2, <1>3 DEF ThreadsOK
  <1>8. ReadsOwn'
    BY <1>1, <1>2, <1>3, <1>6, <1>7 DEF ReadsOwn
  <1>9. AloneIsAlone'
    <2>1. p \in overlapped' \/ \A q \in Peers \ {p} : thread[q] = "reading"
      BY <1>2 DEF Working
    <2> QED
      BY <1>1, <1>6, <2>1 DEF AloneIsAlone
  <1>10. AloneOwn'
    <2> SUFFICES ASSUME NEW q \in Peers, q \notin overlapped' PROVE OwnGlobals(q)'
      BY DEF AloneOwn
    <2>1. CASE q = p
      BY <1>4, <1>7, <2>1 DEF OwnGlobals
    <2>2. CASE q # p
      <3>1. thread'[q] = "reading"
        BY <1>6, <2>2
      <3> QED
        BY <3>1 DEF OwnGlobals
    <2> QED
      BY <2>1, <2>2
  <1>11. RepliesOK' /\ AloneGetsItself'
    BY <1>1, <1>2 DEF RepliesOK, AloneGetsItself
  <1> QED
    BY <1>5, <1>8, <1>9, <1>10, <1>11 DEF TrackerInv

(* A step of one thread leaves what is said of the others: those that are  *)
(* not reading have had company.                                           *)
LEMMA OthersOwn ==
    ASSUME TrackerInv, NEW p \in Peers, thread[p] # "reading",
           \A q \in Peers \ {p} : thread'[q] = thread[q],
           \A q \in Peers \ {p} : q \in overlapped => q \in overlapped',
           thread'[p] = "reading" \/ (p \in overlapped => p \in overlapped'),
           p \notin overlapped' => OwnGlobals(p)'
    PROVE  AloneIsAlone' /\ AloneOwn'
  <1>1. AloneIsAlone /\ AloneOwn
    BY DEF TrackerInv
  <1>2. AloneIsAlone'
    BY <1>1 DEF AloneIsAlone
  <1>3. ASSUME NEW q \in Peers \ {p}, q \notin overlapped' PROVE OwnGlobals(q)'
    <2>1. thread'[q] = "reading"
      BY <1>1, <1>3 DEF AloneIsAlone
    <2> QED
      BY <2>1 DEF OwnGlobals
  <1> QED
    BY <1>2, <1>3 DEF AloneOwn

LEMMA ParseOwn ==
    ASSUME TrackerInv, NEW p \in Peers, KeepContent(p) \/ ParseHash(p) \/ ParsePeer(p)
    PROVE  TrackerInv'
  <1>1. ThreadsOK /\ RepliesOK /\ ReadsOwn /\ AloneOwn /\ AloneGetsItself
    BY DEF TrackerInv
  <1>2. /\ infoHash' = infoHash /\ socket' = socket /\ replies' = replies /\ data' = data
        /\ mInfoStr' = mInfoStr /\ clients' = clients /\ overlapped' = overlapped
        /\ thread[p] \in {"cleared", "kept", "hashed"}
        /\ \E t \in {"kept", "hashed", "parsed", "registered"} :
               thread' = [thread EXCEPT ![p] = t]
    BY DEF KeepContent, ParseHash, ParsePeer, program, locals
  <1>3. SrvMetaInfo \in Record /\ data[p] \in Queries /\ query[p] \in Queries
        /\ SrvMetaInfo.content \in Queries /\ Nothing \in Queries
    BY <1>1 DEF ThreadsOK, Record, Nothing, Queries
  <1>4. SrvMetaInfo' \in Record /\ query' \in [Peers -> Queries]
        /\ (thread'[p] = "hashed" => query'[p].hash # "missing")
    <2>1. CASE KeepContent(p)
      <3>1. SrvMetaInfo' = [SrvMetaInfo EXCEPT !.content = data[p]] /\ query' = query
            /\ thread'[p] = "kept"
        BY <1>1, <2>1 DEF KeepContent, locals, ThreadsOK
      <3> HIDE DEF Queries
      <3> QED
        BY <1>1, <1>3, <3>1 DEF Record, ThreadsOK
    <2>2. CASE ParseHash(p) /\ SrvMetaInfo.content.hash = "missing"
      <3>1. SrvMetaInfo' = [SrvMetaInfo EXCEPT !.error = TRUE] /\ query' = query
            /\ thread'[p] = "registered"
        BY <1>1, <2>2 DEF ParseHash, ThreadsOK
      <3> HIDE DEF Queries
      <3> QED
        BY <1>1, <1>3, <3>1 DEF Record, ThreadsOK
    <2>3. CASE ParseHash(p) /\ SrvMetaInfo.content.hash # "missing"
      <3>1. SrvMetaInfo' = [SrvMetaInfo EXCEPT !.hash = SrvMetaInfo.content.hash]
            /\ query' = [query EXCEPT ![p] = SrvMetaInfo.content]
        BY <2>3 DEF ParseHash
      <3>2. SrvMetaInfo.content.hash \in Torrents \cup {"none"}
        BY <1>3, <2>3 DEF Queries
      <3> HIDE DEF Queries
      <3> QED
        BY <1>1, <1>3, <2>3, <3>1, <3>2 DEF Record, ThreadsOK
    <2>4. CASE ParsePeer(p)
      <3>1. SrvMetaInfo' = [SrvMetaInfo EXCEPT !.peer = query[p].peer]
            /\ query' = [query EXCEPT ![p] = Nothing] /\ thread'[p] = "parsed"
        BY <1>1, <2>4 DEF ParsePeer, ThreadsOK
      <3>2. query[p].peer \in Peers \cup {"none"}
        BY <1>3 DEF Queries
      <3> HIDE DEF Queries, Nothing
      <3> QED
        BY <1>1, <1>3, <3>1, <3>2 DEF Record, ThreadsOK
    <2> QED
      BY <2>1, <2>2, <2>3, <2>4
  <1>5. ThreadsOK' /\ RepliesOK' /\ AloneGetsItself'
    <2> HIDE DEF Queries, Record
    <2>1. PICK t \in {"kept", "hashed", "parsed", "registered"} :
             thread' = [thread EXCEPT ![p] = t]
      BY <1>2
    <2>2. ThreadsOK'
      BY <1>1, <1>2, <1>4, <2>1 DEF ThreadsOK
    <2> QED
      BY <1>1, <1>2, <2>2 DEF RepliesOK, AloneGetsItself
  <1>6. \A q \in Peers \ {p} : thread'[q] = thread[q] /\ query'[q] = query[q]
    BY <1>1, <1>2 DEF KeepContent, ParseHash, ParsePeer, locals, ThreadsOK
  <1>7. ReadsOwn'
    BY <1>1, <1>2, <1>4, <1>6 DEF ReadsOwn
  <1>8. ASSUME p \notin overlapped PROVE OwnGlobals(p)'
    <2>1. OwnGlobals(p)
      BY <1>1, <1>8 DEF AloneOwn
    <2>2. CASE KeepContent(p)
      <3>1. thread[p] = "cleared" /\ thread'[p] = "kept"
            /\ SrvMetaInfo'.content = data[p] /\ SrvMetaInfo'.error = SrvMetaInfo.error
        BY <1>1, <1>3, <2>2 DEF KeepContent, ThreadsOK, Record
      <3> QED
        BY <1>2, <2>1, <3>1 DEF OwnGlobals
    <2>3. CASE ParseHash(p) /\ SrvMetaInfo.content.hash = "missing"
      <3>1. thread[p] = "kept" /\ thread'[p] = "registered" /\ SrvMetaInfo'.error
        BY <1>1, <1>3, <2>3 DEF ParseHash, ThreadsOK, Record
      <3> QED
        BY <1>2, <2>1, <2>3, <3>1 DEF OwnGlobals
    <2>4. CASE ParseHash(p) /\ SrvMetaInfo.content.hash # "missing"
      <3>1. thread[p] = "kept" /\ thread'[p] = "hashed" /\ SrvMetaInfo'.error = SrvMetaInfo.error
            /\ SrvMetaInfo'.hash = SrvMetaInfo.content.hash /\ query'[p] = SrvMetaInfo.content
        BY <1>1, <1>3, <2>4 DEF ParseHash, ThreadsOK, Record
      <3> QED
        BY <1>2, <2>1, <2>4, <3>1 DEF OwnGlobals
    <2>5. CASE ParsePeer(p)
      <3>1. thread[p] = "hashed" /\ thread'[p] = "parsed" /\ SrvMetaInfo'.error = SrvMetaInfo.error
            /\ SrvMetaInfo'.hash = SrvMetaInfo.hash /\ SrvMetaInfo'.peer = query[p].peer
        BY <1>1, <1>3, <2>5 DEF ParsePeer, ThreadsOK, Record
      <3> QED
        BY <1>2, <2>1, <3>1 DEF OwnGlobals
    <2> QED
      BY <2>2, <2>3, <2>4, <2>5
  <1>9. AloneIsAlone' /\ AloneOwn'
    BY <1>2, <1>6, <1>8, OthersOwn
  <1> QED
    BY <1>5, <1>7, <1>9 DEF TrackerInv

LEMMA RegisterOwn ==
    ASSUME TrackerInv, NEW p \in Peers, RegisterClient(p)
    PROVE  TrackerInv'
  <1>1. ThreadsOK /\ RepliesOK /\ ReadsOwn /\ AloneOwn /\ AloneGetsItself
    BY DEF TrackerInv
  <1>2. /\ infoHash' = infoHash /\ socket' = socket /\ replies' = replies /\ data' = data
        /\ query' = query /\ SrvMetaInfo' = SrvMetaInfo /\ overlapped' = overlapped
        /\ thread[p] = "parsed" /\ thread' = [thread EXCEPT ![p] = "registered"]
        /\ mInfoStr' = clients[SrvMetaInfo.hash]
        /\ clients' = [clients EXCEPT ![SrvMetaInfo.hash] = SrvMetaInfo.peer]
    BY DEF RegisterClient, program, locals
  <1>3. SrvMetaInfo.hash \in Torrents \cup {"none"} /\ SrvMetaInfo.peer \in Peers \cup {"none"}
    BY <1>1 DEF ThreadsOK, Record
  <1>4. ThreadsOK'
    <2> HIDE DEF Queries, Record
    <2> QED
      BY <1>1, <1>2, <1>3 DEF ThreadsOK
  <1>5. RepliesOK' /\ AloneGetsItself'
    BY <1>1, <1>2 DEF RepliesOK, AloneGetsItself
  <1>6. thread'[p] = "registered" /\ \A q \in Peers \ {p} : thread'[q] = thread[q]
    BY <1>1, <1>2 DEF ThreadsOK
  <1>7. ReadsOwn'
    BY <1>1, <1>2, <1>6 DEF ReadsOwn
  <1>8. ASSUME p \notin overlapped PROVE OwnGlobals(p)'
    <2>1. OwnGlobals(p)
      BY <1>1, <1>8 DEF AloneOwn
    <2>2. clients'[SrvMetaInfo.hash] = SrvMetaInfo.peer
      BY <1>1, <1>2, <1>3 DEF ThreadsOK
    <2> QED
      BY <1>2, <1>6, <2>1, <2>2 DEF OwnGlobals
  <1>9. AloneIsAlone' /\ AloneOwn'
    BY <1>2, <1>6, <1>8, OthersOwn
  <1> QED
    BY <1>4, <1>5, <1>7, <1>9 DEF TrackerInv

(* A thread that is alone gives the answer that it owes.                   *)
LEMMA ReplyOwn ==
    ASSUME TrackerInv, NEW p \in Peers, NEW peer \in Owed,
           Reply(p, peer), thread[p] # "reading",
           p \notin overlapped => peer = Due(data[p]),
           UNCHANGED <<infoHash, socket, query, SrvMetaInfo, mInfoStr, clients>>
    PROVE  TrackerInv'
  <1>1. ThreadsOK /\ RepliesOK /\ ReadsOwn /\ AloneIsAlone /\ AloneOwn /\ AloneGetsItself
    BY DEF TrackerInv
  <1> DEFINE answer == [peer |-> peer, due |-> Due(data[p]), alone |-> p \notin overlapped]
  <1>2. answer \in Answers /\ Due(data[p]) \in {p, "none", "failure"}
    <2>1. Due(data[p]) \in {p, "none", "failure"}
      BY <1>1 DEF ReadsOwn, Due
    <2>2. Due(data[p]) \in Owed /\ (p \notin overlapped) \in BOOLEAN
      BY <2>1 DEF Owed
    <2> QED
      BY <2>1, <2>2 DEF Answers
  <1>3. /\ answer.peer = peer /\ answer.due = Due(data[p])
        /\ answer.alone => p \notin overlapped
    OBVIOUS
  <1>4. /\ thread' = [thread EXCEPT ![p] = "reading"]
        /\ data' = [data EXCEPT ![p] = Nothing] /\ overlapped' = overlapped \ {p}
        /\ replies' = replies \/ replies' = [replies EXCEPT ![p] = Append(@, answer)]
    BY DEF Reply
  <1> HIDE DEF answer
  <1>5. RepliesOK'
    <2>1. replies[p] \in Seq(Answers) /\ replies \in [Peers -> Seq(Answers)]
      BY <1>1 DEF RepliesOK
    <2>2. Append(replies[p], answer) \in Seq(Answers)
      BY <1>2, <2>1, AppendProperties
    <2> QED
      BY <1>4, <2>1, <2>2 DEF RepliesOK
  <1>6. ThreadsOK' /\ ReadsOwn'
    <2>1. Nothing \in Queries /\ Nothing.peer = "none"
      BY DEF Nothing, Queries
    <2> HIDE DEF Queries, Nothing, Record
    <2>2. ThreadsOK'
      BY <1>1, <1>4, <2>1 DEF ThreadsOK
    <2>3. /\ thread'[p] = "reading" /\ data'[p] = Nothing
          /\ \A q \in Peers \ {p} : thread'[q] = thread[q] /\ data'[q] = data[q]
      BY <1>1, <1>4 DEF ThreadsOK
    <2>4. ReadsOwn'
      BY <1>1, <2>1, <2>3 DEF ReadsOwn
    <2> QED
      BY <2>2, <2>4
  <1>7. AloneIsAlone' /\ AloneOwn'
    <2>1. thread'[p] = "reading" /\ \A q \in Peers \ {p} : thread'[q] = thread[q]
      BY <1>1, <1>4 DEF ThreadsOK
    <2>2. OwnGlobals(p)'
      BY <2>1 DEF OwnGlobals
    <2> QED
      BY <1>4, <2>1, <2>2, OthersOwn
  <1>8. AloneGetsItself'
    <2>1. CASE replies' = replies
      BY <1>1, <2>1 DEF AloneGetsItself
    <2>2. CASE replies' = [replies EXCEPT ![p] = Append(@, answer)]
      <3> SUFFICES ASSUME NEW q \in Peers, NEW i \in DOMAIN replies'[q], replies'[q][i].alone
                   PROVE  /\ replies'[q][i].peer = replies'[q][i].due
                          /\ replies'[q][i].due \in {q, "none", "failure"}
        BY DEF AloneGetsItself
      <3>1. CASE q # p
        BY <1>1, <3>1, <2>2 DEF RepliesOK, AloneGetsItself
      <3>2. CASE q = p
        <4>1. replies[p] \in Seq(Answers) /\ replies'[p] = Append(replies[p], answer)
          BY <1>1, <2>2 DEF RepliesOK
        <4>2. CASE i = Len(replies[p]) + 1
          <5>1. replies'[p][i] = answer
            BY <1>2, <4>1, <4>2
          <5> QED
            BY <1>2, <1>3, <3>2, <5>1
        <4>3. CASE i # Len(replies[p]) + 1
          <5>1. i \in DOMAIN replies[p] /\ replies'[p][i] = replies[p][i]
            BY <1>2, <3>2, <4>1, <4>3
          <5> QED
            BY <1>1, <3>2, <5>1 DEF AloneGetsItself
        <4> QED
          BY <4>2, <4>3
      <3> QED
        BY <3>1, <3>2
    <2> QED
      BY <1>4, <2>1, <2>2
  <1> QED
    BY <1>5, <1>6, <1>7, <1>8 DEF TrackerInv

LEMMA LookUpOwn ==
    ASSUME TrackerInv, NEW p \in Peers, LookUp(p)
    PROVE  TrackerInv'
  <1>1. ThreadsOK /\ RepliesOK /\ ReadsOwn /\ AloneOwn /\ AloneGetsItself
    BY DEF TrackerInv
  <1>2. thread[p] = "registered"
        /\ UNCHANGED <<infoHash, socket, query, SrvMetaInfo, clients>>
    BY DEF LookUp, program
  <1>3. p \notin overlapped => OwnGlobals(p)
    BY <1>1 DEF AloneOwn
  <1>4. CASE SrvMetaInfo.error /\ Reply(p, "failure") /\ UNCHANGED mInfoStr
    <2>1. p \notin overlapped => Due(data[p]) = "failure"
      BY <1>2, <1>3, <1>4 DEF OwnGlobals, Due
    <2>2. "failure" \in Owed
      BY DEF Owed
    <2> QED
      BY <1>2, <1>4, <2>1, <2>2, ReplyOwn
  <1>5. CASE LookUpAgain(p)
    <2>1. /\ ~SrvMetaInfo.error /\ thread' = [thread EXCEPT ![p] = "looked up"]
          /\ mInfoStr' = clients[SrvMetaInfo.hash]
          /\ UNCHANGED <<infoHash, socket, replies, data, query, SrvMetaInfo, clients, overlapped>>
      BY <1>2, <1>5 DEF LookUpAgain
    <2>2. clients[SrvMetaInfo.hash] \in Peers \cup {"none"}
      BY <1>1 DEF ThreadsOK, Record
    <2>3. ThreadsOK'
      <3> HIDE DEF Queries, Record
      <3> QED
        BY <1>1, <2>1, <2>2 DEF ThreadsOK
    <2>4. thread'[p] = "looked up" /\ \A q \in Peers \ {p} : thread'[q] = thread[q]
      BY <1>1, <2>1 DEF ThreadsOK
    <2>5. p \notin overlapped => OwnGlobals(p)'
      BY <1>2, <1>3, <2>1, <2>4 DEF OwnGlobals
    <2>6. AloneIsAlone' /\ AloneOwn'
      BY <1>2, <2>1, <2>4, <2>5, OthersOwn
    <2>7. ReadsOwn'
      BY <1>1, <2>1, <2>4 DEF ReadsOwn
    <2>8. RepliesOK' /\ AloneGetsItself'
      BY <1>1, <2>1 DEF RepliesOK, AloneGetsItself
    <2> QED
      BY <2>3, <2>6, <2>7, <2>8 DEF TrackerInv
  <1> QED
    BY <1>4, <1>5 DEF LookUp

LEMMA AnswerOwn ==
    ASSUME TrackerInv, NEW p \in Peers, Answer(p)
    PROVE  TrackerInv'
  <1>1. ThreadsOK /\ AloneOwn
    BY DEF TrackerInv
  <1>2. thread[p] = "looked up" /\ Reply(p, mInfoStr)
        /\ UNCHANGED <<infoHash, socket, query, SrvMetaInfo, mInfoStr, clients>>
    BY DEF Answer, program
  <1>3. mInfoStr \in Owed
    BY <1>1 DEF ThreadsOK, Owed
  <1>4. p \notin overlapped => mInfoStr = Due(data[p])
    BY <1>1, <1>2 DEF AloneOwn, OwnGlobals, Due
  <1> QED
    BY <1>2, <1>3, <1>4, ReplyOwn

LEMMA ThreadOwn == ASSUME TrackerInv, NEW p \in Peers, Thread(p) PROVE TrackerInv'
  BY ReadOwn, ParseOwn, RegisterOwn, LookUpOwn, AnswerOwn DEF Thread

LEMMA StepOwn == TrackerInv /\ [Next]_vars => TrackerInv'
  <1> SUFFICES ASSUME TrackerInv, [Next]_vars PROVE TrackerInv'
    OBVIOUS
  <1>1. CASE UNCHANGED vars
    BY <1>1 DEF vars, program, tracker, locals, TrackerInv, ThreadsOK, RepliesOK, ReadsOwn,
                AloneIsAlone, AloneOwn, OwnGlobals, AloneGetsItself
  <1>2. CASE Next
    BY <1>2, ProgramsOwn, ThreadOwn DEF Next
  <1> QED
    BY <1>1, <1>2

(* Only a data race lets a peer hear of another: a thread that had no      *)
(* company since it read answers with the failure what has no hash, and    *)
(* with the requester, or with nobody when the read ended before its name. *)
THEOREM AloneHearsOfItself == Spec => []AloneGetsItself
  <1>1. TrackerInv => AloneGetsItself
    BY DEF TrackerInv
  <1> QED
    BY <1>1, InitOwn, StepOwn, PTL DEF Spec
-----------------------------------------------------------------------------
(* Types, and the order of events.                                         *)

(* All that program p has sent on its socket.                              *)
Sent(p) == heard[p] \o requests[p]

QueuesTyped == requests \in [Peers -> Seq(Items)] /\ heard \in [Peers -> Seq(Items)]

ProgramsTyped ==
    /\ running \subseteq Peers /\ fetchPosted \subseteq running
    /\ firstTrackerRequest \subseteq Peers /\ lastTrackerRequest \subseteq running
    /\ firstSeeding \subseteq Peers
    /\ seeding \subseteq Peers /\ finished \subseteq seeding
    /\ timer \subseteq running /\ broken \subseteq running
    /\ down \in BOOLEAN

(* A socket that was used belongs to a program that was started, and the   *)
(* timer only starts when the socket goes.                                 *)
SocketsInv ==
    \A p \in Peers : /\ socket[p] # "idle" => p \in running
                     /\ p \in timer => socket[p] = "deleted"

NoneCompleted(l) == \A i \in DOMAIN l : l[i] # "completed"

(* Before its first call of fetchPeerList a program has sent nothing and   *)
(* still has both flags; before it seeds it has sent at most one request.  *)
SentInv ==
    \A p \in Peers :
        /\ Orderly(Sent(p)) /\ Len(Sent(p)) <= 8
        /\ p \notin running \ fetchPosted =>
               /\ Sent(p) = <<>>
               /\ p \in firstTrackerRequest /\ p \in firstSeeding
        /\ p \notin seeding => Len(Sent(p)) <= 4 /\ NoneCompleted(Sent(p))

(* Each answer, and the one a thread is about to give, is to a part that   *)
(* was read.                                                               *)
AnswersInv ==
    \A p \in Peers :
        /\ Len(replies[p]) <= Len(heard[p])
        /\ thread[p] # "reading" => Len(replies[p]) < Len(heard[p])

EventsInv == /\ TrackerInv /\ QueuesTyped /\ ProgramsTyped
             /\ SocketsInv /\ SentInv /\ AnswersInv

-----------------------------------------------------------------------------
LEMMA ItemsAssociative ==
    \A r, s, t \in Seq(Items) : (r \o s) \o t = r \o (s \o t)
  BY ConcatAssociative

LEMMA ItemsConcat ==
    ASSUME NEW h \in Seq(Items), NEW r \in Seq(Items)
    PROVE  /\ Len(h) \in Nat /\ Len(r) \in Nat /\ Len(h \o r) = Len(h) + Len(r)
           /\ DOMAIN h = 1 .. Len(h) /\ DOMAIN (h \o r) = 1 .. Len(h) + Len(r)
           /\ \A i \in DOMAIN h : i \in DOMAIN (h \o r) /\ (h \o r)[i] = h[i]
           /\ \A i \in Len(h) + 1 .. Len(h) + Len(r) : (h \o r)[i] = r[i - Len(h)]
  BY ConcatProperties

LEMMA MessageIsItems ==
    ASSUME NEW e \in Events
    PROVE  /\ Message(e) \in Seq(Items) /\ Len(Message(e)) = 4 /\ Message(e)[4] = e
           /\ \A i \in 1 .. 3 : Message(e)[i] \notin Events
  <1>1. e \in Items /\ "info" \in Items /\ "hash" \in Items /\ "peer" \in Items
    BY DEF Items
  <1>2. \A i \in 1 .. 3 : i = 1 \/ i = 2 \/ i = 3
    OBVIOUS
  <1>3. Message(e)[1] = "info" /\ Message(e)[2] = "hash" /\ Message(e)[3] = "peer"
    BY DEF Message
  <1>4. \A i \in 1 .. 3 : Message(e)[i] \notin Events
    BY <1>2, <1>3 DEF Events
  <1> QED
    BY <1>1, <1>4 DEF Message

(* One more request keeps the order when it is the first of all, or the    *)
(* first that tells of completion.                                         *)
LEMMA MessageKeepsOrder ==
    ASSUME NEW l \in Seq(Items), NEW m \in Seq(Items), NEW e \in {"started", "completed"},
           Orderly(l), e = "started" => l = <<>>, NoneCompleted(l), Len(l) <= 4,
           Len(m) = 4, m[4] = e, \A i \in 1 .. 3 : m[i] \notin Events
    PROVE  /\ Orderly(l \o m) /\ Len(l \o m) <= 8
           /\ e = "started" => Len(l \o m) <= 4 /\ NoneCompleted(l \o m)
  <1>1. /\ Len(l \o m) = Len(l) + 4 /\ DOMAIN (l \o m) = 1 .. Len(l) + 4
        /\ \A i \in 1 .. Len(l) : (l \o m)[i] = l[i]
        /\ \A i \in Len(l) + 1 .. Len(l) + 4 : (l \o m)[i] = m[i - Len(l)]
    <2>1. /\ Len(l) \in Nat /\ Len(l \o m) = Len(l) + Len(m)
          /\ DOMAIN l = 1 .. Len(l) /\ DOMAIN (l \o m) = 1 .. Len(l) + Len(m)
          /\ \A i \in DOMAIN l : (l \o m)[i] = l[i]
          /\ \A i \in Len(l) + 1 .. Len(l) + Len(m) : (l \o m)[i] = m[i - Len(l)]
      BY ItemsConcat
    <2>2. Len(m) = 4
      OBVIOUS
    <2> QED
      BY <2>1, <2>2
  <1>2. Len(l) \in Nat /\ Len(m) \in Nat /\ DOMAIN l = 1 .. Len(l) /\ DOMAIN m = 1 .. 4
    OBVIOUS
  <1>3. Orderly(l \o m)
    <2> DEFINE s == l \o m
    <2> SUFFICES ASSUME NEW i \in 1 .. Len(l) + 4
                 PROVE  /\ s[i] \notin {"stopped", "none"}
                        /\ \A j \in 1 .. i - 1 :
                              s[j] \in Events /\ s[i] \in Events
                                => s[j] = "started" /\ s[i] = "completed"
      BY <1>1 DEF Orderly
    <2>1. CASE i \in 1 .. Len(l)
      <3>1. s[i] = l[i] /\ \A j \in 1 .. i - 1 : s[j] = l[j]
        BY <1>1, <1>2, <2>1
      <3> HIDE DEF s
      <3> QED
        BY <1>2, <2>1, <3>1 DEF Orderly
    <2>2. CASE i \in Len(l) + 1 .. Len(l) + 3
      <3>1. i - Len(l) \in 1 .. 3 /\ s[i] = m[i - Len(l)]
        BY <1>1, <1>2, <2>2
      <3>2. s[i] \notin Events
        BY <3>1
      <3> HIDE DEF s
      <3> QED
        BY <3>2 DEF Events
    <2>3. CASE i = Len(l) + 4
      <3>1. s[i] = e
        <4>1. s[i] = m[i - Len(l)] /\ i - Len(l) = 4
          BY <1>1, <1>2, <2>3
        <4> QED
          BY <4>1
      <3>2. ASSUME NEW j \in 1 .. i - 1, s[j] \in Events
            PROVE  s[j] = "started" /\ e = "completed"
        <4>1. CASE j \in 1 .. Len(l)
          <5>1. s[j] = l[j] /\ e = "completed"
            BY <1>1, <1>2, <4>1
          <5>2. l[j] \notin {"stopped", "none", "completed"}
            BY <1>2, <4>1 DEF Orderly, NoneCompleted
          <5>3. l[j] \in Events
            BY <3>2, <5>1
          <5> QED
            BY <5>1, <5>2, <5>3 DEF Events
        <4>2. CASE j \notin 1 .. Len(l)
          <5>1. j - Len(l) \in 1 .. 3 /\ s[j] = m[j - Len(l)]
            BY <1>1, <1>2, <2>3, <4>2
          <5> QED
            BY <3>2, <5>1
        <4> QED
          BY <4>1, <4>2
      <3> HIDE DEF s
      <3> QED
        BY <3>1, <3>2
    <2>4. i \in 1 .. Len(l) \/ i \in Len(l) + 1 .. Len(l) + 3 \/ i = Len(l) + 4
      <3> HIDE DEF s
      <3> QED
        BY <1>2
    <2> HIDE DEF s
    <2> QED
      BY <2>1, <2>2, <2>3, <2>4
  <1>4. Len(l \o m) <= 8
    BY <1>1, <1>2
  <1>5. ASSUME e = "started" PROVE Len(l \o m) <= 4 /\ NoneCompleted(l \o m)
    <2>1. Len(l) = 0
      BY <1>5
    <2>2. \A i \in 1 .. 4 : (l \o m)[i] = m[i]
      BY <1>1, <1>2, <2>1
    <2>3. \A i \in 1 .. 4 : m[i] # "completed"
      <3>1. \A i \in 1 .. 3 : m[i] # "completed"
        BY DEF Events
      <3>2. m[4] # "completed"
        BY <1>5
      <3>3. \A i \in 1 .. 4 : i \in 1 .. 3 \/ i = 4
        OBVIOUS
      <3> QED
        BY <3>1, <3>2, <3>3
    <2>4. DOMAIN (l \o m) = 1 .. 4 /\ Len(l \o m) = 4
      BY <1>1, <1>2, <2>1
    <2> QED
      BY <2>2, <2>3, <2>4 DEF NoneCompleted
  <1> QED
    BY <1>3, <1>4, <1>5

(* What a call of fetchPeerList changes.                                   *)
Fetches(p, e) ==
    /\ broken' \subseteq broken \cup {p}
    /\ firstTrackerRequest' \subseteq Peers /\ firstSeeding' \subseteq Peers
    /\ \A q \in Peers \ {p} : /\ q \in firstTrackerRequest => q \in firstTrackerRequest'
                              /\ q \in firstSeeding => q \in firstSeeding'
    /\ \/ requests' = requests
       \/ /\ socket[p] # "deleted"
          /\ requests' = [requests EXCEPT ![p] = @ \o Message(e)]

LEMMA FetchSends ==
    ASSUME ProgramsTyped, NEW p \in Peers, NEW nowSeeding, NEW firstAsSeed,
           fetchPeerList(p, nowSeeding, firstAsSeed)
    PROVE  Fetches(p, EventOf(p, nowSeeding, firstAsSeed))
  <1> DEFINE e == EventOf(p, nowSeeding, firstAsSeed)
  <1>1. CASE socket[p] = "deleted"
    BY <1>1 DEF fetchPeerList, Fetches, ProgramsTyped
  <1>2. CASE socket[p] # "deleted"
    <2>1. /\ broken' = broken
          /\ firstTrackerRequest' \in {firstTrackerRequest, firstTrackerRequest \ {p}}
          /\ firstSeeding' \in {firstSeeding \cup {p}, firstSeeding \ {p}}
      BY <1>2 DEF fetchPeerList
    <2>2. requests' = requests \/ requests' = [requests EXCEPT ![p] = @ \o Message(e)]
      BY <1>2, Zenon DEF fetchPeerList, Message
    <2> QED
      BY <1>2, <2>1, <2>2 DEF Fetches, ProgramsTyped
  <1> QED
    BY <1>1, <1>2

(* A request that is sent makes what was sent longer at its end.           *)
LEMMA SendingExtends ==
    ASSUME QueuesTyped, NEW p \in Peers, NEW e \in Events, heard' = heard,
           requests' = [requests EXCEPT ![p] = @ \o Message(e)]
    PROVE  /\ QueuesTyped'
           /\ Sent(p)' = Sent(p) \o Message(e)
           /\ \A q \in Peers \ {p} : Sent(q)' = Sent(q)
  <1>1. Message(e) \in Seq(Items)
    BY MessageIsItems
  <1>2. heard[p] \in Seq(Items) /\ requests[p] \in Seq(Items)
    BY DEF QueuesTyped
  <1>3. requests[p] \o Message(e) \in Seq(Items)
    BY <1>1, <1>2, ConcatProperties
  <1>4. QueuesTyped'
    BY <1>3 DEF QueuesTyped
  <1>5. requests'[p] = requests[p] \o Message(e)
    BY DEF QueuesTyped
  <1>6. Sent(p)' = Sent(p) \o Message(e)
    <2>1. Sent(p)' = heard[p] \o (requests[p] \o Message(e))
      BY <1>5 DEF Sent
    <2>2. heard[p] \o (requests[p] \o Message(e))
              = (heard[p] \o requests[p]) \o Message(e)
      BY <1>1, <1>2, ItemsAssociative
    <2> QED
      BY <2>1, <2>2 DEF Sent
  <1> QED
    BY <1>4, <1>6 DEF QueuesTyped, Sent

(* Steps that send nothing and read nothing.                               *)
LEMMA QuietSends ==
    ASSUME QueuesTyped, SentInv, heard' = heard, requests' = requests,
           running \subseteq running', fetchPosted' \subseteq Peers,
           \A p \in Peers : p \in running /\ p \notin fetchPosted
                              => p \in running' /\ p \notin fetchPosted',
           \A p \in Peers : p \notin running' \ fetchPosted'
                              => /\ p \in firstTrackerRequest => p \in firstTrackerRequest'
                                 /\ p \in firstSeeding => p \in firstSeeding',
           seeding \subseteq seeding'
    PROVE  QueuesTyped' /\ SentInv'
  <1>1. QueuesTyped'
    BY DEF QueuesTyped
  <1>2. \A p \in Peers : Sent(p)' = Sent(p)
    BY DEF Sent
  <1>3. ASSUME NEW p \in Peers
        PROVE  /\ Orderly(Sent(p)') /\ Len(Sent(p)') <= 8
               /\ p \notin running' \ fetchPosted' =>
                      /\ Sent(p)' = <<>>
                      /\ p \in firstTrackerRequest' /\ p \in firstSeeding'
               /\ p \notin seeding' => Len(Sent(p)') <= 4 /\ NoneCompleted(Sent(p)')
    BY <1>2 DEF SentInv
  <1> QED
    BY <1>1, <1>3 DEF SentInv

(* Program p has sent a request with event e, as it may.                   *)
LEMMA SendingKeeps ==
    ASSUME QueuesTyped, SentInv, NEW p \in Peers, NEW e \in {"started", "completed"},
           heard' = heard, requests' = [requests EXCEPT ![p] = @ \o Message(e)],
           e = "started" => Sent(p) = <<>>,
           p \notin seeding \/ Sent(p) = <<>>,
           e = "completed" => p \in seeding',
           p \in running' \ fetchPosted',
           \A q \in Peers \ {p} :
              /\ q \in running' \ fetchPosted' <=> q \in running \ fetchPosted
              /\ q \in firstTrackerRequest => q \in firstTrackerRequest'
              /\ q \in firstSeeding => q \in firstSeeding'
              /\ q \in seeding => q \in seeding'
    PROVE  QueuesTyped' /\ SentInv'
  <1>1. e \in Events
    BY DEF Events
  <1>2. /\ QueuesTyped'
        /\ Sent(p)' = Sent(p) \o Message(e)
        /\ \A q \in Peers \ {p} : Sent(q)' = Sent(q)
    BY <1>1, SendingExtends
  <1>3. ASSUME NEW q \in Peers \ {p}
        PROVE  /\ Orderly(Sent(q)') /\ Len(Sent(q)') <= 8
               /\ q \notin running' \ fetchPosted' =>
                      /\ Sent(q)' = <<>>
                      /\ q \in firstTrackerRequest' /\ q \in firstSeeding'
               /\ q \notin seeding' => Len(Sent(q)') <= 4 /\ NoneCompleted(Sent(q)')
    BY <1>2 DEF SentInv
  <1>4. Sent(p) \in Seq(Items)
    BY ConcatProperties DEF Sent, QueuesTyped
  <1>5. Orderly(Sent(p)) /\ Len(Sent(p)) <= 4 /\ NoneCompleted(Sent(p))
    <2>1. CASE p \notin seeding
      BY <2>1 DEF SentInv
    <2>2. CASE Sent(p) = <<>>
      <3>1. Len(Sent(p)) = 0 /\ DOMAIN Sent(p) = {}
        BY <2>2
      <3> QED
        BY <3>1 DEF SentInv, NoneCompleted
    <2> QED
      BY <2>1, <2>2
  <1> DEFINE l == Sent(p)
             m == Message(e)
  <1>6. /\ m \in Seq(Items) /\ Len(m) = 4 /\ m[4] = e
        /\ \A i \in 1 .. 3 : m[i] \notin Events
    BY <1>1, MessageIsItems
  <1>7. /\ Orderly(l \o m) /\ Len(l \o m) <= 8
        /\ e = "started" => Len(l \o m) <= 4 /\ NoneCompleted(l \o m)
    <2>1. /\ l \in Seq(Items) /\ Orderly(l) /\ (e = "started" => l = <<>>)
          /\ NoneCompleted(l) /\ Len(l) <= 4
      BY <1>4, <1>5
    <2> HIDE DEF l, m
    <2> QED
      BY <1>6, <2>1, MessageKeepsOrder
  <1>8. /\ Orderly(Sent(p)') /\ Len(Sent(p)') <= 8
        /\ p \notin seeding' => Len(Sent(p)') <= 4 /\ NoneCompleted(Sent(p)')
    BY <1>2, <1>7
  <1>9. ASSUME NEW q \in Peers
        PROVE  /\ Orderly(Sent(q)') /\ Len(Sent(q)') <= 8
               /\ q \notin running' \ fetchPosted' =>
                      /\ Sent(q)' = <<>>
                      /\ q \in firstTrackerRequest' /\ q \in firstSeeding'
               /\ q \notin seeding' => Len(Sent(q)') <= 4 /\ NoneCompleted(Sent(q)')
    BY <1>3, <1>8
  <1> QED
    BY <1>2, <1>9 DEF SentInv

(* What was read is no longer on the way: what was sent stays the same.    *)
LEMMA ReadingKeeps ==
    ASSUME QueuesTyped, NEW p \in Peers, NEW n \in 1 .. Len(requests[p]),
           requests' = [requests EXCEPT ![p] = SubSeq(@, n + 1, Len(@))],
           heard' = [heard EXCEPT ![p] = @ \o SubSeq(requests[p], 1, n)]
    PROVE  /\ QueuesTyped'
           /\ \A q \in Peers : Sent(q)' = Sent(q)
           /\ Len(heard'[p]) >= Len(heard[p]) + 1
           /\ \A q \in Peers \ {p} : heard'[q] = heard[q]
  <1> DEFINE h == heard[p]
             r == requests[p]
  <1>1. h \in Seq(Items) /\ r \in Seq(Items) /\ n \in 1 .. Len(r) /\ Len(r) \in Nat
    BY DEF QueuesTyped
  <1>2. heard'[p] = h \o SubSeq(r, 1, n) /\ requests'[p] = SubSeq(r, n + 1, Len(r))
    BY DEF QueuesTyped
  <1>3. SubSeq(r, 1, n) \in Seq(Items) /\ Len(SubSeq(r, 1, n)) = n
        /\ SubSeq(r, n + 1, Len(r)) \in Seq(Items)
    <2> HIDE DEF h, r
    <2> QED
      BY <1>1
  <1>4. SubSeq(r, 1, n) \o SubSeq(r, n + 1, Len(r)) = r
    <2> HIDE DEF h, r
    <2>1. SubSeq(r, 1, n) \o SubSeq(r, n + 1, Len(r)) = SubSeq(r, 1, Len(r))
      BY <1>1, ConcatAdjacentSubSeq
    <2> QED
      BY <1>1, <2>1, SubSeqFull
  <1>5. h \o SubSeq(r, 1, n) \in Seq(Items) /\ Len(h \o SubSeq(r, 1, n)) = Len(h) + n
        /\ (h \o SubSeq(r, 1, n)) \o SubSeq(r, n + 1, Len(r)) = h \o r
    <2> HIDE DEF h, r
    <2>1. (h \o SubSeq(r, 1, n)) \o SubSeq(r, n + 1, Len(r))
              = h \o (SubSeq(r, 1, n) \o SubSeq(r, n + 1, Len(r)))
      BY <1>1, <1>3, ItemsAssociative
    <2>2. h \o SubSeq(r, 1, n) \in Seq(Items) /\ Len(h \o SubSeq(r, 1, n)) = Len(h) + n
      BY <1>1, <1>3, ConcatProperties
    <2> QED
      BY <1>4, <2>1, <2>2
  <1>6. Sent(p)' = Sent(p)
    BY <1>2, <1>5 DEF Sent
  <1>7. QueuesTyped'
    BY <1>3, <1>5 DEF QueuesTyped
  <1>8. Len(heard'[p]) >= Len(heard[p]) + 1
    <2> HIDE DEF r
    <2> QED
      BY <1>1, <1>2, <1>5
  <1> QED
    BY <1>6, <1>7, <1>8 DEF QueuesTyped, Sent

-----------------------------------------------------------------------------
(* The steps of a program.                                                 *)

LEMMA StartKeeps ==
    ASSUME EventsInv, NEW p \in Peers, NEW reachable \in BOOLEAN, Start(p, reachable)
    PROVE  EventsInv'
  <1>1. TrackerInv'
    BY ProgramsOwn DEF EventsInv
  <1>2. /\ p \notin running /\ running' = running \cup {p}
        /\ fetchPosted' = fetchPosted \cup {p}
        /\ socket' = [socket EXCEPT ![p] = IF reachable THEN "connected" ELSE "idle"]
        /\ seeding' = seeding /\ finished' = finished /\ timer' = timer /\ broken' = broken
        /\ firstTrackerRequest' = firstTrackerRequest /\ firstSeeding' = firstSeeding
        /\ lastTrackerRequest' = lastTrackerRequest
        /\ requests' = requests /\ replies' = replies /\ heard' = heard
        /\ thread' = thread /\ down' = down
    BY DEF Start, flags, tracker
  <1>3. ProgramsTyped /\ SocketsInv /\ SentInv /\ QueuesTyped /\ AnswersInv /\ ThreadsOK
    BY DEF EventsInv, TrackerInv
  <1>4. ProgramsTyped'
    BY <1>2, <1>3 DEF ProgramsTyped
  <1>5. SocketsInv'
    BY <1>2, <1>3 DEF SocketsInv, ProgramsTyped, ThreadsOK
  <1>6. QueuesTyped' /\ SentInv'
    <2>1. /\ running \subseteq running' /\ fetchPosted' \subseteq Peers
          /\ \A q \in Peers : q \in running /\ q \notin fetchPosted
                                => q \in running' /\ q \notin fetchPosted'
          /\ \A q \in Peers : q \notin running' \ fetchPosted'
                                => /\ q \in firstTrackerRequest => q \in firstTrackerRequest'
                                   /\ q \in firstSeeding => q \in firstSeeding'
          /\ seeding \subseteq seeding'
      BY <1>2, <1>3 DEF ProgramsTyped
    <2> QED
      BY <1>2, <1>3, <2>1, QuietSends
  <1>7. AnswersInv'
    BY <1>2, <1>3 DEF AnswersInv
  <1> QED
    BY <1>1, <1>4, <1>5, <1>6, <1>7 DEF EventsInv

(* A program that is no longer new calls fetchPeerList on a deleted socket *)
(* when its timer runs.                                                    *)
LEMMA TimerKeeps ==
    ASSUME EventsInv, NEW p \in Peers, TimerEvent(p)
    PROVE  EventsInv'
  <1>1. TrackerInv'
    BY ProgramsOwn DEF EventsInv
  <1>2. ProgramsTyped /\ SocketsInv /\ SentInv /\ QueuesTyped /\ AnswersInv /\ ThreadsOK
    BY DEF EventsInv, TrackerInv
  <1>3. socket[p] = "deleted" /\ p \in timer
    BY <1>2 DEF TimerEvent, SocketsInv
  <1>4. /\ broken' = broken \cup {p}
        /\ firstTrackerRequest' = firstTrackerRequest /\ firstSeeding' = firstSeeding
        /\ requests' = requests
    BY <1>3 DEF TimerEvent, fetchPeerList
  <1>5. /\ running' = running /\ fetchPosted' = fetchPosted /\ socket' = socket
        /\ seeding' = seeding /\ finished' = finished /\ timer' = timer
        /\ lastTrackerRequest' = lastTrackerRequest
        /\ replies' = replies /\ heard' = heard /\ thread' = thread /\ down' = down
    BY DEF TimerEvent, tracker
  <1>6. ProgramsTyped' /\ SocketsInv'
    BY <1>2, <1>3, <1>4, <1>5 DEF ProgramsTyped, SocketsInv
  <1>7. QueuesTyped' /\ SentInv'
    BY <1>2, <1>4, <1>5, QuietSends DEF ProgramsTyped
  <1>8. AnswersInv'
    BY <1>2, <1>5 DEF AnswersInv
  <1> QED
    BY <1>1, <1>6, <1>7, <1>8 DEF EventsInv

LEMMA FirstFetchKeeps ==
    ASSUME EventsInv, NEW p \in Peers, FirstFetch(p)
    PROVE  EventsInv'
  <1>1. TrackerInv'
    BY ProgramsOwn DEF EventsInv
  <1>2. ProgramsTyped /\ SocketsInv /\ SentInv /\ QueuesTyped /\ AnswersInv /\ ThreadsOK
    BY DEF EventsInv, TrackerInv
  <1>3. /\ p \in fetchPosted /\ fetchPosted' = fetchPosted \ {p}
        /\ running' = running /\ socket' = socket
        /\ seeding' = seeding /\ finished' = finished /\ timer' = timer
        /\ lastTrackerRequest' = lastTrackerRequest
        /\ replies' = replies /\ heard' = heard /\ thread' = thread /\ down' = down
    BY DEF FirstFetch, tracker
  <1>4. Sent(p) = <<>> /\ p \in firstTrackerRequest /\ p \in firstSeeding
    BY <1>2, <1>3 DEF SentInv
  <1> DEFINE e == IF p \in seeding THEN "completed" ELSE "started"
  <1>5. Fetches(p, e)
    <2>1. fetchPeerList(p, p \in seeding, p \in firstSeeding)
      BY DEF FirstFetch
    <2>2. Fetches(p, EventOf(p, p \in seeding, p \in firstSeeding))
      BY <1>2, <2>1, FetchSends
    <2>3. EventOf(p, p \in seeding, p \in firstSeeding) = e
      BY <1>4 DEF EventOf
    <2> QED
      BY <2>2, <2>3
  <1>6. e \in {"started", "completed"} /\ (e = "completed" => p \in seeding)
    OBVIOUS
  <1> HIDE DEF e
  <1>7. ProgramsTyped' /\ SocketsInv'
    BY <1>2, <1>3, <1>5 DEF ProgramsTyped, SocketsInv, Fetches
  <1>8. p \in running' \ fetchPosted'
    BY <1>2, <1>3 DEF ProgramsTyped
  <1>9. QueuesTyped' /\ SentInv'
    <2>1. CASE requests' = requests
      <3>1. \A q \in Peers : q \notin running' \ fetchPosted'
                                => /\ q \in firstTrackerRequest => q \in firstTrackerRequest'
                                   /\ q \in firstSeeding => q \in firstSeeding'
        BY <1>5, <1>8 DEF Fetches
      <3> QED
        BY <1>2, <1>3, <2>1, <3>1, QuietSends DEF ProgramsTyped
    <2>2. CASE requests' = [requests EXCEPT ![p] = @ \o Message(e)]
      BY <1>2, <1>3, <1>4, <1>5, <1>6, <1>8, <2>2, SendingKeeps DEF Fetches
    <2> QED
      BY <1>5, <2>1, <2>2 DEF Fetches
  <1>10. AnswersInv'
    BY <1>2, <1>3 DEF AnswersInv
  <1> QED
    BY <1>1, <1>7, <1>9, <1>10 DEF EventsInv

LEMMA SeedingKeeps ==
    ASSUME EventsInv, NEW p \in Peers, StartSeeding(p)
    PROVE  EventsInv'
  <1>1. TrackerInv'
    BY ProgramsOwn DEF EventsInv
  <1>2. ProgramsTyped /\ SocketsInv /\ SentInv /\ QueuesTyped /\ AnswersInv /\ ThreadsOK
    BY DEF EventsInv, TrackerInv
  <1>3. /\ p \in running \ fetchPosted /\ p \notin seeding
        /\ running' = running /\ socket' = socket /\ fetchPosted' = fetchPosted
        /\ seeding' = seeding \cup {p} /\ finished' = finished \cup {p} /\ timer' = timer
        /\ lastTrackerRequest' = lastTrackerRequest
        /\ replies' = replies /\ heard' = heard /\ thread' = thread /\ down' = down
    BY DEF StartSeeding, tracker
  <1>4. Fetches(p, "completed")
    <2>1. Fetches(p, EventOf(p, TRUE, TRUE))
      BY <1>2, FetchSends DEF StartSeeding
    <2> QED
      BY <2>1 DEF EventOf
  <1>5. ProgramsTyped' /\ SocketsInv'
    BY <1>2, <1>3, <1>4 DEF ProgramsTyped, SocketsInv, Fetches
  <1>6. QueuesTyped' /\ SentInv'
    <2>1. CASE requests' = requests
      <3>1. \A q \in Peers : q \notin running' \ fetchPosted'
                                => /\ q \in firstTrackerRequest => q \in firstTrackerRequest'
                                   /\ q \in firstSeeding => q \in firstSeeding'
        BY <1>3, <1>4 DEF Fetches
      <3> QED
        BY <1>2, <1>3, <2>1, <3>1, QuietSends DEF ProgramsTyped
    <2>2. CASE requests' = [requests EXCEPT ![p] = @ \o Message("completed")]
      BY <1>2, <1>3, <1>4, <2>2, SendingKeeps DEF Fetches
    <2> QED
      BY <1>4, <2>1, <2>2 DEF Fetches
  <1>7. AnswersInv'
    BY <1>2, <1>3 DEF AnswersInv
  <1> QED
    BY <1>1, <1>5, <1>6, <1>7 DEF EventsInv

(* stop(), the tracker's answer, and a crash of the tracker.               *)
LEMMA EndKeeps ==
    ASSUME EventsInv, NEW p \in Peers, Stop(p) \/ (\E socketError \in BOOLEAN : TrackerResponse(p, socketError))
           \/ Crash(p)
    PROVE  EventsInv'
  <1>1. TrackerInv'
    BY ProgramsOwn DEF EventsInv
  <1>2. ProgramsTyped /\ SocketsInv /\ SentInv /\ QueuesTyped /\ AnswersInv
        /\ ThreadsOK /\ RepliesOK
    BY DEF EventsInv, TrackerInv
  <1>3. /\ running' = running /\ fetchPosted' = fetchPosted
        /\ seeding' = seeding /\ finished' = finished /\ broken' = broken
        /\ firstTrackerRequest' = firstTrackerRequest /\ firstSeeding' = firstSeeding
        /\ lastTrackerRequest' \subseteq lastTrackerRequest \cup {p}
        /\ requests' = requests /\ heard' = heard /\ thread' = thread /\ down' \in BOOLEAN
    BY <1>2 DEF Stop, TrackerResponse, Crash, flags, tracker, program, ProgramsTyped
  <1>4. lastTrackerRequest' = lastTrackerRequest \/ p \in running
    BY DEF Stop, TrackerResponse, Crash, flags, program
  <1>5. \/ socket' = socket /\ timer' = timer /\ replies' = replies
        \/ /\ socket[p] = "connected" /\ socket' = [socket EXCEPT ![p] = "deleted"]
           /\ timer' \subseteq timer \cup {p}
           /\ replies' = [replies EXCEPT ![p] = <<>>]
    BY DEF Stop, TrackerResponse, Crash, program
  <1>6. ProgramsTyped'
    BY <1>2, <1>3, <1>4, <1>5 DEF ProgramsTyped, SocketsInv
  <1>7. SocketsInv'
    BY <1>2, <1>3, <1>5 DEF SocketsInv, ThreadsOK
  <1>8. QueuesTyped' /\ SentInv'
    BY <1>2, <1>3, QuietSends DEF ProgramsTyped
  <1>9. AnswersInv'
    <2>1. \A q \in Peers : Len(replies'[q]) <= Len(replies[q])
                         /\ Len(replies'[q]) \in Nat /\ Len(replies[q]) \in Nat
      <3>1. \A q \in Peers : replies'[q] = replies[q] \/ replies'[q] = <<>>
        BY <1>2, <1>5 DEF RepliesOK
      <3> QED
        BY <1>2, <3>1 DEF RepliesOK
    <2>2. \A q \in Peers : Len(heard[q]) \in Nat
      BY <1>2 DEF QueuesTyped
    <2> SUFFICES ASSUME NEW q \in Peers
                 PROVE  /\ Len(replies'[q]) <= Len(heard[q])
                        /\ thread[q] # "reading" => Len(replies'[q]) < Len(heard[q])
      BY <1>3 DEF AnswersInv
    <2>3. /\ Len(replies[q]) <= Len(heard[q])
          /\ thread[q] # "reading" => Len(replies[q]) < Len(heard[q])
      BY <1>2 DEF AnswersInv
    <2> QED
      BY <2>1, <2>2, <2>3
  <1> QED
    BY <1>1, <1>6, <1>7, <1>8, <1>9 DEF EventsInv

-----------------------------------------------------------------------------
(* The steps of a thread of the tracker, which the programs do not notice. *)

LEMMA ThreadKeeps ==
    ASSUME EventsInv, NEW p \in Peers, TrackerInv',
           Thread(p)
    PROVE  /\ ProgramsTyped' /\ SocketsInv'
           /\ (\A q \in Peers : Sent(q)' = Sent(q)) => SentInv'
  <1>1. ProgramsTyped /\ SocketsInv /\ SentInv /\ QueuesTyped
    BY DEF EventsInv
  <1>2. /\ running' = running /\ fetchPosted' = fetchPosted /\ socket' = socket
        /\ seeding' = seeding /\ finished' = finished /\ broken' = broken /\ timer' = timer
        /\ firstTrackerRequest' = firstTrackerRequest /\ firstSeeding' = firstSeeding
        /\ lastTrackerRequest' = lastTrackerRequest /\ down' = down
    BY DEF Thread, ReadRequest, KeepContent, ParseHash, ParsePeer, RegisterClient, LookUp, Answer,
           program, flags
  <1>3. ProgramsTyped' /\ SocketsInv'
    BY <1>1, <1>2 DEF ProgramsTyped, SocketsInv
  <1>4. ASSUME \A q \in Peers : Sent(q)' = Sent(q) PROVE SentInv'
    BY <1>1, <1>2, <1>4 DEF SentInv
  <1> QED
    BY <1>3, <1>4

LEMMA ReadKeeps ==
    ASSUME EventsInv, NEW p \in Peers, ReadRequest(p)
    PROVE  EventsInv'
  <1>1. TrackerInv /\ TrackerInv'
    BY ReadOwn DEF EventsInv
  <1>2. QueuesTyped /\ AnswersInv /\ ThreadsOK /\ RepliesOK
    BY <1>1 DEF EventsInv, TrackerInv
  <1>3. PICK n \in 1 .. Len(requests[p]) :
            /\ requests' = [requests EXCEPT ![p] = SubSeq(@, n + 1, Len(@))]
            /\ heard' = [heard EXCEPT ![p] = @ \o SubSeq(requests[p], 1, n)]
    BY DEF ReadRequest, Ends
  <1>4. /\ QueuesTyped'
        /\ \A q \in Peers : Sent(q)' = Sent(q)
        /\ Len(heard'[p]) >= Len(heard[p]) + 1
        /\ \A q \in Peers \ {p} : heard'[q] = heard[q]
    BY <1>2, <1>3, ReadingKeeps
  <1>5. ProgramsTyped' /\ SocketsInv' /\ SentInv'
    BY <1>1, <1>2, <1>4, ThreadKeeps DEF Thread
  <1>6. AnswersInv'
    <2>1. replies' = replies /\ thread[p] = "reading"
          /\ \A q \in Peers \ {p} : thread'[q] = thread[q]
      BY <1>2 DEF ReadRequest, ThreadsOK
    <2> SUFFICES ASSUME NEW q \in Peers
                 PROVE  /\ Len(replies[q]) <= Len(heard'[q])
                        /\ thread'[q] # "reading" => Len(replies[q]) < Len(heard'[q])
      BY <2>1 DEF AnswersInv
    <2>2. /\ Len(replies[q]) <= Len(heard[q])
          /\ thread[q] # "reading" => Len(replies[q]) < Len(heard[q])
      BY <1>2 DEF AnswersInv
    <2>3. Len(replies[q]) \in Nat /\ Len(heard[q]) \in Nat /\ Len(heard'[q]) \in Nat
      BY <1>2, <1>4 DEF RepliesOK, QueuesTyped
    <2>4. CASE q = p
      BY <1>4, <2>1, <2>2, <2>3, <2>4
    <2>5. CASE q # p
      BY <1>4, <2>1, <2>2, <2>5
    <2> QED
      BY <2>4, <2>5
  <1> QED
    BY <1>1, <1>4, <1>5, <1>6 DEF EventsInv

LEMMA AnswerKeeps ==
    ASSUME EventsInv, NEW p \in Peers, Thread(p), ~ReadRequest(p)
    PROVE  EventsInv'
  <1>1. TrackerInv /\ TrackerInv'
    BY ThreadOwn DEF EventsInv
  <1>2. QueuesTyped /\ AnswersInv /\ ThreadsOK /\ RepliesOK
    BY <1>1 DEF EventsInv, TrackerInv
  <1>3. requests' = requests /\ heard' = heard
    BY DEF Thread, KeepContent, ParseHash, ParsePeer, RegisterClient, LookUp, Answer
  <1>4. QueuesTyped'
    BY <1>2, <1>3 DEF QueuesTyped
  <1>5. \A q \in Peers : Sent(q)' = Sent(q)
    BY <1>3 DEF Sent
  <1>6. ProgramsTyped' /\ SocketsInv' /\ SentInv'
    BY <1>1, <1>2, <1>5, ThreadKeeps
  <1>7. /\ thread[p] # "reading"
        /\ \A q \in Peers \ {p} : thread'[q] = thread[q] /\ replies'[q] = replies[q]
        /\ \/ replies'[p] = replies[p]
           \/ thread'[p] = "reading" /\ \E a : replies'[p] = Append(replies[p], a)
    <2>1. CASE KeepContent(p) \/ ParseHash(p) \/ ParsePeer(p) \/ RegisterClient(p)
      BY <1>2, <2>1 DEF KeepContent, ParseHash, ParsePeer, RegisterClient, ThreadsOK
    <2>2. ASSUME NEW peer, Reply(p, peer)
          PROVE  /\ thread'[p] = "reading"
                 /\ \A q \in Peers \ {p} : thread'[q] = thread[q] /\ replies'[q] = replies[q]
                 /\ replies'[p] = replies[p] \/ \E a : replies'[p] = Append(replies[p], a)
      BY <1>2, <2>2 DEF Reply, ThreadsOK, RepliesOK
    <2>3. CASE LookUp(p)
      BY <1>2, <2>2, <2>3 DEF LookUp, LookUpAgain, ThreadsOK
    <2>4. CASE Answer(p)
      BY <2>2, <2>4 DEF Answer
    <2> QED
      BY <2>1, <2>3, <2>4 DEF Thread
  <1>8. AnswersInv'
    <2> SUFFICES ASSUME NEW q \in Peers
                 PROVE  /\ Len(replies'[q]) <= Len(heard[q])
                        /\ thread'[q] # "reading" => Len(replies'[q]) < Len(heard[q])
      BY <1>3 DEF AnswersInv
    <2>1. /\ Len(replies[q]) <= Len(heard[q])
          /\ thread[q] # "reading" => Len(replies[q]) < Len(heard[q])
      BY <1>2 DEF AnswersInv
    <2>2. replies[q] \in Seq(Answers) /\ replies'[q] \in Seq(Answers)
          /\ Len(replies[q]) \in Nat /\ Len(heard[q]) \in Nat
      BY <1>1, <1>2 DEF RepliesOK, QueuesTyped, TrackerInv
    <2>3. CASE q # p
      BY <1>7, <2>1, <2>3
    <2>4. CASE q = p /\ replies'[p] = replies[p]
      BY <1>7, <2>1, <2>2, <2>4
    <2>5. CASE q = p /\ thread'[p] = "reading" /\ \E a : replies'[p] = Append(replies[p], a)
      <3>1. Len(replies'[p]) = Len(replies[p]) + 1
        BY <2>2, <2>5
      <3> QED
        BY <1>7, <2>1, <2>2, <2>5, <3>1
    <2> QED
      BY <1>7, <2>3, <2>4, <2>5
  <1> QED
    BY <1>1, <1>4, <1>6, <1>8 DEF EventsInv

-----------------------------------------------------------------------------
LEMMA InitEvents == Init => EventsInv
  <1> SUFFICES ASSUME Init PROVE EventsInv
    OBVIOUS
  <1>1. \A p \in Peers : requests[p] = <<>> /\ heard[p] = <<>> /\ replies[p] = <<>>
    BY DEF Init
  <1>2. QueuesTyped
    <2>1. <<>> \in Seq(Items)
      OBVIOUS
    <2> QED
      BY <2>1 DEF Init, QueuesTyped
  <1>3. \A p \in Peers : Sent(p) = <<>> /\ Len(Sent(p)) = 0 /\ DOMAIN Sent(p) = {}
    <2>1. <<>> \in Seq(Items) /\ Len(<<>>) = 0 /\ DOMAIN <<>> = {}
      OBVIOUS
    <2>2. <<>> \o <<>> = <<>>
      BY <2>1, ConcatEmptySeq
    <2>3. \A p \in Peers : Sent(p) = <<>>
      BY <1>1, <2>2 DEF Sent
    <2> QED
      BY <2>1, <2>3
  <1>4. SentInv
    <2>1. \A p \in Peers : p \in firstTrackerRequest /\ p \in firstSeeding
      BY DEF Init
    <2>2. \A p \in Peers : Orderly(Sent(p)) /\ NoneCompleted(Sent(p))
      BY <1>3, Zenon DEF Orderly, NoneCompleted
    <2>3. \A p \in Peers : Len(Sent(p)) <= 8 /\ Len(Sent(p)) <= 4
      <3>1. 0 <= 8 /\ 0 <= 4
        OBVIOUS
      <3> QED
        BY <1>3, <3>1, Zenon
    <2>4. \A p \in Peers : Sent(p) = <<>>
      BY <1>3
    <2> QED
      BY <2>1, <2>2, <2>3, <2>4, Zenon DEF SentInv
  <1>5. AnswersInv
    <2>1. \A p \in Peers : thread[p] = "reading"
      BY DEF Init
    <2>2. \A p \in Peers : Len(replies[p]) <= Len(heard[p])
      <3>1. Len(<<>>) <= Len(<<>>)
        OBVIOUS
      <3> QED
        BY <1>1, <3>1, Zenon
    <2> QED
      BY <2>1, <2>2, Zenon DEF AnswersInv
  <1>6. ProgramsTyped /\ SocketsInv
    BY TrackerAssumption DEF Init, ProgramsTyped, SocketsInv
  <1> QED
    BY <1>2, <1>4, <1>5, <1>6, InitOwn DEF EventsInv

LEMMA NextEvents == EventsInv /\ [Next]_vars => EventsInv'
  <1> SUFFICES ASSUME EventsInv, [Next]_vars PROVE EventsInv'
    OBVIOUS
  <1>1. CASE UNCHANGED vars
    <2>1. TrackerInv'
      BY <1>1, StepOwn DEF EventsInv
    <2>2. QueuesTyped' /\ ProgramsTyped' /\ SocketsInv' /\ SentInv' /\ AnswersInv'
      BY <1>1 DEF vars, program, tracker, flags, EventsInv, QueuesTyped, ProgramsTyped,
                  SocketsInv, SentInv, AnswersInv, Sent
    <2> QED
      BY <2>1, <2>2 DEF EventsInv
  <1>2. CASE Next
    BY <1>2, StartKeeps, FirstFetchKeeps, TimerKeeps, SeedingKeeps, EndKeeps, ReadKeeps,
       AnswerKeeps DEF Next
  <1> QED
    BY <1>1, <1>2

LEMMA EventsKept == Spec => []EventsInv
  BY InitEvents, NextEvents, PTL DEF Spec

(* What was read is the beginning of what was sent.                        *)
LEMMA HeardInOrder == EventsInv => EventsInOrder
  <1> SUFFICES ASSUME EventsInv, NEW p \in Peers PROVE Orderly(heard[p])
    BY DEF EventsInOrder
  <1>1. heard[p] \in Seq(Items) /\ requests[p] \in Seq(Items)
    BY DEF EventsInv, QueuesTyped
  <1>2. Orderly(Sent(p))
    BY DEF EventsInv, SentInv
  <1>3. DOMAIN heard[p] = 1 .. Len(heard[p]) /\ Len(heard[p]) \in Nat
    BY <1>1
  <1>4. \A i \in DOMAIN heard[p] : i \in DOMAIN Sent(p) /\ Sent(p)[i] = heard[p][i]
    BY <1>1, ItemsConcat DEF Sent
  <1> QED
    BY <1>2, <1>3, <1>4 DEF Orderly

LEMMA AllTyped == EventsInv => TypeOK
  <1> SUFFICES ASSUME EventsInv PROVE TypeOK
    OBVIOUS
  <1>1. ASSUME NEW p \in Peers
        PROVE  /\ Len(requests[p]) <= 8 /\ \A i \in DOMAIN requests[p] : requests[p][i] \in Items
               /\ Len(replies[p]) <= 8 /\ \A i \in DOMAIN replies[p] : replies[p][i] \in Answers
               /\ \A i \in DOMAIN heard[p] : heard[p][i] \in Items
    <2>1. heard[p] \in Seq(Items) /\ requests[p] \in Seq(Items) /\ replies[p] \in Seq(Answers)
      BY DEF EventsInv, QueuesTyped, TrackerInv, RepliesOK
    <2>2. Len(heard[p]) + Len(requests[p]) <= 8
      <3>1. Len(Sent(p)) <= 8
        BY DEF EventsInv, SentInv
      <3> QED
        BY <2>1, <3>1, ItemsConcat DEF Sent
    <2>3. Len(replies[p]) <= Len(heard[p])
      BY DEF EventsInv, AnswersInv
    <2>4. Len(heard[p]) \in Nat /\ Len(requests[p]) \in Nat /\ Len(replies[p]) \in Nat
      BY <2>1
    <2>5. Len(requests[p]) <= 8 /\ Len(replies[p]) <= 8
      <3>1. \A h, r, a \in Nat : h + r <= 8 /\ a <= h => r <= 8 /\ a <= 8
        OBVIOUS
      <3> QED
        BY <2>2, <2>3, <2>4, <3>1
    <2> QED
      BY <2>1, <2>5
  <1>2. ProgramsTyped /\ ThreadsOK
    BY DEF EventsInv, TrackerInv
  <1> QED
    BY <1>1, <1>2 DEF TypeOK, ProgramsTyped, ThreadsOK, Record

(* Every variable stays in its set, and at most two requests of four items  *)
(* each, and their answers, are under way for a program.                   *)
THEOREM TypeCorrect == Spec => []TypeOK
  BY EventsKept, AllTyped, PTL

(* The tracker hears of each torrent that it was started and then that it  *)
(* was completed, each at most once, for any number of programs.           *)
THEOREM EventsStayInOrder == Spec => []EventsInOrder
  BY EventsKept, HeardInOrder, PTL
=============================================================================
