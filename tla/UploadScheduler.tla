-------------------------- MODULE UploadScheduler --------------------------
(***************************************************************************)
(* Whom a torrent uploads to: TorrentClient::scheduleUploads               *)
(* (src/Client/torrentclient.cpp) over all its connections.                *)
(*                                                                         *)
(* A timer calls scheduleUploads every ten seconds.  Between two calls     *)
(* connections are begun, set up and lost, peers show interest, lose it    *)
(* and complete their download, and none of that chokes or unchokes.       *)
(* Transfer speeds are left out: any order of the connections is possible. *)
(* What one connection and its peer make of it is in PeerWireClient.tla.   *)
(***************************************************************************)
EXTENDS Integers, FiniteSets

CONSTANTS
    Clients,      \* the PeerWireClient objects
    MaxUploads    \* 4 in the code

ASSUME UploadAssumption == IsFiniteSet(Clients) /\ MaxUploads \in Nat

VARIABLES
    connections,  \* TorrentClient's list
    connected,    \* those whose socket is in ConnectedState
    seeds,        \* those whose peer announced every piece
    interested,   \* PeerIsInterested
    unchoked,     \* ChokingPeer is not set
    seeding,      \* the torrent's own state is Seeding
    early         \* unchoked when they were no downloaders, and never choked since

vars == <<connections, connected, seeds, interested, unchoked, seeding, early>>

(* The connections scheduleUploads sorts by speed.                         *)
Downloaders == (connections \cap connected) \ seeds

Smaller(m, n) == IF m < n THEN m ELSE n

Init ==
    /\ connections = {} /\ connected = {} /\ seeds = {}
    /\ interested = {} /\ unchoked = {} /\ early = {}
    /\ seeding \in BOOLEAN

-----------------------------------------------------------------------------
(* What happens between two calls.                                         *)

(* connectToPeers and setupIncomingConnection put new objects in the list, *)
(* the first before their socket is connected.                             *)
ConnectToPeers(c) ==
    /\ c \notin connections
    /\ connections' = connections \cup {c}
    /\ UNCHANGED <<connected, seeds, interested, unchoked, seeding, early>>

SetupIncomingConnection(c) ==
    /\ c \notin connections
    /\ connections' = connections \cup {c}
    /\ connected' = connected \cup {c}
    /\ UNCHANGED <<seeds, interested, unchoked, seeding, early>>

SetupOutgoingConnection(c) ==
    /\ c \in connections \ connected
    /\ connected' = connected \cup {c}
    /\ UNCHANGED <<connections, seeds, interested, unchoked, seeding, early>>

(* Mutant: the interest of a peer outlives its connection.                 *)
RemoveClientsOnly(gone) ==
    /\ connections' = connections \ gone
    /\ connected' = connected \ gone
    /\ seeds' = seeds \ gone
    /\ UNCHANGED interested

(* removeClient: the object goes, with its flags.                          *)
RemoveClients(gone) ==
    /\ connections' = connections \ gone
    /\ connected' = connected \ gone
    /\ seeds' = seeds \ gone
    /\ interested' = interested \ gone

RemoveClient(c) ==
    /\ c \in connections
    /\ RemoveClients({c})
    /\ unchoked' = unchoked \ {c} /\ early' = early \ {c}
    /\ UNCHANGED seeding

Interested(c) ==
    /\ c \in (connections \cap connected) \ interested
    /\ interested' = interested \cup {c}
    /\ UNCHANGED <<connections, connected, seeds, unchoked, seeding, early>>

NotInterested(c) ==
    /\ c \in interested
    /\ interested' = interested \ {c}
    /\ UNCHANGED <<connections, connected, seeds, unchoked, seeding, early>>

(* peerPiecesAvailable with all pieces: a seed is dropped by a seed.       *)
PeerCompletes(c) ==
    /\ c \in Downloaders
    /\ IF seeding
       THEN /\ RemoveClients({c})
            /\ unchoked' = unchoked \ {c} /\ early' = early \ {c}
       ELSE seeds' = seeds \cup {c}
            /\ UNCHANGED <<connections, connected, interested, unchoked, early>>
    /\ UNCHANGED seeding

(* The last piece is verified: seeds stay connected.                       *)
TorrentCompletes ==
    /\ ~seeding /\ seeding' = TRUE
    /\ UNCHANGED <<connections, connected, seeds, interested, unchoked, early>>

-----------------------------------------------------------------------------
(* One call.  The fastest downloaders are unchoked; the others that were   *)
(* unchoked are choked, or now and then dropped; and one of those left     *)
(* over is unchoked.                                                       *)

(* Mutant: the loop unchokes one more than it may.                         *)
OneMore ==
    {top \in SUBSET Downloaders :
        Cardinality(top) = Smaller(MaxUploads + 1, Cardinality(Downloaders))}

(* The fastest downloaders, when any order of speeds is possible.          *)
Fastest ==
    {top \in SUBSET Downloaders :
        Cardinality(top) = Smaller(MaxUploads, Cardinality(Downloaders))}

(* Mutant: of the choked downloaders none is left over.                    *)
LeftWithoutDownloaders(top) == connections \ Downloaders

(* What remains of allClients: seeds, connections that are not set up, and *)
(* the downloaders that are choked and interested.                         *)
LeftOver(top) ==
    connections \ (top \cup {c \in Downloaders : c \in unchoked \/ c \notin interested})

(* A call in which these are the fastest, dropped is whom a random number  *)
(* aborts, and lucky the one that is unchoked in the end.                  *)
Schedule(top, dropped, lucky) ==
    LET others == (Downloaders \ top) \cap unchoked IN
    /\ dropped \subseteq others
    /\ RemoveClients(dropped)
    /\ unchoked' = ((unchoked \ others) \cup top) \cup lucky
    /\ early' = (early \ Downloaders) \cup ((lucky \ connected) \ unchoked)
    /\ UNCHANGED seeding

(* The call whose random number falls on c.                                *)
ScheduleLucky(c) ==
    \E top \in Fastest : \E dropped \in SUBSET (Downloaders \ top) :
        c \in LeftOver(top) /\ Schedule(top, dropped, {c})

ScheduleNobody ==
    \E top \in Fastest : \E dropped \in SUBSET (Downloaders \ top) :
        LeftOver(top) = {} /\ Schedule(top, dropped, {})

ScheduleUploads == ScheduleNobody \/ \E c \in Clients : ScheduleLucky(c)

Next ==
    \/ ScheduleUploads \/ TorrentCompletes
    \/ \E c \in Clients :
         \/ ConnectToPeers(c) \/ SetupIncomingConnection(c) \/ SetupOutgoingConnection(c)
         \/ RemoveClient(c) \/ Interested(c) \/ NotInterested(c) \/ PeerCompletes(c)

Spec == Init /\ [][Next]_vars

(* The timer runs, and qrand(), which picks among those left over, picks   *)
(* each of them sooner or later.                                           *)
FairSpec ==
    /\ Spec /\ WF_vars(ScheduleUploads)
    /\ \A c \in Clients : SF_vars(ScheduleLucky(c))

-----------------------------------------------------------------------------
(* Properties.                                                             *)

(* Types; only a connection of the list has flags.                         *)
TypeOK ==
    /\ connections \subseteq Clients
    /\ connected \subseteq connections /\ seeds \subseteq connected
    /\ interested \subseteq connected
    /\ unchoked \subseteq connections /\ early \subseteq unchoked
    /\ seeding \in BOOLEAN

(* At any time, not only after a call, at most MaxUploads + 1 peers that   *)
(* can use it are unchoked.  Not counted are those that the optimistic     *)
(* unchoke fell on before they were set up: they come on top until the     *)
(* next call visits them.                                                  *)
UploadsAreBounded ==
    Cardinality((unchoked \cap Downloaders) \ early) <= MaxUploads + 1

(* A peer that stays connected, incomplete and interested is unchoked in   *)
(* the end, however slow it is and whoever else there is.                  *)
NobodyStarves ==
    \A c \in Clients :
        (c \in Downloaders \cap interested)
            ~> (c \in unchoked \/ c \notin Downloaders \cap interested)
=============================================================================
