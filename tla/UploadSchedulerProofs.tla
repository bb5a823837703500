----------------------- MODULE UploadSchedulerProofs -----------------------
(***************************************************************************)
(* Theorems about the upload scheduler, for every number of connections    *)
(* and of uploads.                                                         *)
(***************************************************************************)
EXTENDS UploadScheduler, FiniteSetTheorems, TLAPS

(* Who is unchoked before being set up is remembered: else the set-up      *)
(* would add a downloader to those that are unchoked.                      *)
EarlyUnchokes == unchoked \ connected \subseteq early

UploadInv == TypeOK /\ EarlyUnchokes /\ UploadsAreBounded

-----------------------------------------------------------------------------
(* A set of clients within another is no larger.                           *)
LEMMA FewerClients ==
    ASSUME NEW S, NEW T, T \subseteq Clients, S \subseteq T
    PROVE  /\ Cardinality(S) \in Nat /\ Cardinality(T) \in Nat
           /\ Cardinality(S) <= Cardinality(T)
  <1>1. IsFiniteSet(T)
    BY FS_Subset, UploadAssumption
  <1> QED
    BY <1>1, FS_Subset, FS_CardinalityType

(* A bound on some of the clients is a bound on fewer of them.             *)
LEMMA StillBounded ==
    ASSUME NEW S, NEW T, T \subseteq Clients, S \subseteq T,
           Cardinality(T) <= MaxUploads + 1
    PROVE  Cardinality(S) <= MaxUploads + 1
  <1>1. Cardinality(S) \in Nat /\ Cardinality(T) \in Nat /\ Cardinality(S) <= Cardinality(T)
    BY FewerClients
  <1> QED
    BY <1>1, UploadAssumption

-----------------------------------------------------------------------------
LEMMA InitBounded == Init => UploadInv
  <1> SUFFICES ASSUME Init PROVE UploadInv
    OBVIOUS
  <1>1. (unchoked \cap Downloaders) \ early = {}
    BY DEF Init
  <1>2. Cardinality((unchoked \cap Downloaders) \ early) = 0
    BY <1>1, FS_EmptySet
  <1> QED
    BY <1>2, UploadAssumption DEF Init, UploadInv, TypeOK, EarlyUnchokes, UploadsAreBounded

(* Between two calls nobody joins the downloaders that are unchoked.       *)
LEMMA BetweenCalls ==
    ASSUME UploadInv,
           \/ TorrentCompletes
           \/ \E c \in Clients :
                \/ ConnectToPeers(c) \/ SetupIncomingConnection(c)
                \/ SetupOutgoingConnection(c) \/ RemoveClient(c)
                \/ Interested(c) \/ NotInterested(c) \/ PeerCompletes(c)
    PROVE  UploadInv'
  <1> DEFINE Seats == (unchoked \cap Downloaders) \ early
  <1> USE DEF UploadInv, TypeOK, EarlyUnchokes, UploadsAreBounded, Downloaders
  <1>1. Seats \subseteq Clients
    OBVIOUS
  <1>2. SUFFICES TypeOK' /\ EarlyUnchokes' /\ Seats' \subseteq Seats
    BY <1>1, <1>2, StillBounded
  <1>3. CASE TorrentCompletes
    BY <1>3 DEF TorrentCompletes
  <1>4. ASSUME NEW c \in Clients, ConnectToPeers(c)
        PROVE  TypeOK' /\ EarlyUnchokes' /\ Seats' \subseteq Seats
    BY <1>4 DEF ConnectToPeers
  <1>5. ASSUME NEW c \in Clients, SetupIncomingConnection(c)
        PROVE  TypeOK' /\ EarlyUnchokes' /\ Seats' \subseteq Seats
    BY <1>5 DEF SetupIncomingConnection
  <1>6. ASSUME NEW c \in Clients, SetupOutgoingConnection(c)
        PROVE  TypeOK' /\ EarlyUnchokes' /\ Seats' \subseteq Seats
    BY <1>6 DEF SetupOutgoingConnection
  <1>7. ASSUME NEW c \in Clients, RemoveClient(c)
        PROVE  TypeOK' /\ EarlyUnchokes' /\ Seats' \subseteq Seats
    BY <1>7 DEF RemoveClient, RemoveClients
  <1>8. ASSUME NEW c \in Clients, Interested(c) \/ NotInterested(c)
        PROVE  TypeOK' /\ EarlyUnchokes' /\ Seats' \subseteq Seats
    BY <1>8 DEF Interested, NotInterested
  <1>9. ASSUME NEW c \in Clients, PeerCompletes(c)
        PROVE  TypeOK' /\ EarlyUnchokes' /\ Seats' \subseteq Seats
    <2>1. CASE seeding
      BY <1>9, <2>1 DEF PeerCompletes, RemoveClients
    <2>2. CASE ~seeding
      BY <1>9, <2>2 DEF PeerCompletes
    <2> QED
      BY <2>1, <2>2
  <1> QED
    BY <1>3, <1>4, <1>5, <1>6, <1>7, <1>8, <1>9

(* A call: of the downloaders only the fastest and the lucky one are left  *)
(* unchoked.                                                               *)
LEMMA InACall ==
    ASSUME UploadInv, NEW top \in Fastest, NEW dropped \in SUBSET (Downloaders \ top),
           NEW lucky, lucky \subseteq LeftOver(top),
           IsFiniteSet(lucky), Cardinality(lucky) <= 1,
           Schedule(top, dropped, lucky)
    PROVE  UploadInv'
  <1> DEFINE others == (Downloaders \ top) \cap unchoked
             Seats  == (unchoked \cap Downloaders) \ early
  <1> USE DEF UploadInv, TypeOK, EarlyUnchokes, UploadsAreBounded
  <1>1. top \subseteq Downloaders /\ Cardinality(top) = Smaller(MaxUploads, Cardinality(Downloaders))
    BY DEF Fastest
  <1>2. /\ dropped \subseteq others
        /\ connections' = connections \ dropped /\ connected' = connected \ dropped
        /\ seeds' = seeds \ dropped /\ interested' = interested \ dropped
        /\ unchoked' = ((unchoked \ others) \cup top) \cup lucky
        /\ early' = (early \ Downloaders) \cup ((lucky \ connected) \ unchoked)
        /\ seeding' = seeding
    BY DEF Schedule, RemoveClients
  <1>3. lucky \subseteq connections /\ lucky \cap others = {}
    BY DEF LeftOver
  <1>4. TypeOK'
    BY <1>1, <1>2, <1>3 DEF Downloaders
  <1>5. EarlyUnchokes'
    BY <1>1, <1>2, <1>3 DEF Downloaders
  <1>6. Seats' \subseteq top \cup lucky
    BY <1>1, <1>2, <1>3 DEF Downloaders
  <1>7. /\ IsFiniteSet(top) /\ Cardinality(top) \in Nat /\ Cardinality(top) <= MaxUploads
        /\ Cardinality(lucky) \in Nat
    <2>1. Downloaders \subseteq Clients
      BY DEF Downloaders
    <2>2. IsFiniteSet(top)
      BY <1>1, <2>1, FS_Subset, UploadAssumption
    <2>3. Cardinality(top) \in Nat /\ Cardinality(Downloaders) \in Nat
      BY <1>1, <2>1, FewerClients
    <2> QED
      BY <1>1, <2>2, <2>3, FS_CardinalityType, UploadAssumption DEF Smaller
  <1>8. /\ Cardinality(top \cup lucky) = Cardinality(top) + Cardinality(lucky)
                                           - Cardinality(top \cap lucky)
        /\ IsFiniteSet(top \cup lucky)
    BY <1>7, FS_Union
  <1>9. Cardinality(top \cap lucky) \in Nat
    BY <1>7, FS_Intersection, FS_CardinalityType
  <1>10. Cardinality(top \cup lucky) <= MaxUploads + 1
    BY <1>7, <1>8, <1>9, UploadAssumption
  <1>11. top \cup lucky \subseteq Clients
    BY <1>1, <1>3 DEF Downloaders
  <1>12. UploadsAreBounded'
    BY <1>6, <1>10, <1>11, StillBounded
  <1> QED
    BY <1>4, <1>5, <1>12

LEMMA StepBounded == UploadInv /\ [Next]_vars => UploadInv'
  <1> SUFFICES ASSUME UploadInv, [Next]_vars PROVE UploadInv'
    OBVIOUS
  <1>1. CASE ScheduleNobody
    <2>1. PICK top \in Fastest : \E dropped \in SUBSET (Downloaders \ top) :
              LeftOver(top) = {} /\ Schedule(top, dropped, {})
      BY <1>1 DEF ScheduleNobody
    <2>2. IsFiniteSet({}) /\ Cardinality({}) <= 1
      BY FS_EmptySet
    <2> QED
      BY <2>1, <2>2, InACall
  <1>2. ASSUME NEW c \in Clients, ScheduleLucky(c) PROVE UploadInv'
    <2>1. PICK top \in Fastest : \E dropped \in SUBSET (Downloaders \ top) :
              c \in LeftOver(top) /\ Schedule(top, dropped, {c})
      BY <1>2 DEF ScheduleLucky
    <2>2. IsFiniteSet({c}) /\ Cardinality({c}) <= 1
      <3>1. IsFiniteSet({c}) /\ Cardinality({c}) = 1
        BY FS_Singleton, Zenon
      <3> QED
        BY <3>1
    <2>3. {c} \subseteq LeftOver(top)
      BY <2>1
    <2> QED
      BY <2>1, <2>2, <2>3, InACall
  <1>3. CASE UNCHANGED vars
    BY <1>3 DEF vars, UploadInv, TypeOK, EarlyUnchokes, UploadsAreBounded, Downloaders
  <1> QED
    BY <1>1, <1>2, <1>3, BetweenCalls DEF Next, ScheduleUploads

(* scheduleUploads leaves at most MaxUploads + 1 peers unchoked that can   *)
(* use it, and nothing that happens between its calls adds one.            *)
THEOREM UploadsStayBounded == Spec => []UploadsAreBounded
  <1>1. UploadInv => UploadsAreBounded
    BY DEF UploadInv
  <1> QED
    BY InitBounded, StepBounded, <1>1, PTL DEF Spec

(* Types; only a connection of the list has flags.                         *)
THEOREM TypeCorrect == Spec => []TypeOK
  <1>1. UploadInv => TypeOK
    BY DEF UploadInv
  <1> QED
    BY InitBounded, StepBounded, <1>1, PTL DEF Spec
=============================================================================
