------------------------ MODULE TorrentClientProofs ------------------------
(***************************************************************************)
(* Theorems about the download side of a torrent, for every number of      *)
(* connections, every length of file, piece and block, and every limit on  *)
(* requests.                                                               *)
(*                                                                         *)
(* The first part rests on what the slots do with pieces, blocks and       *)
(* verdicts.  Which blocks are requested of which connection does not      *)
(* matter to it: DownloadInv mentions neither the marks of blocks nor the  *)
(* payloads and requests of connections.                                   *)
(*                                                                         *)
(* The second part, from "Lists" on, is about those: who is given a piece, *)
(* which blocks are asked of whom, and that marks, requests, payloads and  *)
(* the list of pieces in progress agree.  It rests on lemmas about the     *)
(* lists the code keeps, on WorkInv, and on DownloadInv of the first part. *)
(***************************************************************************)
EXTENDS TorrentClient, FiniteSetTheorems, FunctionTheorems, WellFoundedInduction,
        NaturalsInduction, TLAPS

-----------------------------------------------------------------------------
(* The inductive invariant.                                                *)

PiecesTyped ==
    /\ completedPieces \subseteq Pieces /\ incompletePieces \subseteq Pieces
    /\ completedBlocks \in [Pieces -> SUBSET Int]
    /\ verifying \in [Pieces -> Nat]

(* Nothing is complete or missing before the file was looked at; only      *)
(* missing pieces are begun and have blocks.  Wrong data is that of begun  *)
(* pieces and of those overrun, which are complete or being verified.      *)
PiecesInv ==
    /\ verification # "done" => completedPieces = {} /\ incompletePieces = {}
    /\ completedPieces \cap incompletePieces = {}
    /\ pendingPieces \subseteq incompletePieces
    /\ \A p \in Pieces \ pendingPieces : completedBlocks[p] = {}
    /\ \A w \in corrupt : \E p \in pendingPieces \cup overrun : \E b \in BlocksOf[p] : w = <<p, b>>
    /\ \A p \in overrun : p \in Pieces /\ (p \in completedPieces \/ verifying[p] > 0)

DownloadInv == /\ PiecesTyped
               /\ PiecesInv
               /\ OneVerificationEach
               /\ CompletedAreGenuine
               /\ NeverEndgame

-----------------------------------------------------------------------------

LEMMA PiecesFinite == IsFiniteSet(Pieces)
  <1>1. NumPieces \in Int
    BY TCAssumption DEF NumPieces
  <1> QED
    BY <1>1, FS_Interval DEF Pieces

(* The condition for the endgame is never met while the begun pieces are   *)
(* missing ones.                                                           *)
LEMMA NoMoreBegunThanMissing ==
    ASSUME NEW missing \in SUBSET Pieces, NEW begun \in SUBSET missing
    PROVE  ~(Cardinality(begun) > Cardinality(missing))
  <1>1. IsFiniteSet(missing)
    BY PiecesFinite, FS_Subset
  <1>2. Cardinality(begun) <= Cardinality(missing) /\ IsFiniteSet(begun)
    BY <1>1, FS_Subset
  <1>3. Cardinality(begun) \in Nat /\ Cardinality(missing) \in Nat
    BY <1>1, <1>2, FS_CardinalityType
  <1> QED
    BY <1>2, <1>3

LEMMA StateOnConnecting ==
    ASSUME DownloadInv
    PROVE  StateWhenConnected # "Endgame"
  <1>1. ~(Cardinality(pendingPieces) > Cardinality(incompletePieces))
    BY NoMoreBegunThanMissing DEF DownloadInv, PiecesTyped, PiecesInv
  <1> QED
    BY <1>1 DEF StateWhenConnected, DownloadInv, NeverEndgame

(* A slot that concerns neither pieces nor blocks nor verdicts.            *)
LEMMA OtherSlots ==
    ASSUME DownloadInv, state' # "Endgame",
           UNCHANGED <<pendingPieces, completedBlocks, lists, verification, verifying>>,
           UNCHANGED <<corrupt, overrun>>
    PROVE  DownloadInv'
  BY DEF DownloadInv, PiecesTyped, PiecesInv, OneVerificationEach, CompletedAreGenuine,
         NeverEndgame, lists, BlocksLeft

LEMMA InitHolds == Init => DownloadInv
  BY DEF Init, DownloadInv, PiecesTyped, PiecesInv, OneVerificationEach,
         CompletedAreGenuine, NeverEndgame

(* start() asks for the verification of the file.                          *)
LEMMA StartHolds == DownloadInv /\ Start => DownloadInv'
  <1> SUFFICES ASSUME DownloadInv, Start PROVE DownloadInv'
    OBVIOUS
  <1>1. /\ verification = "none" /\ verification' = "asked" /\ state' = "Preparing"
        /\ UNCHANGED <<pendingPieces, completedBlocks, completedPieces, incompletePieces,
                       verifying, corrupt, overrun>>
    BY DEF Start, piece, lists
  <1> QED
    BY <1>1 DEF DownloadInv, PiecesTyped, PiecesInv, OneVerificationEach,
                CompletedAreGenuine, NeverEndgame, BlocksLeft

(* The verdict on the whole file comes before any piece is begun.          *)
LEMMA VerificationHolds ==
    ASSUME DownloadInv, NEW found \in SUBSET Pieces, NEW l \in BOOLEAN,
           FullVerificationDone(found, l)
    PROVE  DownloadInv'
  <1>1. /\ verification = "asked" /\ verification' = "done"
        /\ completedPieces' = found /\ incompletePieces' = Pieces \ found
        /\ state' \in {state, "Seeding", "Searching"}
        /\ UNCHANGED <<pendingPieces, completedBlocks, verifying, corrupt, overrun>>
    BY DEF FullVerificationDone, piece
  <1>2. pendingPieces = {}
    BY <1>1 DEF DownloadInv, PiecesInv
  <1>3. \A p \in Pieces : verifying[p] = 0
    BY <1>2 DEF DownloadInv, PiecesTyped, OneVerificationEach
  <1>4. overrun = {}
    BY <1>1, <1>3 DEF DownloadInv, PiecesInv
  <1>5. corrupt = {}
    BY <1>2, <1>4 DEF DownloadInv, PiecesInv
  <1>6. PiecesTyped' /\ PiecesInv' /\ OneVerificationEach' /\ NeverEndgame'
    BY <1>1, <1>2, <1>3, <1>4, <1>5 DEF DownloadInv, PiecesTyped, PiecesInv,
                                        OneVerificationEach, NeverEndgame
  <1> QED
    BY <1>1, <1>4, <1>5, <1>6 DEF DownloadInv, CompletedAreGenuine

(* A block is received: only a block that its begun piece lacks changes    *)
(* anything, so no verification of that piece is under way.  Data that     *)
(* fits the block changes no other piece; other data overruns those that   *)
(* it changes when they are complete or being verified.                    *)
LEMMA BlockHolds ==
    ASSUME DownloadInv, NEW c \in Clients, NEW p \in Pieces, NEW b \in BlocksOf[p],
           NEW fits \in BOOLEAN, NEW wrong, BlockReceived(c, p, b, fits, wrong)
    PROVE  DownloadInv'
  <1> DEFINE done == [completedBlocks EXCEPT ![p] = @ \cup {b}]
             full == done[p] = BlocksOf[p]
             written == {w \in WrittenOver(p, b, fits) :
                            w[1] \in completedPieces \/ w[2] \in done[w[1]]}
             changed == {q \in Pieces : /\ q \in completedPieces \/ verifying[q] > 0
                                        /\ \E n \in BlocksOf[q] :
                                             \/ <<q, n>> \in corrupt' \ corrupt
                                             \/ <<q, n>> \in corrupt \ corrupt'}
  <1>1. UNCHANGED <<pendingPieces, completedPieces, incompletePieces, verification>>
    BY DEF BlockReceived, lists
  <1>2. CASE UNCHANGED <<state, completedBlocks, corrupt, overrun, verifying>>
    BY <1>1, <1>2, OtherSlots DEF lists, DownloadInv, NeverEndgame
  <1>3. CASE /\ p \in pendingPieces /\ b \in BlocksLeft(p)
             /\ fits \/ c \in Careless
             /\ state' \in {"Downloading", state}
             /\ completedBlocks' = done
             /\ wrong \subseteq written
             /\ corrupt' = (corrupt \ written) \cup wrong
             /\ overrun' = overrun \cup changed
             /\ verifying' = IF full THEN [verifying EXCEPT ![p] = @ + 1] ELSE verifying
    <2>1. verifying[p] = 0 /\ p \notin completedPieces
      BY <1>3 DEF DownloadInv, PiecesTyped, PiecesInv, OneVerificationEach
    <2>2. b \in Int
      BY <1>3 DEF BlocksOf, BlocksLeft
    <2>3. PiecesTyped'
      BY <1>1, <1>3, <2>2 DEF DownloadInv, PiecesTyped
    <2>4. /\ \A q \in Pieces \ {p} : completedBlocks'[q] = completedBlocks[q]
                                     /\ verifying'[q] = verifying[q]
          /\ verifying'[p] > 0 => verifying'[p] = 1 /\ BlocksLeft(p)' = {}
      BY <1>3, <2>1 DEF DownloadInv, PiecesTyped, BlocksLeft
    <2>5. \A w \in written : \E q \in Pieces : \E n \in BlocksOf[q] :
             /\ w = <<q, n>>
             /\ q \in completedPieces \/ q \in pendingPieces
      <3> SUFFICES ASSUME NEW w \in written
                   PROVE  \E q \in Pieces : \E n \in BlocksOf[q] :
                             /\ w = <<q, n>>
                             /\ q \in completedPieces \/ q \in pendingPieces
        OBVIOUS
      <3>1. PICK q \in Pieces : \E n \in BlocksOf[q] : w = <<q, n>>
        BY DEF WrittenOver, TorrentBlock
      <3>4. PICK n \in BlocksOf[q] : w = <<q, n>>
        BY <3>1
      <3>2. q \in completedPieces \/ n \in done[q]
        BY <3>4
      <3>3. q # p /\ q \notin pendingPieces => done[q] = {}
        BY DEF DownloadInv, PiecesTyped, PiecesInv
      <3> QED
        BY <1>3, <3>2, <3>3, <3>4
    <2>6. fits => \A w \in written : w = <<p, b>>
      BY DEF WrittenOver
    <2> HIDE DEF written
    <2>7. \A w \in corrupt' : \E q \in pendingPieces \cup overrun' : \E n \in BlocksOf[q] :
             w = <<q, n>>
      <3> SUFFICES ASSUME NEW w \in corrupt'
                   PROVE  \E q \in pendingPieces \cup overrun' : \E n \in BlocksOf[q] :
                             w = <<q, n>>
        OBVIOUS
      <3>1. CASE w \in corrupt
        BY <1>3, <3>1 DEF DownloadInv, PiecesInv
      <3>2. CASE w \notin corrupt
        <4>1. w \in written
          BY <1>3, <3>2
        <4>2. PICK q \in Pieces : \E n \in BlocksOf[q] :
                 w = <<q, n>> /\ (q \in completedPieces \/ q \in pendingPieces)
          BY <2>5, <4>1
        <4>3. PICK n \in BlocksOf[q] :
                 w = <<q, n>> /\ (q \in completedPieces \/ q \in pendingPieces)
          BY <4>2
        <4>4. q \in pendingPieces \/ q \in changed
          BY <3>2, <4>3
        <4> QED
          BY <1>3, <4>3, <4>4
      <3> QED
        BY <3>1, <3>2
    <2>8. \A q \in overrun' : q \in Pieces /\ (q \in completedPieces \/ verifying'[q] > 0)
      BY <1>3, <2>1, <2>4 DEF DownloadInv, PiecesInv
    <2>9. \A q \in Pieces \ pendingPieces : completedBlocks'[q] = {}
      BY <1>3, <2>4 DEF DownloadInv, PiecesInv
    <2>10. PiecesInv'
      BY <1>1, <2>7, <2>8, <2>9 DEF DownloadInv, PiecesInv
    <2>11. OneVerificationEach'
      BY <1>1, <1>3, <2>4 DEF DownloadInv, OneVerificationEach, BlocksLeft
    <2>12. Careless = {} => changed = {}
      <3> SUFFICES ASSUME Careless = {}, NEW q \in changed PROVE FALSE
        OBVIOUS
      <3>1. \A w \in written : w = <<p, b>>
        BY <1>3, <2>6
      <3>2. q # p
        BY <2>1
      <3>3. PICK n \in BlocksOf[q] : \/ <<q, n>> \in corrupt' \ corrupt
                                    \/ <<q, n>> \in corrupt \ corrupt'
        OBVIOUS
      <3>4. <<q, n>> \notin written /\ <<q, n>> \notin wrong
        BY <1>3, <3>1, <3>2
      <3> QED
        BY <1>3, <3>3, <3>4
    <2>13. CompletedAreGenuine'
      <3> SUFFICES ASSUME NEW q \in completedPieces \ overrun', NEW n \in BlocksOf[q],
                          <<q, n>> \in corrupt'
                   PROVE  FALSE
        BY <1>1, <1>3, <2>12 DEF DownloadInv, CompletedAreGenuine
      <3>1. q \notin pendingPieces
        BY DEF DownloadInv, PiecesInv
      <3>2. PICK r \in pendingPieces \cup overrun' : \E a \in BlocksOf[r] : <<q, n>> = <<r, a>>
        BY <2>7
      <3> QED
        BY <3>1, <3>2
    <2> QED
      BY <1>3, <2>3, <2>10, <2>11, <2>13 DEF DownloadInv, NeverEndgame
  <1> QED
    <2>1. \/ UNCHANGED <<state, completedBlocks, corrupt, overrun, verifying>>
          \/ /\ p \in pendingPieces /\ b \in BlocksLeft(p)
             /\ fits \/ c \in Careless
             /\ state' \in {"Downloading", state}
             /\ completedBlocks' = done
             /\ wrong \subseteq written
             /\ corrupt' = (corrupt \ written) \cup wrong
             /\ overrun' = overrun \cup
                  {q \in Pieces : /\ q \in completedPieces \/ verifying[q] > 0
                                  /\ \E n \in BlocksOf[q] :
                                       \/ <<q, n>> \in corrupt' \ corrupt
                                       \/ <<q, n>> \in corrupt \ corrupt'}
             /\ verifying' = IF full THEN [verifying EXCEPT ![p] = @ + 1] ELSE verifying
      BY DEF BlockReceived
    <2> HIDE DEF written
    <2> QED
      BY <1>2, <1>3, <2>1

(* A negative verdict: the piece starts again, with no verification.       *)
LEMMA RejectedHolds ==
    ASSUME DownloadInv, NEW p \in Pieces, PieceRejected(p)
    PROVE  DownloadInv'
  <1>1. /\ verifying[p] = 1 /\ verifying' = [verifying EXCEPT ![p] = @ - 1]
        /\ completedBlocks' = [completedBlocks EXCEPT ![p] = {}]
        /\ corrupt' \subseteq corrupt
        /\ \A w \in corrupt' : w[1] # p
        /\ overrun' = overrun \ {p}
        /\ UNCHANGED <<state, pendingPieces, completedPieces, incompletePieces, verification>>
    BY DEF PieceRejected, Verdict, lists, DownloadInv, OneVerificationEach
  <1>2. p \in pendingPieces /\ p \notin completedPieces
    BY <1>1 DEF DownloadInv, PiecesInv, OneVerificationEach
  <1>3. \A q \in Pieces \ {p} : completedBlocks'[q] = completedBlocks[q]
                                /\ verifying'[q] = verifying[q]
    BY <1>1 DEF DownloadInv, PiecesTyped
  <1>4. verifying'[p] = 0
    BY <1>1 DEF DownloadInv, PiecesTyped
  <1>5. \A w \in corrupt' : \E q \in pendingPieces \cup overrun' : \E b \in BlocksOf[q] :
           w = <<q, b>>
    BY <1>1 DEF DownloadInv, PiecesInv
  <1>6. PiecesTyped' /\ CompletedAreGenuine' /\ NeverEndgame'
    BY <1>1, <1>2 DEF DownloadInv, PiecesTyped, CompletedAreGenuine, NeverEndgame
  <1>7. PiecesInv'
    BY <1>1, <1>2, <1>3, <1>5 DEF DownloadInv, PiecesInv
  <1>8. OneVerificationEach'
    BY <1>1, <1>3, <1>4 DEF DownloadInv, OneVerificationEach, BlocksLeft
  <1> QED
    BY <1>8, <1>6, <1>7 DEF DownloadInv

(* A positive verdict: the piece is complete, and genuine by the verdict,  *)
(* unless it was overrun.                                                  *)
LEMMA AcceptedHolds ==
    ASSUME DownloadInv, NEW p \in Pieces, PieceAccepted(p)
    PROVE  DownloadInv'
  <1>1. /\ verifying[p] = 1 /\ verifying' = [verifying EXCEPT ![p] = @ - 1]
        /\ p \in overrun \/ \A b \in BlocksOf[p] : <<p, b>> \notin corrupt
        /\ completedBlocks' = [completedBlocks EXCEPT ![p] = {}]
        /\ pendingPieces' = pendingPieces \ {p}
        /\ completedPieces' = completedPieces \cup {p}
        /\ incompletePieces' = incompletePieces \ {p}
        /\ state' = StateWithPieces(completedPieces', incompletePieces', pendingPieces')
        /\ UNCHANGED <<corrupt, overrun, verification>>
    BY DEF PieceAccepted, Verdict, DownloadInv, OneVerificationEach
  <1>2. p \in pendingPieces /\ verification = "done"
    BY <1>1 DEF DownloadInv, OneVerificationEach, PiecesInv
  <1>3. PiecesTyped'
    BY <1>1 DEF DownloadInv, PiecesTyped
  <1>4. PiecesInv'
    <2>1. /\ completedPieces' \cap incompletePieces' = {}
          /\ pendingPieces' \subseteq incompletePieces'
      BY <1>1 DEF DownloadInv, PiecesInv
    <2>2. \A w \in corrupt : \E q \in pendingPieces' \cup overrun : \E b \in BlocksOf[q] :
             w = <<q, b>>
      BY <1>1 DEF DownloadInv, PiecesInv
    <2>3. \A q \in Pieces \ {p} : completedBlocks'[q] = completedBlocks[q]
                                  /\ verifying'[q] = verifying[q]
      BY <1>1 DEF DownloadInv, PiecesTyped
    <2>4. \A q \in overrun : q \in Pieces /\ (q \in completedPieces' \/ verifying'[q] > 0)
      BY <1>1, <2>3 DEF DownloadInv, PiecesInv
    <2>5. \A q \in Pieces \ pendingPieces' : completedBlocks'[q] = {}
      BY <1>1, <2>3 DEF DownloadInv, PiecesTyped, PiecesInv
    <2> QED
      BY <1>1, <1>2, <2>1, <2>2, <2>4, <2>5 DEF PiecesInv
  <1>5. \A q \in Pieces \ {p} : completedBlocks'[q] = completedBlocks[q]
                                /\ verifying'[q] = verifying[q]
    BY <1>1 DEF DownloadInv, PiecesTyped
  <1>6. verifying'[p] = 0
    BY <1>1 DEF DownloadInv, PiecesTyped
  <1>7. OneVerificationEach'
    BY <1>1, <1>5, <1>6 DEF DownloadInv, OneVerificationEach, BlocksLeft
  <1>8. CompletedAreGenuine'
    BY <1>1 DEF DownloadInv, CompletedAreGenuine
  <1>9. state' # "Endgame"
    <2>1. ~(Cardinality(pendingPieces') > Cardinality(incompletePieces'))
      <3>1. incompletePieces' \in SUBSET Pieces /\ pendingPieces' \in SUBSET incompletePieces'
        BY <1>3, <1>4 DEF PiecesTyped, PiecesInv
      <3> QED
        BY <3>1, NoMoreBegunThanMissing
    <2> QED
      BY <1>1, <2>1 DEF StateWithPieces, DownloadInv, NeverEndgame
  <1> QED
    BY <1>3, <1>4, <1>7, <1>8, <1>9 DEF DownloadInv, NeverEndgame

(* The scheduler begins missing pieces only.                               *)
LEMMA ScheduleHolds ==
    ASSUME DownloadInv, NEW c \in Clients, SchedulePieceForClient(c)
    PROVE  DownloadInv'
  <1>1. /\ UNCHANGED <<state, completedBlocks, completedPieces, incompletePieces,
                       verification, verifying, corrupt, overrun>>
    BY DEF SchedulePieceForClient, LeaveIdle, ShareWarmUpPiece, ResumePiece, TakePiece, Visit,
           lists, files
  <1>2. pendingPieces \subseteq pendingPieces' /\ pendingPieces' \subseteq incompletePieces
    <2>1. CASE LeaveIdle(c) \/ ResumePiece(c)
      BY <2>1 DEF LeaveIdle, ResumePiece, KeepPieces, DownloadInv, PiecesInv
    <2>2. CASE ShareWarmUpPiece(c)
      <3>1. \/ UNCHANGED pendingPieces
            \/ \E p \in pendingPieces : pendingPieces' = pendingPieces \cup {p}
        BY <2>2 DEF ShareWarmUpPiece, Assign, KeepPieces
      <3> QED
        BY <3>1 DEF DownloadInv, PiecesInv
    <2>3. CASE TakePiece(c)
      <3>1. AvailableToClient(c) \subseteq incompletePieces
        BY DEF AvailableToClient
      <3>2. PartialPieces(c) \subseteq incompletePieces /\ NewPieces(c) \subseteq incompletePieces
        BY <3>1 DEF PartialPieces, NewPieces
      <3>3. \E p \in incompletePieces : pendingPieces' = pendingPieces \cup {p}
        BY <2>3, <3>2 DEF TakePiece, Assign
      <3> QED
        BY <3>3 DEF DownloadInv, PiecesInv
    <2> QED
      BY <2>1, <2>2, <2>3 DEF SchedulePieceForClient
  <1> QED
    BY <1>1, <1>2 DEF DownloadInv, PiecesTyped, PiecesInv, OneVerificationEach,
                      CompletedAreGenuine, NeverEndgame, BlocksLeft

(* Every step keeps the invariant.                                         *)
LEMMA NextHolds == DownloadInv /\ [Next]_vars => DownloadInv'
  <1> SUFFICES ASSUME DownloadInv, [Next]_vars PROVE DownloadInv'
    OBVIOUS
  <1> USE DEF lists, files, conns, piece
  <1>1. state # "Endgame"
    BY DEF DownloadInv, NeverEndgame
  <1>2. ASSUME NEW found \in SUBSET Pieces, NEW l \in BOOLEAN, FullVerificationDone(found, l)
        PROVE  DownloadInv'
    BY <1>2, VerificationHolds
  <1>3. CASE Start
    BY <1>3, StartHolds
  <1>4. CASE HandleFileError \/ Stop
    <2>1. /\ state' # "Endgame" /\ UNCHANGED <<corrupt, overrun>>
          /\ UNCHANGED <<pendingPieces, completedBlocks, lists, verification, verifying>>
      BY <1>1, <1>4 DEF HandleFileError, Stop
    <2> QED
      BY <2>1, OtherSlots
  <1>5. ASSUME NEW new, ConnectorTimer(new) \/ AddToPeerList(new)
        PROVE  DownloadInv'
    <2>1. /\ state' # "Endgame" /\ UNCHANGED <<corrupt, overrun>>
          /\ UNCHANGED <<pendingPieces, completedBlocks, lists, verification, verifying>>
      BY <1>1, <1>5 DEF ConnectorTimer, AddToPeerList, ConnectToPeers
    <2> QED
      BY <2>1, OtherSlots
  <1>6. ASSUME NEW c \in Clients, SetupOutgoingConnection(c) \/ SetupIncomingConnection(c)
        PROVE  DownloadInv'
    <2>1. /\ state' # "Endgame" /\ UNCHANGED <<corrupt, overrun>>
          /\ UNCHANGED <<pendingPieces, completedBlocks, lists, verification, verifying>>
      BY <1>6, StateOnConnecting DEF SetupOutgoingConnection, SetupIncomingConnection
    <2> QED
      BY <2>1, OtherSlots
  <1>7. ASSUME NEW c \in Clients, Disconnect(c) \/ PeerChoked(c) \/ PeerUnchoked(c)
        PROVE  DownloadInv'
    <2>1. /\ state' # "Endgame" /\ UNCHANGED <<corrupt, overrun>>
          /\ UNCHANGED <<pendingPieces, completedBlocks, lists, verification, verifying>>
      BY <1>1, <1>7 DEF Disconnect, PeerChoked, PeerUnchoked
    <2> QED
      BY <2>1, OtherSlots
  <1>8. ASSUME NEW c \in Clients, NEW new, PeerPiecesAvailable(c, new)
        PROVE  DownloadInv'
    <2>1. /\ state' # "Endgame" /\ UNCHANGED <<corrupt, overrun>>
          /\ UNCHANGED <<pendingPieces, completedBlocks, lists, verification, verifying>>
      BY <1>1, <1>8 DEF PeerPiecesAvailable
    <2> QED
      BY <2>1, OtherSlots
  <1>9. CASE ScheduleDownloads
    <2>1. /\ state' # "Endgame" /\ UNCHANGED <<corrupt, overrun>>
          /\ UNCHANGED <<pendingPieces, completedBlocks, lists, verification, verifying>>
      BY <1>1, <1>9 DEF ScheduleDownloads
    <2> QED
      BY <2>1, OtherSlots
  <1>10. CASE UNCHANGED vars
    <2>1. /\ state' # "Endgame" /\ UNCHANGED <<corrupt, overrun>>
          /\ UNCHANGED <<pendingPieces, completedBlocks, lists, verification, verifying>>
      BY <1>1, <1>10 DEF vars
    <2> QED
      BY <2>1, OtherSlots
  <1> QED
    BY <1>2, <1>3, <1>4, <1>5, <1>6, <1>7, <1>8, <1>9, <1>10, BlockHolds, RejectedHolds,
       AcceptedHolds, ScheduleHolds DEF Next

(* A piece is verified once at a time, and the verdict finds it begun and  *)
(* full: pieceVerified dereferences an existing TorrentPiece.              *)
THEOREM VerdictsFindTheirPiece == Spec => []OneVerificationEach
  <1>1. DownloadInv => OneVerificationEach
    BY DEF DownloadInv
  <1> QED
    BY <1>1, InitHolds, NextHolds, PTL DEF Spec

(* Complete pieces hold the original's data, whatever the contents of the  *)
(* blocks that peers send, except the pieces that data for another piece,  *)
(* too long for its block or out of line with it, was written over.  When  *)
(* all peers send whole blocks there are none of those.                    *)
THEOREM CompleteIsGenuine == Spec => []CompletedAreGenuine
  <1>1. DownloadInv => CompletedAreGenuine
    BY DEF DownloadInv
  <1> QED
    BY <1>1, InitHolds, NextHolds, PTL DEF Spec

(* The endgame mode, its limits and its cancels, are never reached.        *)
THEOREM EndgameUnreached == Spec => []NeverEndgame
  <1>1. DownloadInv => NeverEndgame
    BY DEF DownloadInv
  <1> QED
    BY <1>1, InitHolds, NextHolds, PTL DEF Spec

-----------------------------------------------------------------------------
(* Interest.  A connection that is not set up has announced nothing, and   *)
(* a complete piece never is missing again (DownloadInv: the file is       *)
(* looked at before any is complete).                                      *)

InterestInv ==
    /\ sockets \in [Clients -> {"none", "connecting", "connected"}]
    /\ availablePieces \in [Clients -> SUBSET Pieces]
    /\ \A c \in Clients : sockets[c] # "connected" => availablePieces[c] = {}
    /\ InterestIsShown

(* Every connection is aborted, or stays as it is.                         *)
LEMMA AbortKeepsInterest ==
    ASSUME InterestInv, AbortAll, UNCHANGED completedPieces
    PROVE  InterestInv'
  <1>1. \A c \in Clients :
          \/ sockets'[c] = "none" /\ availablePieces'[c] = {}
          \/ /\ sockets'[c] = sockets[c] /\ availablePieces'[c] = availablePieces[c]
             /\ c \in interestedIn => c \in interestedIn'
    BY DEF AbortAll
  <1>2. /\ sockets' \in [Clients -> {"none", "connecting", "connected"}]
        /\ availablePieces' \in [Clients -> SUBSET Pieces]
    BY DEF AbortAll, InterestInv
  <1> QED
    BY <1>1, <1>2 DEF InterestInv, InterestIsShown, Connected

(* A connection is taken out.                                              *)
LEMMA RemoveKeepsInterest ==
    ASSUME InterestInv, NEW c \in Clients, RemoveClient(c),
           UNCHANGED completedPieces
    PROVE  InterestInv'
  <1>1. /\ sockets' = [sockets EXCEPT ![c] = "none"]
        /\ availablePieces' = [availablePieces EXCEPT ![c] = {}]
        /\ interestedIn' = interestedIn \ {c}
    BY DEF RemoveClient
  <1> QED
    BY <1>1 DEF InterestInv, InterestIsShown, Connected

(* A socket changes its state before its peer has announced anything.      *)
LEMMA SocketsKeepInterest ==
    ASSUME InterestInv, UNCHANGED <<completedPieces, availablePieces, interestedIn>>,
           sockets' \in [Clients -> {"none", "connecting", "connected"}],
           \A c \in Clients : sockets'[c] = sockets[c] \/ sockets[c] # "connected"
    PROVE  InterestInv'
  BY DEF InterestInv, InterestIsShown, Connected

(* More pieces are complete.                                               *)
LEMMA CompletingKeepsInterest ==
    ASSUME InterestInv, completedPieces \subseteq completedPieces',
           UNCHANGED <<sockets, availablePieces, interestedIn>>
    PROVE  InterestInv'
  BY DEF InterestInv, InterestIsShown, Connected

LEMMA InterestNext == DownloadInv /\ InterestInv /\ [Next]_vars => InterestInv'
  <1> SUFFICES ASSUME DownloadInv, InterestInv, [Next]_vars PROVE InterestInv'
    OBVIOUS
  <1> USE DEF lists, files, conns, piece
  <1>1. ASSUME NEW found \in SUBSET Pieces, NEW l \in BOOLEAN, FullVerificationDone(found, l)
        PROVE  InterestInv'
    BY <1>1, CompletingKeepsInterest DEF FullVerificationDone, DownloadInv, PiecesInv
  <1>2. CASE HandleFileError
    <2>1. CASE AbortAll
      BY <1>2, <2>1, AbortKeepsInterest DEF HandleFileError
    <2>2. CASE UNCHANGED conns
      BY <1>2, <2>2, SocketsKeepInterest DEF HandleFileError, InterestInv
    <2> QED
      BY <1>2, <2>1, <2>2 DEF HandleFileError
  <1>3. CASE Stop
    BY <1>3, AbortKeepsInterest DEF Stop
  <1>4. ASSUME NEW new \in SUBSET {c \in Clients : Fresh(c)},
               ConnectorTimer(new) \/ AddToPeerList(new)
        PROVE  InterestInv'
    <2>1. \/ sockets' = sockets
          \/ sockets' = [c \in Clients |-> IF c \in new THEN "connecting" ELSE sockets[c]]
      BY <1>4 DEF ConnectorTimer, AddToPeerList, ConnectToPeers
    <2>2. UNCHANGED <<completedPieces, availablePieces, interestedIn>>
      BY <1>4 DEF ConnectorTimer, AddToPeerList
    <2> QED
      BY <2>1, <2>2, SocketsKeepInterest DEF InterestInv, Fresh
  <1>5. ASSUME NEW c \in Clients, SetupOutgoingConnection(c) \/ SetupIncomingConnection(c)
        PROVE  InterestInv'
    <2>1. /\ sockets' = [sockets EXCEPT ![c] = "connected"] /\ sockets[c] # "connected"
          /\ UNCHANGED <<completedPieces, availablePieces, interestedIn>>
      BY <1>5 DEF SetupOutgoingConnection, SetupIncomingConnection, Fresh
    <2> QED
      BY <2>1, SocketsKeepInterest DEF InterestInv
  <1>6. ASSUME NEW c \in Clients, Disconnect(c) PROVE InterestInv'
    BY <1>6, RemoveKeepsInterest DEF Disconnect
  <1>7. ASSUME NEW c \in Clients, NEW new \in SUBSET Pieces, PeerPiecesAvailable(c, new)
        PROVE  InterestInv'
    <2>1. CASE RemoveClient(c)
      BY <1>7, <2>1, RemoveKeepsInterest DEF PeerPiecesAvailable
    <2>2. CASE /\ availablePieces' = [availablePieces EXCEPT ![c] = availablePieces[c] \cup new]
               /\ interestedIn' = IF \/ availablePieces[c] \cup new = Pieces
                                     \/ (availablePieces[c] \cup new) \ completedPieces # {}
                                  THEN interestedIn \cup {c} ELSE interestedIn \ {c}
               /\ UNCHANGED sockets
      <3>1. c \in Connected /\ UNCHANGED completedPieces
        BY <1>7 DEF PeerPiecesAvailable
      <3> QED
        BY <2>2, <3>1 DEF InterestInv, InterestIsShown, Connected
    <2> QED
      BY <1>7, <2>1, <2>2 DEF PeerPiecesAvailable
  <1>8. ASSUME NEW p \in Pieces, PieceAccepted(p) PROVE InterestInv'
    BY <1>8, CompletingKeepsInterest DEF PieceAccepted
  <1>9. CASE UNCHANGED <<sockets, availablePieces, interestedIn, completedPieces>>
    BY <1>9 DEF InterestInv, InterestIsShown, Connected
  <1>10. ASSUME NEW c \in Clients, \/ PeerChoked(c) \/ PeerUnchoked(c)
                                   \/ SchedulePieceForClient(c)
         PROVE  InterestInv'
    BY <1>9, <1>10 DEF PeerChoked, PeerUnchoked, SchedulePieceForClient, LeaveIdle,
                       ShareWarmUpPiece, ResumePiece, TakePiece, Visit
  <1>11. ASSUME NEW c \in Clients, NEW p \in Pieces, NEW b \in BlocksOf[p], NEW fits,
                NEW wrong, BlockReceived(c, p, b, fits, wrong)
         PROVE  InterestInv'
    BY <1>9, <1>11 DEF BlockReceived
  <1>12. ASSUME NEW p \in Pieces, PieceRejected(p) PROVE InterestInv'
    BY <1>9, <1>12 DEF PieceRejected
  <1>13. CASE Start \/ ScheduleDownloads \/ UNCHANGED vars
    BY <1>9, <1>13 DEF Start, ScheduleDownloads, vars
  <1>14. \A new \in {{p} : p \in Pieces} \cup {Pieces} : new \in SUBSET Pieces
    OBVIOUS
  <1> QED
    BY <1>1, <1>2, <1>3, <1>4, <1>5, <1>6, <1>7, <1>8, <1>10, <1>11, <1>12, <1>13, <1>14
       DEF Next

(* A peer that has what we lack has been told of our interest.             *)
THEOREM InterestKept == Spec => []InterestIsShown
  <1>1. Init => InterestInv
    BY DEF Init, InterestInv, InterestIsShown, Connected
  <1>2. InterestInv => InterestIsShown
    BY DEF InterestInv
  <1> QED
    BY <1>1, <1>2, InitHolds, NextHolds, InterestNext, PTL DEF Spec
-----------------------------------------------------------------------------
(* Lists.                                                                  *)

(* Induction without an operator parameter: on a set of numbers.           *)
LEMMA SetInduction ==
    ASSUME NEW T \in SUBSET Nat, 0 \in T, \A n \in T : n + 1 \in T
    PROVE  T = Nat
  <1> SUFFICES ASSUME T # Nat PROVE FALSE
    OBVIOUS
  <1> DEFINE U == Nat \ T
  <1>1. U # {} /\ U \subseteq Nat
    OBVIOUS
  <1>2. \E x \in U : \A y \in U : ~ (<<y, x>> \in OpToRel(<, Nat))
    BY <1>1, NatLessThanWellFounded, WFMin
  <1>3. PICK x \in U : \A y \in U : ~(y < x)
    BY <1>2 DEF OpToRel
  <1>4. x # 0 /\ x - 1 \in Nat /\ x - 1 \notin U
    BY <1>3
  <1> QED
    BY <1>3, <1>4

(* The numbers up to n, counted by their rank, are all different, so every *)
(* rank occurs.                                                            *)
LEMMA RankOccurs ==
    ASSUME NEW S \in SUBSET Int, IsFiniteSet(S), NEW k \in 1 .. Cardinality(S)
    PROVE  \E n \in S : Cardinality({m \in S : m <= n}) = k
  <1> DEFINE upTo(n) == {m \in S : m <= n}
             rank    == [n \in S |-> Cardinality(upTo(n))]
             Ranks   == {rank[n] : n \in S}
  <1>1. Cardinality(S) \in Nat
    BY FS_CardinalityType
  <1>2. \A n \in S : /\ IsFiniteSet(upTo(n)) /\ Cardinality(upTo(n)) \in Nat
                     /\ Cardinality(upTo(n)) <= Cardinality(S)
                     /\ n \in upTo(n) /\ upTo(n) # {}
    BY FS_Subset, FS_CardinalityType
  <1>3. \A n \in S : rank[n] \in 1 .. Cardinality(S)
    BY <1>1, <1>2, FS_EmptySet
  <1>4. ASSUME NEW m \in S, NEW n \in S, m < n
        PROVE  rank[m] < rank[n]
    <2>1. upTo(m) \subseteq upTo(n) /\ n \notin upTo(m) /\ n \in upTo(n)
      <3>1. m \in Int /\ n \in Int /\ \A x \in S : x \in Int
        OBVIOUS
      <3>2. \A x \in S : x <= m => x <= n
        BY <1>4, <3>1
      <3>3. ~(n <= m) /\ n <= n
        BY <1>4, <3>1
      <3> QED
        BY <3>2, <3>3
    <2>2. upTo(m) # upTo(n)
      BY <2>1
    <2>3. Cardinality(upTo(m)) < Cardinality(upTo(n))
      BY <1>2, <2>1, <2>2, FS_Subset
    <2> QED
      BY <2>3
  <1>5. \A m, n \in S : rank[m] = rank[n] => m = n
    <2> TAKE m, n \in S
    <2>1. rank[m] \in Int /\ rank[n] \in Int
      BY <1>3
    <2> QED
      BY <1>4, <2>1
  <1>6. rank \in Bijection(S, Ranks)
    BY <1>5, Zenon DEF Bijection, Injection, Surjection, IsInjective
  <1>7. Cardinality(Ranks) = Cardinality(S) /\ IsFiniteSet(Ranks)
    BY <1>6, FS_Bijection DEF ExistsBijection
  <1>8. IsFiniteSet(1 .. Cardinality(S)) /\ Cardinality(1 .. Cardinality(S)) = Cardinality(S)
    BY <1>1, FS_Interval
  <1>9. Ranks = 1 .. Cardinality(S)
    <2>1. Ranks \subseteq 1 .. Cardinality(S)
      BY <1>3
    <2> HIDE DEF Ranks
    <2> QED
      BY <2>1, <1>7, <1>8, FS_Subset
  <1> QED
    BY <1>9

LEMMA InOrderLists ==
    ASSUME NEW S \in SUBSET Int, IsFiniteSet(S)
    PROVE  /\ Cardinality(S) \in Nat
           /\ InOrder(S) \in [1 .. Cardinality(S) -> S]
           /\ \A n \in S : \E k \in 1 .. Cardinality(S) : InOrder(S)[k] = n
  <1> DEFINE upTo(n) == {m \in S : m <= n}
  <1>1. Cardinality(S) \in Nat
    BY FS_CardinalityType
  <1>2. \A k \in 1 .. Cardinality(S) :
           InOrder(S)[k] \in S /\ Cardinality(upTo(InOrder(S)[k])) = k
    <2> TAKE k \in 1 .. Cardinality(S)
    <2>1. \E n \in S : Cardinality(upTo(n)) = k
      BY RankOccurs
    <2>2. InOrder(S)[k] = CHOOSE n \in S : Cardinality(upTo(n)) = k
      BY DEF InOrder
    <2> QED
      BY <2>1, <2>2
  <1>3. InOrder(S) \in [1 .. Cardinality(S) -> S]
    BY <1>2 DEF InOrder
  <1>4. ASSUME NEW n \in S
        PROVE  \E k \in 1 .. Cardinality(S) : InOrder(S)[k] = n
    <2>1. /\ IsFiniteSet(upTo(n)) /\ Cardinality(upTo(n)) \in Nat
          /\ Cardinality(upTo(n)) <= Cardinality(S) /\ upTo(n) # {}
      BY FS_Subset, FS_CardinalityType
    <2>2. Cardinality(upTo(n)) \in 1 .. Cardinality(S)
      BY <1>1, <2>1, FS_EmptySet
    <2> DEFINE k == Cardinality(upTo(n))
               x == InOrder(S)[k]
    <2>3. x \in S /\ Cardinality(upTo(x)) = Cardinality(upTo(n))
      BY <1>2, <2>2
    <2>4. ASSUME NEW a \in S, NEW b \in S, a < b
          PROVE  Cardinality(upTo(a)) # Cardinality(upTo(b))
      <3>1. upTo(a) \subseteq upTo(b) /\ b \notin upTo(a) /\ b \in upTo(b)
        <4>1. a \in Int /\ b \in Int /\ \A y \in S : y \in Int
          OBVIOUS
        <4>2. \A y \in S : y <= a => y <= b
          BY <2>4, <4>1
        <4>3. ~(b <= a) /\ b <= b
          BY <2>4, <4>1
        <4> QED
          BY <4>2, <4>3
      <3>2. IsFiniteSet(upTo(b)) /\ upTo(a) # upTo(b)
        BY <3>1, FS_Subset
      <3> QED
        BY <3>1, <3>2, FS_Subset, FS_CardinalityType
    <2>5. x = n
      <3>1. x \in Int /\ n \in Int
        BY <2>3
      <3> HIDE DEF x
      <3> QED
        BY <2>3, <2>4, <3>1
    <2> QED
      BY <2>2, <2>5
  <1> QED
    BY <1>1, <1>3, <1>4

(* The members of a list that are in a set.                                *)
LEMMA KeptMembers ==
    ASSUME NEW A, NEW s \in Seq(A), NEW S
    PROVE  /\ Kept(s, S) \in Seq(A)
           /\ ToSet(Kept(s, S)) = ToSet(s) \cap S
           /\ Len(Kept(s, S)) <= Len(s)
  <1> DEFINE I  == {i \in DOMAIN s : s[i] \in S}
             at == InOrder(I)
             kept == [k \in DOMAIN at |-> s[at[k]]]
  <1>1. Len(s) \in Nat /\ DOMAIN s = 1 .. Len(s) /\ \A i \in 1 .. Len(s) : s[i] \in A
    OBVIOUS
  <1>2. IsFiniteSet(1 .. Len(s)) /\ Cardinality(1 .. Len(s)) = Len(s)
    <2> DEFINE n == Len(s)
    <2>1. n \in Nat
      BY <1>1
    <2> HIDE DEF n
    <2>2. IsFiniteSet(1 .. n) /\ Cardinality(1 .. n) = n
      BY <2>1, FS_Interval
    <2> QED
      BY <2>2 DEF n
  <1>3. I \subseteq 1 .. Len(s) /\ I \in SUBSET Int
    BY <1>1
  <1>4. IsFiniteSet(I) /\ Cardinality(I) <= Len(s)
    BY <1>2, <1>3, FS_Subset
  <1>5. /\ Cardinality(I) \in Nat /\ at \in [1 .. Cardinality(I) -> I]
        /\ \A n \in I : \E k \in 1 .. Cardinality(I) : at[k] = n
    BY <1>3, <1>4, InOrderLists
  <1> HIDE DEF at
  <1>6. DOMAIN kept = 1 .. Cardinality(I) /\ \A k \in 1 .. Cardinality(I) : kept[k] = s[at[k]]
    BY <1>5
  <1>7. \A k \in 1 .. Cardinality(I) : at[k] \in I
    BY <1>5
  <1>8. kept \in [1 .. Cardinality(I) -> A]
    BY <1>1, <1>5, <1>7
  <1>9. kept \in Seq(A) /\ Len(kept) = Cardinality(I)
    <2> DEFINE n == Cardinality(I)
    <2>1. n \in Nat /\ kept \in [1 .. n -> A]
      BY <1>5, <1>8
    <2> HIDE DEF n, kept
    <2>2. kept \in Seq(A) /\ Len(kept) = n
      BY <2>1
    <2> QED
      BY <2>2 DEF n
  <1>10. {kept[k] : k \in DOMAIN kept} = {s[i] : i \in DOMAIN s} \cap S
    <2>1. ASSUME NEW k \in DOMAIN kept PROVE kept[k] \in {s[i] : i \in DOMAIN s} \cap S
      BY <1>6, <1>7
    <2>2. ASSUME NEW i \in DOMAIN s, s[i] \in S PROVE \E k \in DOMAIN kept : kept[k] = s[i]
      <3>1. i \in I
        BY <2>2
      <3>2. PICK k \in 1 .. Cardinality(I) : at[k] = i
        BY <3>1, <1>5
      <3> QED
        BY <3>2, <1>6
    <2> QED
      BY <2>1, <2>2
  <1>11. Kept(s, S) = kept
    BY DEF Kept, at
  <1> QED
    BY <1>4, <1>9, <1>10, <1>11 DEF ToSet

LEMMA WithoutMembers ==
    ASSUME NEW A, NEW s \in Seq(A), NEW e
    PROVE  /\ Without(s, e) \in Seq(A)
           /\ ToSet(Without(s, e)) = ToSet(s) \ {e}
           /\ Len(Without(s, e)) <= Len(s)
  <1>1. ToSet(s) \cap (ToSet(s) \ {e}) = ToSet(s) \ {e}
    OBVIOUS
  <1> QED
    BY <1>1, KeptMembers, Zenon DEF Without

(* Requests for blocks of one piece.                                       *)
LEMMA RequestsMembers ==
    ASSUME NEW p \in Pieces, NEW S \in SUBSET BlocksOf[p], IsFiniteSet(S)
    PROVE  /\ Requests(p, S) \in Seq(TorrentBlock)
           /\ Len(Requests(p, S)) = Cardinality(S)
           /\ \A b \in S : <<p, b>> \in ToSet(Requests(p, S))
  <1> DEFINE n  == Cardinality(S)
             at == InOrder(S)
             rs == [k \in 1 .. n |-> <<p, at[k]>>]
  <1>1. S \in SUBSET Int
    BY DEF BlocksOf
  <1>2. /\ n \in Nat /\ at \in [1 .. n -> S]
        /\ \A b \in S : \E k \in 1 .. n : at[k] = b
    BY <1>1, InOrderLists
  <1>3. Requests(p, S) = rs
    BY DEF Requests
  <1> HIDE DEF n, at
  <1>4. \A b \in S : <<p, b>> \in TorrentBlock
    BY DEF TorrentBlock
  <1>5. rs \in [1 .. n -> TorrentBlock]
    BY <1>2, <1>4
  <1>6. \A b \in S : \E k \in DOMAIN rs : rs[k] = <<p, b>>
    BY <1>2
  <1>7. rs \in Seq(TorrentBlock) /\ Len(rs) = n
    <2> HIDE DEF rs
    <2> QED
      BY <1>2, <1>5
  <1> QED
    BY <1>3, <1>6, <1>7 DEF ToSet, n

LEMMA ConcatMembers ==
    ASSUME NEW A, NEW s \in Seq(A), NEW t \in Seq(A)
    PROVE  /\ s \o t \in Seq(A) /\ Len(s \o t) = Len(s) + Len(t)
           /\ ToSet(s \o t) = ToSet(s) \cup ToSet(t)
  <1>1. s \o t \in Seq(A) /\ Len(s \o t) = Len(s) + Len(t)
    OBVIOUS
  <1>2. /\ Len(s) \in Nat /\ Len(t) \in Nat
        /\ DOMAIN s = 1 .. Len(s) /\ DOMAIN t = 1 .. Len(t)
        /\ DOMAIN (s \o t) = 1 .. Len(s) + Len(t)
    BY <1>1
  <1>3. /\ \A i \in 1 .. Len(s) : i \in DOMAIN (s \o t) /\ (s \o t)[i] = s[i]
        /\ \A i \in 1 .. Len(t) : /\ Len(s) + i \in DOMAIN (s \o t)
                                  /\ (s \o t)[Len(s) + i] = t[i]
    BY <1>2
  <1>4. \A i \in DOMAIN (s \o t) : \/ i \in 1 .. Len(s)
                                   \/ \E j \in 1 .. Len(t) : i = Len(s) + j
    <2> TAKE i \in DOMAIN (s \o t)
    <2>1. i \in 1 .. Len(s) + Len(t)
      BY <1>2
    <2>2. ~(i \in 1 .. Len(s)) => i - Len(s) \in 1 .. Len(t) /\ i = Len(s) + (i - Len(s))
      BY <1>2, <2>1
    <2> QED
      BY <2>2
  <1>5. \A i \in DOMAIN (s \o t) : (s \o t)[i] \in ToSet(s) \cup ToSet(t)
    BY <1>2, <1>3, <1>4, Zenon DEF ToSet
  <1>6. /\ \A i \in DOMAIN s : s[i] \in ToSet(s \o t)
        /\ \A i \in DOMAIN t : t[i] \in ToSet(s \o t)
    BY <1>2, <1>3, Zenon DEF ToSet
  <1>7. ToSet(s \o t) = ToSet(s) \cup ToSet(t)
    BY <1>5, <1>6, Zenon DEF ToSet
  <1> QED
    BY <1>1, <1>7

-----------------------------------------------------------------------------
(* Requesting blocks.                                                      *)

(* The requests a call of requestMore may leave behind, from the marks rq  *)
(* and the list l on: marks are added for blocks that the pieces lack, and *)
(* each is in the list, which does not grow beyond the quota.              *)
Requested(s, done, ps, rq, l) ==
    {o \in [rq : [Pieces -> SUBSET Nat], inc : Seq(TorrentBlock)] :
        /\ \A p \in Pieces : rq[p] \subseteq o.rq[p] /\ o.rq[p] \subseteq BlocksOf[p]
        /\ \A p \in Pieces : \A b \in o.rq[p] \ rq[p] :
              p \in ps /\ b \notin done[p] /\ <<p, b>> \in ToSet(o.inc)
        /\ ToSet(l) \subseteq ToSet(o.inc)
        /\ Len(o.inc) <= Quota(s)}

LEMMA QuotaIsNumber == \A s : Quota(s) \in Nat
  BY TCAssumption DEF Quota

LEMMA BlocksFinite ==
    ASSUME NEW p \in Pieces
    PROVE  BlocksOf[p] \subseteq Nat /\ IsFiniteSet(BlocksOf[p])
  <1>1. /\ NumPieces \in Int /\ pieceLengthAt(p) \in Int
    BY TCAssumption DEF NumPieces, pieceLengthAt
  <1>2. NumBlocks(p) \in Int
    BY <1>1, TCAssumption DEF NumBlocks
  <1>3. IsFiniteSet(0 .. NumBlocks(p) - 1)
    BY <1>2, FS_Interval
  <1> QED
    BY <1>3 DEF BlocksOf

LEMMA OneCall ==
    ASSUME NEW s, NEW done, NEW ps, NEW p \in Pieces, p \in ps, NEW rq, NEW l,
           NEW o \in Requested(s, done, ps, rq, l)
    PROVE  requestBlocks(s, done, o, p) \subseteq Requested(s, done, ps, rq, l)
  <1> DEFINE bits == Requestable(s, o.rq, done, p)
             room == Quota(s) - Len(o.inc)
             k    == IF room < Cardinality(bits) THEN room ELSE Cardinality(bits)
  <1>1. /\ o.rq \in [Pieces -> SUBSET Nat] /\ o.inc \in Seq(TorrentBlock)
        /\ \A q \in Pieces : rq[q] \subseteq o.rq[q] /\ o.rq[q] \subseteq BlocksOf[q]
        /\ \A q \in Pieces : \A b \in o.rq[q] \ rq[q] :
              q \in ps /\ b \notin done[q] /\ <<q, b>> \in ToSet(o.inc)
        /\ ToSet(l) \subseteq ToSet(o.inc)
        /\ Len(o.inc) <= Quota(s)
    BY DEF Requested
  <1>2. bits \subseteq BlocksOf[p] /\ \A b \in bits : b \notin done[p]
    BY DEF Requestable
  <1> HIDE DEF bits
  <1>3. SUFFICES ASSUME NEW S \in SUBSET bits, Cardinality(S) = k
                 PROVE  [rq |-> [o.rq EXCEPT ![p] = @ \cup S], inc |-> o.inc \o Requests(p, S)]
                            \in Requested(s, done, ps, rq, l)
    BY Zenon DEF requestBlocks, bits
  <1>4. S \subseteq BlocksOf[p] /\ S \subseteq Nat /\ IsFiniteSet(S)
    BY <1>2, BlocksFinite, FS_Subset
  <1>5. Cardinality(S) \in Nat /\ Cardinality(bits) \in Nat /\ Len(o.inc) \in Nat
    <2>1. IsFiniteSet(bits)
      BY <1>2, BlocksFinite, FS_Subset
    <2>2. Cardinality(S) \in Nat /\ Cardinality(bits) \in Nat
      BY <1>4, <2>1, FS_CardinalityType
    <2> QED
      BY <1>1, <2>2
  <1>6. Cardinality(S) <= room
    BY <1>3, <1>5, QuotaIsNumber
  <1> DEFINE added == Requests(p, S)
             marks == [o.rq EXCEPT ![p] = @ \cup S]
             list  == o.inc \o added
  <1>7. /\ added \in Seq(TorrentBlock) /\ Len(added) = Cardinality(S)
        /\ \A b \in S : <<p, b>> \in ToSet(added)
    BY <1>4, RequestsMembers
  <1> HIDE DEF added
  <1>8. /\ list \in Seq(TorrentBlock) /\ Len(list) = Len(o.inc) + Cardinality(S)
        /\ ToSet(list) = ToSet(o.inc) \cup ToSet(added)
    <2> DEFINE inc == o.inc
    <2>1. inc \in Seq(TorrentBlock) /\ added \in Seq(TorrentBlock)
      BY <1>1, <1>7
    <2> HIDE DEF inc
    <2>2. /\ inc \o added \in Seq(TorrentBlock) /\ Len(inc \o added) = Len(inc) + Len(added)
          /\ ToSet(inc \o added) = ToSet(inc) \cup ToSet(added)
      BY <2>1, ConcatMembers, Zenon
    <2> QED
      BY <2>2, <1>7 DEF inc
  <1>9. Len(list) <= Quota(s)
    BY <1>5, <1>6, <1>8, QuotaIsNumber
  <1>10. /\ marks \in [Pieces -> SUBSET Nat]
         /\ marks[p] = o.rq[p] \cup S
         /\ \A q \in Pieces \ {p} : marks[q] = o.rq[q]
    BY <1>1, <1>4
  <1> HIDE DEF list, marks
  <1>11. \A q \in Pieces : rq[q] \subseteq marks[q] /\ marks[q] \subseteq BlocksOf[q]
    BY <1>1, <1>4, <1>10
  <1>12. \A q \in Pieces : \A b \in marks[q] \ rq[q] :
              q \in ps /\ b \notin done[q] /\ <<q, b>> \in ToSet(list)
    BY <1>1, <1>2, <1>7, <1>8, <1>10
  <1>13. ToSet(l) \subseteq ToSet(list)
    BY <1>1, <1>8
  <1>14. [rq |-> marks, inc |-> list] \in Requested(s, done, ps, rq, l)
    BY <1>8, <1>9, <1>10, <1>11, <1>12, <1>13 DEF Requested
  <1> QED
    BY <1>14 DEF marks, list, added

(* Outcomes is defined by recursion: the function exists, and what each    *)
(* call keeps its last value has.                                          *)
LEMMA OutcomesStay ==
    ASSUME NEW R, NEW s, NEW done, NEW start \in R, NEW mine, Len(mine) \in Nat,
           \A n \in 1 .. Len(mine) : \A o \in R :
              requestBlocks(s, done, o, mine[n]) \subseteq R
    PROVE  Outcomes(s, done, start, mine) \subseteq R
  <1> DEFINE Call(os, n) == UNION {requestBlocks(s, done, o, mine[n]) : o \in os}
             Rule(f, m) == [n \in 0 .. m |-> IF n = 0 THEN {start} ELSE Call(f[n - 1], n)]
             T == {m \in Nat : \E f : f = Rule(f, m)}
             after == CHOOSE f : f = Rule(f, Len(mine))
  <1>1. \A n \in 1 .. Len(mine) : \A os : os \subseteq R => Call(os, n) \subseteq R
    OBVIOUS
  <1>2. Outcomes(s, done, start, mine) = after[Len(mine)]
    BY Zenon DEF Outcomes
  <1> HIDE DEF Call
  <1>3. 0 \in T
    <2>1. [n \in 0 .. 0 |-> {start}] = Rule([n \in 0 .. 0 |-> {start}], 0)
      OBVIOUS
    <2> QED
      BY <2>1
  <1>4. ASSUME NEW m \in T PROVE m + 1 \in T
    <2>1. PICK f : f = Rule(f, m)
      BY <1>4
    <2> DEFINE g == [n \in 0 .. m + 1 |-> IF n = m + 1 THEN Call(f[m], n) ELSE f[n]]
    <2>2. \A n \in 0 .. m : f[n] = IF n = 0 THEN {start} ELSE Call(f[n - 1], n)
      BY <2>1
    <2>3. \A n \in 0 .. m + 1 : g[n] = IF n = 0 THEN {start} ELSE Call(g[n - 1], n)
      <3> TAKE n \in 0 .. m + 1
      <3>1. m \in Nat /\ n \in Nat
        BY <1>4
      <3>2. CASE n = m + 1
        BY <3>1, <3>2
      <3>3. CASE n # m + 1
        <4>1. n \in 0 .. m /\ (n # 0 => n - 1 \in 0 .. m + 1 /\ n - 1 # m + 1)
          BY <3>1, <3>3
        <4> QED
          BY <2>2, <3>3, <4>1
      <3> QED
        BY <3>2, <3>3
    <2>4. g = Rule(g, m + 1)
      BY <2>3
    <2> HIDE DEF g
    <2>5. \E h : h = Rule(h, m + 1)
      BY <2>4, Zenon
    <2> QED
      BY <1>4, <2>5
  <1>5. T = Nat
    BY <1>3, <1>4, SetInduction
  <1>6. after = Rule(after, Len(mine))
    BY <1>5
  <1> HIDE DEF after, T
  <1>7. \A n \in 0 .. Len(mine) : after[n] = IF n = 0 THEN {start} ELSE Call(after[n - 1], n)
    BY <1>6
  <1> DEFINE V == {n \in Nat : n <= Len(mine) => after[n] \subseteq R}
  <1>8. 0 \in V
    BY <1>7
  <1>9. ASSUME NEW n \in V PROVE n + 1 \in V
    <2>1. ASSUME n + 1 <= Len(mine) PROVE after[n + 1] \subseteq R
      <3>1. n \in Nat /\ n + 1 \in 1 .. Len(mine) /\ after[n] \subseteq R
        BY <1>9, <2>1
      <3>2. after[n + 1] = Call(after[n], n + 1)
        BY <1>7, <3>1
      <3> QED
        BY <1>1, <3>1, <3>2
    <2> QED
      BY <1>9, <2>1
  <1>10. V = Nat
    BY <1>8, <1>9, SetInduction
  <1> QED
    BY <1>2, <1>10

(* The marks rq2 and the requests inc2 of connections that a call for      *)
(* connection c may leave behind.                                          *)
More(c, s, done, ps, rq, inc, rq2, inc2) ==
    /\ inc2 \in [Clients -> Seq(TorrentBlock)]
    /\ [rq |-> rq2, inc |-> inc2[c]] \in Requested(s, done, ps, rq, inc[c])
    /\ \A o \in Clients \ {c} : inc2[o] = inc[o]

(* What requestMore leaves behind, whatever the mode and the outcome.      *)
LEMMA MoreRequested ==
    ASSUME NEW c \in Clients, NEW s, NEW pl \in Seq(Pieces), NEW inProg, NEW done,
           NEW rq \in [Pieces -> SUBSET Nat], NEW inc \in [Clients -> Seq(TorrentBlock)],
           \A p \in Pieces : rq[p] \subseteq BlocksOf[p],
           Len(inc[c]) <= Quota(s), schedulerCalled \in BOOLEAN,
           requestMore(c, s, pl, inProg, done, rq, inc)
    PROVE  /\ schedulerCalled' \in BOOLEAN
           /\ More(c, s, done, ToSet(pl), rq, inc, requestedBlocks', incoming')
  <1> DEFINE R     == Requested(s, done, ToSet(pl), rq, inc[c])
             start == [rq |-> rq, inc |-> inc[c]]
             mine  == IF Multi(s) THEN pl ELSE Kept(pl, inProg)
  <1>1. start \in R
    <2> DEFINE l == inc[c]
    <2>1. l \in Seq(TorrentBlock)
      OBVIOUS
    <2> QED
      BY <2>1 DEF Requested
  <1>2. mine \in Seq(Pieces) /\ ToSet(mine) \subseteq ToSet(pl)
    BY KeptMembers
  <1> HIDE DEF mine
  <1>3. Len(mine) \in Nat /\ \A n \in 1 .. Len(mine) : mine[n] \in Pieces \cap ToSet(pl)
    <2>1. Len(mine) \in Nat /\ DOMAIN mine = 1 .. Len(mine)
      BY <1>2
    <2>2. \A n \in DOMAIN mine : mine[n] \in ToSet(mine) /\ mine[n] \in Pieces
      BY <1>2 DEF ToSet
    <2> QED
      BY <1>2, <2>1, <2>2
  <1>4. \A n \in 1 .. Len(mine) : \A o \in R : requestBlocks(s, done, o, mine[n]) \subseteq R
    BY <1>3, OneCall, Zenon
  <1> HIDE DEF R, start
  <1>5. Outcomes(s, done, start, mine) \subseteq R
    BY <1>1, <1>3, <1>4, OutcomesStay
  <1>6. CASE requestedBlocks' = rq /\ incoming' = inc /\ schedulerCalled' \in BOOLEAN
    BY <1>1, <1>6 DEF R, start, More
  <1>7. CASE \E o \in R : /\ requestedBlocks' = o.rq
                          /\ incoming' = [inc EXCEPT ![c] = o.inc]
                          /\ schedulerCalled' \in BOOLEAN
    <2>1. PICK o \in R : /\ requestedBlocks' = o.rq
                         /\ incoming' = [inc EXCEPT ![c] = o.inc]
                         /\ schedulerCalled' \in BOOLEAN
      BY <1>7
    <2>2. o \in [rq : [Pieces -> SUBSET Nat], inc : Seq(TorrentBlock)]
      BY DEF R, Requested
    <2>3. incoming'[c] = o.inc /\ o = [rq |-> o.rq, inc |-> o.inc]
      BY <2>1, <2>2
    <2>4. [rq |-> requestedBlocks', inc |-> incoming'[c]] = o
      BY <2>1, <2>3
    <2> QED
      BY <2>1, <2>2, <2>4 DEF R, More
  <1>8. schedulerCalled \in {TRUE, FALSE}
    OBVIOUS
  <1> QED
    BY <1>5, <1>6, <1>7, <1>8 DEF requestMore, mine, start

(* Nothing more is requested.                                              *)
LEMMA NothingRequested ==
    ASSUME NEW c \in Clients, NEW s, NEW done, NEW ps, NEW rq \in [Pieces -> SUBSET Nat],
           NEW inc \in [Clients -> Seq(TorrentBlock)],
           \A p \in Pieces : rq[p] \subseteq BlocksOf[p], Len(inc[c]) <= Quota(s)
    PROVE  More(c, s, done, ps, rq, inc, rq, inc)
  <1> DEFINE l == inc[c]
  <1>1. l \in Seq(TorrentBlock)
    OBVIOUS
  <1>2. [rq |-> rq, inc |-> l] \in Requested(s, done, ps, rq, l)
    BY <1>1 DEF Requested
  <1> QED
    BY <1>2 DEF More

LEMMA QuotaGrows == \A s, t : ~Multi(t) => Quota(s) <= Quota(t)
  BY TCAssumption DEF Quota

(* A piece has a block, unless it is the last one of a file that is a      *)
(* multiple of the piece length.                                           *)
LEMMA PieceHasBlocks ==
    ASSUME TotalLength % PieceLength # 0, NEW p \in Pieces
    PROVE  BlocksOf[p] # {}
  <1> DEFINE L == pieceLengthAt(p)
  <1>1. L \in Int /\ L >= 1
    BY TCAssumption DEF pieceLengthAt
  <1> HIDE DEF L
  <1> DEFINE n == (L + BlockSize - 1) \div BlockSize
  <1>2. BlockSize \in Int /\ BlockSize >= 1 /\ L + BlockSize - 1 >= BlockSize
    BY <1>1, TCAssumption
  <1>3. n \in Int /\ n >= 1
    BY <1>1, <1>2
  <1>4. NumBlocks(p) = n
    BY DEF NumBlocks, L
  <1>5. 0 \in 0 .. NumBlocks(p) - 1
    BY <1>3, <1>4
  <1> QED
    BY <1>5 DEF BlocksOf
-----------------------------------------------------------------------------
(* The bookkeeping of pieces, payloads and requests.                       *)

(* What the properties rest on beside each other: no connection is set up  *)
(* before the file was looked at, nor while the client searches with no    *)
(* complete piece, so that no request is out when warm-up halves the       *)
(* quota; the scheduler visits connections of the list; and a block is not *)
(* marked as requested once it is complete, so that one that is received   *)
(* unneeded leaves no mark behind.                                         *)
BookInv ==
    /\ verification # "done" =>
          /\ \A c \in Clients : sockets[c] = "none"
          /\ connectingToClients = FALSE
          /\ state \in {"Idle", "Preparing", "Paused"}
    /\ state \in {"Searching", "Connecting"} /\ completedPieces = {} => Connected = {}
    /\ \A c \in Clients \ Connected : incoming[c] = <<>>
    /\ toSchedule \subseteq connections \cap Connected
    /\ \A p \in Pieces : requestedBlocks[p] \cap completedBlocks[p] = {}

WorkInv == /\ TypeOK
           /\ PiecesPartitioned
           /\ NoDanglingPiece
           /\ InProgressIsOwned
           /\ RequestedIsAwaited
           /\ FullPiecesAreVerified
           /\ QuotaRespected
           /\ BookInv

LEMMA EmptyList == ToSet(<<>>) = {} /\ Len(<<>>) = 0
  BY DEF ToSet

LEMMA WorkInit == Init => WorkInv
  <1> SUFFICES ASSUME Init PROVE WorkInv
    OBVIOUS
  <1>1. TypeOK
    <2>1. \A S : <<>> \in Seq(S)
      OBVIOUS
    <2> QED
      BY <2>1 DEF Init, TypeOK, States
  <1>2. /\ PiecesPartitioned /\ NoDanglingPiece /\ InProgressIsOwned /\ RequestedIsAwaited
        /\ FullPiecesAreVerified
    BY DEF Init, PiecesPartitioned, NoDanglingPiece, InProgressIsOwned, RequestedIsAwaited,
           FullPiecesAreVerified
  <1>3. QuotaRespected
    BY EmptyList, QuotaIsNumber DEF Init, QuotaRespected
  <1>4. BookInv
    BY DEF Init, BookInv, Connected
  <1> QED
    BY <1>1, <1>2, <1>3, <1>4 DEF WorkInv

(* The requests that are out fit the quota of the next state: it shrinks   *)
(* only when warm-up begins, and nothing is asked for then.                *)
LEMMA QuotaKept ==
    ASSUME WorkInv, \A c \in Clients : incoming'[c] \in {incoming[c], <<>>},
           Multi(state') => state' = state \/ \A c \in Clients : incoming[c] = <<>>
    PROVE  QuotaRespected'
  <1> SUFFICES ASSUME NEW c \in Clients
               PROVE  Len(incoming'[c]) <= Quota(state')
    BY DEF QuotaRespected
  <1>1. Len(incoming[c]) <= Quota(state) /\ Len(incoming[c]) \in Nat
    BY DEF WorkInv, TypeOK, QuotaRespected
  <1>2. CASE incoming'[c] = <<>>
    BY <1>2, EmptyList, QuotaIsNumber
  <1>3. CASE incoming'[c] = incoming[c] /\ incoming[c] # <<>>
    <2>1. state' = state \/ ~Multi(state')
      BY <1>3
    <2>2. Quota(state) <= Quota(state')
      BY <2>1, QuotaGrows, QuotaIsNumber
    <2> QED
      BY <1>1, <1>3, <2>2, QuotaIsNumber
  <1> QED
    BY <1>2, <1>3

(* The slots that leave pieces, payloads and requests alone: connections   *)
(* are only added.                                                         *)
LEMMA QuietKeeps ==
    ASSUME WorkInv, UNCHANGED <<piece, lists, payloads, incoming, verifying>>,
           verification' = verification \/ verification' # "done",
           \A c \in Clients : c \in connections => c \in connections',
           \A c \in Connected : c \in Connected'
    PROVE  (PiecesPartitioned /\ NoDanglingPiece /\ InProgressIsOwned /\ RequestedIsAwaited
              /\ FullPiecesAreVerified)'
  <1>1. connections \subseteq Clients
    BY DEF WorkInv, TypeOK
  <1>2. PiecesPartitioned'
    BY DEF WorkInv, PiecesPartitioned, piece, lists
  <1>3. NoDanglingPiece'
    BY DEF WorkInv, NoDanglingPiece, piece
  <1>4. InProgressIsOwned'
    BY <1>1 DEF WorkInv, InProgressIsOwned, piece
  <1>5. RequestedIsAwaited'
    BY <1>1 DEF WorkInv, RequestedIsAwaited, piece
  <1>6. FullPiecesAreVerified'
    BY DEF WorkInv, FullPiecesAreVerified, BlocksLeft, piece
  <1> QED
    BY <1>2, <1>3, <1>4, <1>5, <1>6

LEMMA StartKeeps == ASSUME WorkInv, Start PROVE WorkInv'
  <1>1. TypeOK'
    BY DEF WorkInv, TypeOK, Start, States, piece, lists, conns
  <1>2. /\ UNCHANGED <<piece, lists, payloads, incoming, verifying, connections, sockets>>
        /\ verification' # "done" /\ state' = "Preparing" /\ ~Multi(state')
    BY DEF Start, conns, Multi
  <1>3. (PiecesPartitioned /\ NoDanglingPiece /\ InProgressIsOwned /\ RequestedIsAwaited
           /\ FullPiecesAreVerified)'
    BY <1>2, QuietKeeps DEF Connected
  <1>4. QuotaRespected'
    BY <1>2, QuotaKept
  <1>5. BookInv'
    BY DEF WorkInv, BookInv, Start, Connected, piece, lists, conns
  <1> QED
    BY <1>1, <1>3, <1>4, <1>5 DEF WorkInv

(* No piece was begun before the verdict on the whole file.                *)
LEMMA VerificationKeeps ==
    ASSUME DownloadInv, WorkInv, NEW found \in SUBSET Pieces, NEW l \in BOOLEAN,
           FullVerificationDone(found, l)
    PROVE  WorkInv'
  <1>1. TypeOK'
    BY DEF WorkInv, TypeOK, FullVerificationDone, States, piece, conns
  <1>2. /\ verification # "done" /\ verification' = "done"
        /\ completedPieces' = found /\ incompletePieces' = Pieces \ found
        /\ state' \in {state, "Seeding", "Searching"}
        /\ UNCHANGED <<piece, payloads, incoming, verifying, conns, toSchedule>>
    BY DEF FullVerificationDone
  <1>3. pendingPieces = {} /\ inProgress = {}
    BY <1>2 DEF DownloadInv, PiecesInv, WorkInv, PiecesPartitioned
  <1>4. PiecesPartitioned'
    BY <1>2, <1>3 DEF WorkInv, PiecesPartitioned, piece
  <1>5. NoDanglingPiece' /\ InProgressIsOwned'
    BY <1>2, <1>3 DEF WorkInv, NoDanglingPiece, InProgressIsOwned, Connected, piece, conns
  <1>6. RequestedIsAwaited' /\ FullPiecesAreVerified'
    BY <1>2, <1>3 DEF RequestedIsAwaited, FullPiecesAreVerified, piece
  <1>7. QuotaRespected'
    BY <1>2, QuotaKept DEF Multi
  <1>8. Connected = {} /\ Connected' = {}
    BY <1>2 DEF WorkInv, BookInv, Connected, conns
  <1>9. BookInv'
    BY <1>2, <1>8 DEF WorkInv, BookInv, piece, conns
  <1> QED
    BY <1>1, <1>4, <1>5, <1>6, <1>7, <1>9 DEF WorkInv

LEMMA ScheduleCallKeeps == ASSUME WorkInv, ScheduleDownloads PROVE WorkInv'
  <1>1. toSchedule' \subseteq connections \cap Connected
    BY DEF ScheduleDownloads, Schedulable
  <1>2. TypeOK'
    BY <1>1 DEF WorkInv, TypeOK, ScheduleDownloads, Connected, piece, lists, conns, files
  <1>3. /\ UNCHANGED <<state, piece, lists, payloads, incoming, verification, verifying,
                       connections, sockets, connectingToClients>>
    BY DEF ScheduleDownloads, conns, files
  <1>4. (PiecesPartitioned /\ NoDanglingPiece /\ InProgressIsOwned /\ RequestedIsAwaited
           /\ FullPiecesAreVerified)'
    BY <1>3, QuietKeeps DEF Connected
  <1>5. QuotaRespected'
    BY <1>3, QuotaKept
  <1>6. BookInv'
    BY <1>1, <1>3 DEF WorkInv, BookInv, Connected, piece, lists
  <1> QED
    BY <1>2, <1>4, <1>5, <1>6 DEF WorkInv

(* connectToPeers adds connections and leaves those there are.             *)
LEMMA ConnectingKeeps ==
    ASSUME WorkInv, NEW new \in SUBSET {c \in Clients : Fresh(c)},
           ConnectorTimer(new) \/ AddToPeerList(new)
    PROVE  WorkInv'
  <1>1. /\ UNCHANGED <<piece, lists, payloads, incoming, files, chokedBy, interestedIn,
                       availablePieces, schedulerCalled, toSchedule>>
        /\ connectingToClients' \in BOOLEAN /\ toSchedule = {}
        /\ verification = "done"
    BY DEF ConnectorTimer, AddToPeerList, ConnectToPeers, EventLoop, WorkInv, BookInv
  <1>2. \/ UNCHANGED <<state, connections, sockets>>
        \/ /\ state' = IF state = "Searching" THEN "Connecting" ELSE state
           /\ connections' = connections \cup new
           /\ sockets' = [c \in Clients |-> IF c \in new THEN "connecting" ELSE sockets[c]]
    BY DEF ConnectorTimer, AddToPeerList, ConnectToPeers
  <1>3. TypeOK'
    BY <1>1, <1>2 DEF WorkInv, TypeOK, States, piece, lists, files
  <1>4. connections \subseteq connections' /\ Connected = Connected'
    BY <1>2 DEF Connected, Fresh, WorkInv, TypeOK
  <1>5. (PiecesPartitioned /\ NoDanglingPiece /\ InProgressIsOwned /\ RequestedIsAwaited
           /\ FullPiecesAreVerified)'
    BY <1>1, <1>4, QuietKeeps DEF files
  <1>6. QuotaRespected'
    BY <1>1, <1>2, QuotaKept DEF Multi
  <1>7. BookInv'
    BY <1>1, <1>2, <1>4 DEF WorkInv, BookInv, piece, lists, files
  <1> QED
    BY <1>3, <1>5, <1>6, <1>7 DEF WorkInv

(* A connection is set up: the client enters warm-up only while no other   *)
(* connection is.                                                          *)
LEMMA SetupKeeps ==
    ASSUME DownloadInv, WorkInv, NEW c \in Clients,
           SetupOutgoingConnection(c) \/ SetupIncomingConnection(c)
    PROVE  WorkInv'
  <1>1. /\ UNCHANGED <<piece, lists, payloads, incoming, files, chokedBy, interestedIn,
                       availablePieces, schedulerCalled, toSchedule, connectingToClients>>
        /\ toSchedule = {} /\ sockets[c] # "connected"
        /\ sockets' = [sockets EXCEPT ![c] = "connected"]
        /\ connections' \in {connections, connections \cup {c}}
        /\ state' = StateWhenConnected
    BY DEF SetupOutgoingConnection, SetupIncomingConnection, Fresh, EventLoop
  <1>2. verification = "done"
    BY DEF SetupOutgoingConnection, SetupIncomingConnection, WorkInv, BookInv
  <1>3. \/ state' = state /\ ~(state \in {"Searching", "Connecting"} /\ completedPieces = {})
        \/ /\ state' = "WarmingUp"
           /\ state \in {"Searching", "Connecting"} /\ completedPieces = {}
    BY <1>1, StateOnConnecting DEF StateWhenConnected
  <1>4. TypeOK'
    BY <1>1, <1>3 DEF WorkInv, TypeOK, States, piece, lists, files
  <1>5. connections \subseteq connections' /\ Connected' = Connected \cup {c}
    BY <1>1 DEF Connected, WorkInv, TypeOK
  <1>6. (PiecesPartitioned /\ NoDanglingPiece /\ InProgressIsOwned /\ RequestedIsAwaited
           /\ FullPiecesAreVerified)'
    BY <1>1, <1>5, QuietKeeps DEF files
  <1>7. QuotaRespected'
    <2>1. CASE state' = state
      BY <1>1, <2>1, QuotaKept
    <2>2. CASE state \in {"Searching", "Connecting"} /\ completedPieces = {}
      <3>1. \A o \in Clients : incoming[o] = <<>>
        BY <2>2 DEF WorkInv, BookInv
      <3> QED
        BY <1>1, <3>1, QuotaKept
    <2> QED
      BY <1>3, <2>1, <2>2
  <1>8. BookInv'
    BY <1>1, <1>2, <1>3, <1>5 DEF WorkInv, BookInv, piece, lists, files
  <1> QED
    BY <1>4, <1>6, <1>7, <1>8 DEF WorkInv

(* An unchoke, and an announcement that does not close the connection.     *)
LEMMA MessageKeeps ==
    ASSUME WorkInv,
           UNCHANGED <<state, piece, lists, payloads, incoming, files, connections, sockets,
                       toSchedule, connectingToClients>>,
           chokedBy' \subseteq Clients, interestedIn' \subseteq Clients,
           availablePieces' \in [Clients -> SUBSET Pieces], schedulerCalled' \in BOOLEAN
    PROVE  WorkInv'
  <1>1. TypeOK'
    BY DEF WorkInv, TypeOK, piece, lists, files
  <1>2. UNCHANGED <<verifying, verification>>
    BY DEF files
  <1>3. (PiecesPartitioned /\ NoDanglingPiece /\ InProgressIsOwned /\ RequestedIsAwaited
           /\ FullPiecesAreVerified)'
    BY <1>2, QuietKeeps DEF Connected
  <1>4. QuotaRespected'
    BY QuotaKept
  <1>5. BookInv'
    BY <1>2 DEF WorkInv, BookInv, Connected, piece, lists
  <1> QED
    BY <1>1, <1>3, <1>4, <1>5 DEF WorkInv

(* The connections in D lose their payloads and requests: their pieces are *)
(* taken out of progress and all marks of those are cleared.               *)
PiecesOf(D) == UNION {ToSet(payloads[c]) : c \in D}

Drops(D) ==
    /\ payloads' = [c \in Clients |-> IF c \in D THEN <<>> ELSE payloads[c]]
    /\ incoming' = [c \in Clients |-> IF c \in D THEN <<>> ELSE incoming[c]]
    /\ inProgress' = inProgress \ PiecesOf(D)
    /\ requestedBlocks' = [p \in Pieces |-> IF p \in PiecesOf(D) THEN {}
                                                          ELSE requestedBlocks[p]]
    /\ UNCHANGED <<pendingPieces, completedBlocks, lists, verification, verifying, corrupt,
                   overrun, toSchedule>>

LEMMA DropKeeps ==
    ASSUME WorkInv, NEW D \in SUBSET Clients, Drops(D), toSchedule = {},
           state' = state \/ ~Multi(state'),
           state' \in {"Searching", "Connecting"} => state' = state,
           verification # "done" => /\ state' \in {"Idle", "Preparing", "Paused"}
                                    /\ connectingToClients' = FALSE,
           Connected' \subseteq Connected,
           \A c \in Clients : sockets[c] = "none" => sockets'[c] = "none",
           \A c \in Connected \ Connected' : c \in D,
           \A c \in Clients \ D : payloads[c] # <<>> => c \in connections'
    PROVE  (PiecesPartitioned /\ NoDanglingPiece /\ InProgressIsOwned /\ RequestedIsAwaited
              /\ FullPiecesAreVerified /\ QuotaRespected /\ BookInv)'
  <1> DEFINE mine == PiecesOf(D)
  <1>1. /\ \A c \in D : payloads'[c] = <<>> /\ incoming'[c] = <<>>
        /\ \A c \in Clients \ D : payloads'[c] = payloads[c] /\ incoming'[c] = incoming[c]
        /\ inProgress' = inProgress \ mine
        /\ \A p \in Pieces : requestedBlocks'[p] = IF p \in mine THEN {} ELSE requestedBlocks[p]
        /\ UNCHANGED <<pendingPieces, completedBlocks, completedPieces, incompletePieces,
                       verification, verifying, toSchedule>>
    BY DEF Drops, lists
  <1>2. \A c \in D : \A p \in ToSet(payloads[c]) : p \in mine
    BY DEF PiecesOf
  <1> HIDE DEF mine
  <1>3. \A c \in Clients : \A p \in ToSet(payloads[c]) : payloads[c] # <<>>
    BY EmptyList
  <1>4. connections \subseteq Clients /\ Connected \subseteq Clients
        /\ pendingPieces \subseteq Pieces /\ inProgress \subseteq Pieces
    BY DEF WorkInv, TypeOK, Connected
  <1>5. PiecesPartitioned'
    BY <1>1 DEF WorkInv, PiecesPartitioned
  <1>6. NoDanglingPiece'
    <2> SUFFICES ASSUME NEW c \in Clients, payloads'[c] # <<>>
                 PROVE  /\ ToSet(payloads'[c]) \subseteq pendingPieces
                        /\ c \in connections' /\ c \in Connected'
      BY <1>1 DEF NoDanglingPiece
    <2>1. c \notin D /\ payloads'[c] = payloads[c]
      BY <1>1
    <2> QED
      BY <2>1 DEF WorkInv, NoDanglingPiece
  <1>7. InProgressIsOwned'
    <2> SUFFICES ASSUME NEW p \in inProgress', ~(verifying'[p] > 0)
                 PROVE  \E c \in connections' : p \in ToSet(payloads'[c])
      BY DEF InProgressIsOwned
    <2>1. p \in inProgress /\ p \notin mine /\ ~(verifying[p] > 0)
      BY <1>1
    <2>2. PICK c \in connections : p \in ToSet(payloads[c])
      BY <2>1 DEF WorkInv, InProgressIsOwned
    <2> QED
      BY <1>1, <1>2, <1>3, <1>4, <2>1, <2>2
  <1>8. RequestedIsAwaited'
    <2> SUFFICES ASSUME NEW p \in pendingPieces, NEW b \in requestedBlocks'[p]
                 PROVE  \E c \in connections' : /\ <<p, b>> \in ToSet(incoming'[c])
                                                /\ p \in ToSet(payloads'[c])
      BY <1>1 DEF RequestedIsAwaited
    <2>1. p \notin mine /\ b \in requestedBlocks[p]
      BY <1>1, <1>4
    <2>2. PICK c \in connections : <<p, b>> \in ToSet(incoming[c]) /\ p \in ToSet(payloads[c])
      BY <2>1 DEF WorkInv, RequestedIsAwaited
    <2> QED
      BY <1>1, <1>2, <1>3, <1>4, <2>1, <2>2
  <1>9. FullPiecesAreVerified'
    BY <1>1 DEF WorkInv, FullPiecesAreVerified, BlocksLeft
  <1>10. QuotaRespected'
    BY <1>1, QuotaKept
  <1>11. BookInv'
    <2>1. \A c \in Clients \ Connected' : incoming'[c] = <<>>
      BY <1>1 DEF WorkInv, BookInv
    <2>2. \A p \in Pieces : requestedBlocks'[p] \cap completedBlocks'[p] = {}
      BY <1>1 DEF WorkInv, BookInv
    <2> QED
      BY <1>1, <2>1, <2>2 DEF WorkInv, BookInv
  <1> QED
    BY <1>5, <1>6, <1>7, <1>8, <1>9, <1>10, <1>11

LEMMA DropTyped ==
    ASSUME TypeOK, NEW D \in SUBSET Clients, Drops(D)
    PROVE  /\ payloads' \in [Clients -> Seq(Pieces)]
           /\ incoming' \in [Clients -> Seq(TorrentBlock)]
           /\ inProgress' \subseteq Pieces
           /\ requestedBlocks' \in [Pieces -> SUBSET Nat]
           /\ \A p \in Pieces : requestedBlocks'[p] \subseteq BlocksOf[p]
  <1>1. \A S : <<>> \in Seq(S)
    OBVIOUS
  <1>2. payloads' \in [Clients -> Seq(Pieces)] /\ incoming' \in [Clients -> Seq(TorrentBlock)]
    BY <1>1 DEF TypeOK, Drops
  <1> QED
    BY <1>2 DEF TypeOK, Drops

(* stop and an error of the file manager.                                  *)
LEMMA AbortKeeps ==
    ASSUME WorkInv, (HandleFileError /\ state # "Paused") \/ Stop
    PROVE  WorkInv'
  <1> DEFINE D == connections \cap Connected
  <1>1. /\ AbortAll /\ toSchedule = {}
        /\ UNCHANGED <<pendingPieces, completedBlocks, lists, verification, verifying, corrupt,
                       overrun, schedulerCalled, toSchedule>>
        /\ state' \in {"Idle", "Paused", "Stopping"}
        /\ fileError' \in {fileError, TRUE}
    BY DEF HandleFileError, Stop, EventLoop, files
  <1>2. /\ connections' = {}
        /\ sockets' = [c \in Clients |-> IF c \in D THEN "none" ELSE sockets[c]]
        /\ chokedBy' = chokedBy \cup D /\ interestedIn' = interestedIn \ D
        /\ availablePieces' = [c \in Clients |-> IF c \in D THEN {} ELSE availablePieces[c]]
        /\ connectingToClients' = (connectingToClients \/ D # {})
    BY <1>1 DEF AbortAll
  <1>3. Drops(D)
    BY <1>1 DEF AbortAll, Drops, PiecesOf
  <1>4. D \subseteq Clients
    BY DEF Connected
  <1>5. TypeOK'
    <2>1. TypeOK /\ connectingToClients' \in BOOLEAN
      BY <1>2 DEF WorkInv, TypeOK
    <2>2. /\ sockets' \in [Clients -> {"none", "connecting", "connected"}]
          /\ availablePieces' \in [Clients -> SUBSET Pieces]
      BY <1>2, <2>1 DEF TypeOK
    <2> HIDE DEF D
    <2> QED
      BY <1>1, <1>2, <1>3, <1>4, <2>1, <2>2, DropTyped DEF TypeOK, States, lists
  <1>6. Connected' = Connected \ D
    BY <1>2, <1>4 DEF Connected
  <1>7. \A c \in Clients \ D : payloads[c] = <<>>
    BY DEF WorkInv, NoDanglingPiece
  <1>8. verification # "done" => D = {} /\ connectingToClients = FALSE
                                 /\ state \in {"Idle", "Preparing", "Paused"}
    BY DEF WorkInv, BookInv, Connected
  <1>9. verification # "done" => state' \in {"Idle", "Preparing", "Paused"}
    BY <1>8 DEF HandleFileError, Stop
  <1>10. \A c \in Clients : sockets[c] = "none" => sockets'[c] = "none"
    BY <1>2
  <1>11. ~Multi(state') /\ state' \notin {"Searching", "Connecting"}
    BY <1>1 DEF Multi
  <1>12. verification # "done" => connectingToClients' = FALSE
    BY <1>2, <1>8
  <1> HIDE DEF D
  <1>13. (PiecesPartitioned /\ NoDanglingPiece /\ InProgressIsOwned /\ RequestedIsAwaited
            /\ FullPiecesAreVerified /\ QuotaRespected /\ BookInv)'
    BY <1>1, <1>3, <1>4, <1>6, <1>7, <1>9, <1>10, <1>11, <1>12, DropKeeps
  <1> QED
    BY <1>5, <1>13 DEF WorkInv

(* removeClient.                                                           *)
LEMMA RemoveKeeps ==
    ASSUME WorkInv, NEW c \in Clients, RemoveClient(c), sockets[c] # "none", toSchedule = {},
           UNCHANGED <<state, pendingPieces, completedBlocks, lists, files, schedulerCalled,
                       toSchedule>>
    PROVE  WorkInv'
  <1>1. /\ connections' = connections \ {c}
        /\ sockets' = [sockets EXCEPT ![c] = "none"]
        /\ chokedBy' = chokedBy \cup {c} /\ interestedIn' = interestedIn \ {c}
        /\ availablePieces' = [availablePieces EXCEPT ![c] = {}]
        /\ connectingToClients' = TRUE
    BY DEF RemoveClient
  <1>2. Drops({c})
    <2>1. PiecesOf({c}) = ToSet(payloads[c])
      BY DEF PiecesOf
    <2>2. /\ payloads' = [payloads EXCEPT ![c] = <<>>]
          /\ incoming' = [incoming EXCEPT ![c] = <<>>]
          /\ payloads \in [Clients -> Seq(Pieces)]
          /\ incoming \in [Clients -> Seq(TorrentBlock)]
      BY DEF RemoveClient, ForgetPayload, WorkInv, TypeOK
    <2>3. /\ payloads' = [o \in Clients |-> IF o \in {c} THEN <<>> ELSE payloads[o]]
          /\ incoming' = [o \in Clients |-> IF o \in {c} THEN <<>> ELSE incoming[o]]
      BY <2>2
    <2>4. /\ inProgress' = inProgress \ ToSet(payloads[c])
          /\ requestedBlocks' = [p \in Pieces |-> IF p \in ToSet(payloads[c]) THEN {}
                                                  ELSE requestedBlocks[p]]
      BY Zenon DEF RemoveClient, ForgetPayload
    <2>5. UNCHANGED <<pendingPieces, completedBlocks, lists, verification, verifying, corrupt,
                      overrun, toSchedule>>
      BY DEF files
    <2> QED
      BY <2>1, <2>3, <2>4, <2>5, Zenon DEF Drops
  <1>3. verification = "done"
    BY DEF WorkInv, BookInv
  <1>4. TypeOK'
    <2>1. TypeOK
      BY DEF WorkInv
    <2> QED
      BY <1>1, <1>2, <2>1, DropTyped DEF TypeOK, files, lists
  <1>5. Connected' = Connected \ {c}
    BY <1>1 DEF Connected, WorkInv, TypeOK
  <1>6. \A o \in Clients \ {c} : payloads[o] # <<>> => o \in connections'
    BY <1>1 DEF WorkInv, NoDanglingPiece
  <1>7. \A o \in Clients : sockets[o] = "none" => sockets'[o] = "none"
    BY <1>1
  <1>8. (PiecesPartitioned /\ NoDanglingPiece /\ InProgressIsOwned /\ RequestedIsAwaited
            /\ FullPiecesAreVerified /\ QuotaRespected /\ BookInv)'
    BY <1>2, <1>3, <1>5, <1>6, <1>7, DropKeeps
  <1> QED
    BY <1>4, <1>8 DEF WorkInv

(* The peer chokes us.                                                     *)
LEMMA ChokeKeeps ==
    ASSUME WorkInv, NEW c \in Clients, PeerChoked(c)
    PROVE  WorkInv'
  <1>1. /\ chokedBy' = chokedBy \cup {c} /\ c \in Connected /\ toSchedule = {}
        /\ UNCHANGED <<state, pendingPieces, completedBlocks, lists, files, connections, sockets,
                       interestedIn, availablePieces, schedulerCalled, toSchedule,
                       connectingToClients>>
    BY DEF PeerChoked, EventLoop
  <1>2. Drops({c})
    <2>1. PiecesOf({c}) = ToSet(payloads[c])
      BY DEF PiecesOf
    <2>2. /\ payloads' = [payloads EXCEPT ![c] = <<>>]
          /\ incoming' = [incoming EXCEPT ![c] = <<>>]
          /\ payloads \in [Clients -> Seq(Pieces)]
          /\ incoming \in [Clients -> Seq(TorrentBlock)]
      BY DEF PeerChoked, ForgetPayload, WorkInv, TypeOK
    <2>3. /\ payloads' = [o \in Clients |-> IF o \in {c} THEN <<>> ELSE payloads[o]]
          /\ incoming' = [o \in Clients |-> IF o \in {c} THEN <<>> ELSE incoming[o]]
      BY <2>2
    <2>4. /\ inProgress' = inProgress \ ToSet(payloads[c])
          /\ requestedBlocks' = [p \in Pieces |-> IF p \in ToSet(payloads[c]) THEN {}
                                                  ELSE requestedBlocks[p]]
      BY Zenon DEF PeerChoked, ForgetPayload
    <2>5. UNCHANGED <<pendingPieces, completedBlocks, lists, verification, verifying, corrupt,
                      overrun, toSchedule>>
      BY DEF PeerChoked, files
    <2> QED
      BY <2>1, <2>3, <2>4, <2>5, Zenon DEF Drops
  <1>3. verification = "done"
    BY <1>1 DEF WorkInv, BookInv, Connected
  <1>4. TypeOK'
    <2>1. TypeOK
      BY DEF WorkInv
    <2> QED
      BY <1>1, <1>2, <2>1, DropTyped DEF TypeOK, files, lists
  <1>5. Connected' = Connected
    BY <1>1 DEF Connected
  <1>6. \A o \in Clients \ {c} : payloads[o] # <<>> => o \in connections'
    BY <1>1 DEF WorkInv, NoDanglingPiece
  <1>7. (PiecesPartitioned /\ NoDanglingPiece /\ InProgressIsOwned /\ RequestedIsAwaited
            /\ FullPiecesAreVerified /\ QuotaRespected /\ BookInv)'
    BY <1>1, <1>2, <1>3, <1>5, <1>6, DropKeeps
  <1> QED
    BY <1>4, <1>7 DEF WorkInv

(* A piece is taken out of the payloads.                                   *)
LEMMA WithoutPieceMembers ==
    ASSUME NEW pl \in [Clients -> Seq(Pieces)], NEW p
    PROVE  /\ WithoutPiece(pl, p) \in [Clients -> Seq(Pieces)]
           /\ \A c \in Clients : /\ ToSet(WithoutPiece(pl, p)[c]) = ToSet(pl[c]) \ {p}
                                 /\ pl[c] = <<>> => WithoutPiece(pl, p)[c] = <<>>
  <1>1. ASSUME NEW c \in Clients
        PROVE  /\ Without(pl[c], p) \in Seq(Pieces)
               /\ ToSet(Without(pl[c], p)) = ToSet(pl[c]) \ {p}
               /\ pl[c] = <<>> => Without(pl[c], p) = <<>>
    <2> DEFINE l == pl[c]
               k == Without(l, p)
    <2>1. l \in Seq(Pieces)
      OBVIOUS
    <2> HIDE DEF l
    <2>2. k \in Seq(Pieces) /\ ToSet(k) = ToSet(l) \ {p} /\ Len(k) <= Len(l)
      BY <2>1, WithoutMembers, Zenon
    <2> HIDE DEF k
    <2>3. l = <<>> => k = <<>>
      BY <2>2, EmptyList
    <2> QED
      BY <2>2, <2>3 DEF l, k
  <1>2. WithoutPiece(pl, p) = [c \in Clients |-> Without(pl[c], p)]
    BY DEF WithoutPiece
  <1> QED
    BY <1>1, <1>2

(* A verdict on piece p: it is out of progress and loses its marks.        *)
LEMMA VerdictKeeps ==
    ASSUME WorkInv, DownloadInv, NEW p \in Pieces, verifying[p] > 0,
           payloads' = WithoutPiece(payloads, p),
           inProgress' = inProgress \ {p},
           completedBlocks' = [completedBlocks EXCEPT ![p] = {}],
           requestedBlocks' = [requestedBlocks EXCEPT ![p] = {}],
           verifying' = [verifying EXCEPT ![p] = @ - 1],
           corrupt' \subseteq corrupt, overrun' \subseteq overrun, schedulerCalled' \in BOOLEAN,
           UNCHANGED <<conns, verification, fileError, incoming, toSchedule,
                       connectingToClients>>,
           \/ UNCHANGED <<state, pendingPieces, lists>>
           \/ /\ state' \in {state, "Seeding", "Downloading"}
              /\ pendingPieces' = pendingPieces \ {p}
              /\ completedPieces' = completedPieces \cup {p}
              /\ incompletePieces' = incompletePieces \ {p}
    PROVE  WorkInv'
  <1>1. /\ payloads' \in [Clients -> Seq(Pieces)]
        /\ \A c \in Clients : /\ ToSet(payloads'[c]) = ToSet(payloads[c]) \ {p}
                              /\ payloads'[c] # <<>> => payloads[c] # <<>>
    BY WithoutPieceMembers DEF WorkInv, TypeOK
  <1>2. p \in pendingPieces /\ verification = "done" /\ verifying[p] = 1
    BY DEF DownloadInv, OneVerificationEach, PiecesInv
  <1>3. /\ completedBlocks'[p] = {} /\ requestedBlocks'[p] = {} /\ verifying'[p] = 0
        /\ \A q \in Pieces \ {p} : /\ completedBlocks'[q] = completedBlocks[q]
                                   /\ requestedBlocks'[q] = requestedBlocks[q]
                                   /\ verifying'[q] = verifying[q]
        /\ verifying' \in [Pieces -> Nat]
    BY <1>2 DEF WorkInv, TypeOK
  <1>4. /\ completedBlocks' \in [Pieces -> SUBSET Nat] /\ requestedBlocks' \in [Pieces -> SUBSET Nat]
        /\ \A q \in Pieces : /\ completedBlocks'[q] \subseteq BlocksOf[q]
                             /\ requestedBlocks'[q] \subseteq BlocksOf[q]
    BY <1>3 DEF WorkInv, TypeOK
  <1>5. pendingPieces' \in {pendingPieces, pendingPieces \ {p}}
        /\ state' \in {state, "Seeding", "Downloading"}
    OBVIOUS
  <1>6. TypeOK'
    <2>1. TypeOK
      BY DEF WorkInv
    <2>2. completedPieces' \subseteq Pieces /\ incompletePieces' \subseteq Pieces
      BY <2>1 DEF TypeOK, lists
    <2>3. state' \in States
      BY <1>5, <2>1 DEF TypeOK, States
    <2> QED
      BY <1>1, <1>3, <1>4, <1>5, <2>1, <2>2, <2>3 DEF TypeOK, conns
  <1>7. PiecesPartitioned'
    <2>1. /\ completedPieces' \cup incompletePieces' = Pieces
          /\ completedPieces' \cap incompletePieces' = {}
          /\ pendingPieces' \subseteq incompletePieces'
      BY <1>2 DEF WorkInv, PiecesPartitioned, lists
    <2>2. inProgress' \subseteq pendingPieces'
      BY <1>5 DEF WorkInv, PiecesPartitioned
    <2>3. \A q \in Pieces \ pendingPieces' : completedBlocks'[q] = {} /\ requestedBlocks'[q] = {}
      BY <1>3, <1>5 DEF WorkInv, PiecesPartitioned
    <2> QED
      BY <2>1, <2>2, <2>3 DEF PiecesPartitioned
  <1>8. Connected' = Connected /\ connections' = connections
    BY DEF Connected, conns
  <1>9. NoDanglingPiece'
    BY <1>1, <1>5, <1>8 DEF WorkInv, NoDanglingPiece
  <1>10. InProgressIsOwned'
    <2> SUFFICES ASSUME NEW q \in inProgress', ~(verifying'[q] > 0)
                 PROVE  \E c \in connections : q \in ToSet(payloads'[c])
      BY <1>8 DEF InProgressIsOwned
    <2>1. q \in inProgress /\ q # p /\ q \in Pieces /\ ~(verifying[q] > 0)
      BY <1>3 DEF WorkInv, TypeOK
    <2>2. connections \subseteq Clients
      BY DEF WorkInv, TypeOK
    <2>3. PICK c \in connections : q \in ToSet(payloads[c])
      BY <2>1 DEF WorkInv, InProgressIsOwned
    <2> QED
      BY <1>1, <2>1, <2>2, <2>3
  <1>11. RequestedIsAwaited'
    <2> SUFFICES ASSUME NEW q \in pendingPieces', NEW b \in requestedBlocks'[q]
                 PROVE  \E c \in connections : /\ <<q, b>> \in ToSet(incoming[c])
                                               /\ q \in ToSet(payloads'[c])
      BY <1>8 DEF RequestedIsAwaited
    <2>1. q \in pendingPieces /\ q \in Pieces /\ q # p /\ b \in requestedBlocks[q]
      BY <1>3, <1>5 DEF WorkInv, TypeOK
    <2>2. connections \subseteq Clients
      BY DEF WorkInv, TypeOK
    <2>3. PICK c \in connections : <<q, b>> \in ToSet(incoming[c]) /\ q \in ToSet(payloads[c])
      BY <2>1 DEF WorkInv, RequestedIsAwaited
    <2> QED
      BY <1>1, <2>1, <2>2, <2>3
  <1>12. FullPiecesAreVerified'
    <2> SUFFICES ASSUME NEW q \in pendingPieces', BlocksOf[q] # {}, BlocksLeft(q)' = {}
                 PROVE  verifying'[q] = 1
      BY DEF FullPiecesAreVerified
    <2>1. q \in pendingPieces /\ q \in Pieces
      BY <1>5 DEF WorkInv, TypeOK
    <2>2. q # p
      BY <1>3, <2>1 DEF BlocksLeft
    <2> QED
      BY <1>3, <2>1, <2>2 DEF WorkInv, FullPiecesAreVerified, BlocksLeft
  <1>13. QuotaRespected'
    BY <1>5, QuotaKept DEF Multi
  <1>14. BookInv'
    <2>1. state' \in {"Searching", "Connecting"} /\ completedPieces' = {} =>
             state = state' /\ completedPieces = {}
      BY DEF lists
    <2>2. \A q \in Pieces : requestedBlocks'[q] \cap completedBlocks'[q] = {}
      BY <1>3 DEF WorkInv, BookInv
    <2> QED
      BY <1>2, <1>8, <2>1, <2>2 DEF WorkInv, BookInv
  <1> QED
    BY <1>6, <1>7, <1>9, <1>10, <1>11, <1>12, <1>13, <1>14 DEF WorkInv

LEMMA RejectedKeeps ==
    ASSUME WorkInv, DownloadInv, NEW p \in Pieces, PieceRejected(p)
    PROVE  WorkInv'
  <1>1. schedulerCalled' \in BOOLEAN /\ corrupt' \subseteq corrupt /\ overrun' \subseteq overrun
    BY DEF PieceRejected
  <1> QED
    BY <1>1, VerdictKeeps DEF PieceRejected, Verdict

LEMMA AcceptedKeeps ==
    ASSUME WorkInv, DownloadInv, NEW p \in Pieces, PieceAccepted(p)
    PROVE  WorkInv'
  <1>1. DownloadInv'
    BY AcceptedHolds
  <1>2. state' \in {state, "Seeding", "Downloading"}
    BY <1>1 DEF PieceAccepted, StateWithPieces, DownloadInv, NeverEndgame
  <1>3. schedulerCalled' \in BOOLEAN
    BY DEF PieceAccepted, WorkInv, TypeOK
  <1> QED
    BY <1>2, <1>3, VerdictKeeps DEF PieceAccepted, Verdict

(* What requestMore adds to marks rq and requests inc that were in order.  *)
LEMMA MoreKeeps ==
    ASSUME NEW c \in Clients, NEW rq, NEW inc \in [Clients -> Seq(TorrentBlock)],
           More(c, state', completedBlocks', ToSet(payloads'[c]), rq, inc, requestedBlocks',
                incoming'),
           NoDanglingPiece', connections' \subseteq Clients, pendingPieces' \subseteq Pieces,
           payloads'[c] \in Seq(Pieces),
           \A p \in Pieces : rq[p] \cap completedBlocks'[p] = {},
           \A p \in Pieces \ pendingPieces' : rq[p] = {},
           \A p \in pendingPieces' : \A b \in rq[p] :
              \E o \in connections' : <<p, b>> \in ToSet(inc[o]) /\ p \in ToSet(payloads'[o]),
           \A o \in Clients : Len(inc[o]) <= Quota(state')
    PROVE  /\ requestedBlocks' \in [Pieces -> SUBSET Nat]
           /\ \A p \in Pieces : requestedBlocks'[p] \subseteq BlocksOf[p]
           /\ \A p \in Pieces : requestedBlocks'[p] \cap completedBlocks'[p] = {}
           /\ \A p \in Pieces \ pendingPieces' : requestedBlocks'[p] = {}
           /\ RequestedIsAwaited'
           /\ QuotaRespected'
  <1>1. /\ requestedBlocks' \in [Pieces -> SUBSET Nat]
        /\ \A p \in Pieces : /\ rq[p] \subseteq requestedBlocks'[p]
                             /\ requestedBlocks'[p] \subseteq BlocksOf[p]
        /\ \A p \in Pieces : \A b \in requestedBlocks'[p] \ rq[p] :
              /\ p \in ToSet(payloads'[c]) /\ b \notin completedBlocks'[p]
              /\ <<p, b>> \in ToSet(incoming'[c])
        /\ ToSet(inc[c]) \subseteq ToSet(incoming'[c])
        /\ Len(incoming'[c]) <= Quota(state')
        /\ \A o \in Clients \ {c} : incoming'[o] = inc[o]
    BY DEF More, Requested
  <1>2. \A p \in ToSet(payloads'[c]) : p \in pendingPieces' /\ c \in connections'
    <2> SUFFICES ASSUME NEW p \in ToSet(payloads'[c])
                 PROVE  p \in pendingPieces' /\ c \in connections'
      OBVIOUS
    <2>1. payloads'[c] # <<>>
      BY EmptyList
    <2> QED
      BY <2>1 DEF NoDanglingPiece
  <1>3. \A p \in Pieces : requestedBlocks'[p] \cap completedBlocks'[p] = {}
    BY <1>1
  <1>4. \A p \in Pieces \ pendingPieces' : requestedBlocks'[p] = {}
    BY <1>1, <1>2
  <1>5. RequestedIsAwaited'
    <2> SUFFICES ASSUME NEW p \in pendingPieces', NEW b \in requestedBlocks'[p]
                 PROVE  \E o \in connections' : /\ <<p, b>> \in ToSet(incoming'[o])
                                                /\ p \in ToSet(payloads'[o])
      BY DEF RequestedIsAwaited
    <2>1. p \in Pieces
      OBVIOUS
    <2>2. CASE b \in rq[p]
      <3>1. PICK o \in connections' : <<p, b>> \in ToSet(inc[o]) /\ p \in ToSet(payloads'[o])
        BY <2>2
      <3>2. o \in Clients /\ ToSet(inc[o]) \subseteq ToSet(incoming'[o])
        BY <1>1
      <3> QED
        BY <3>1, <3>2
    <2>3. CASE b \notin rq[p]
      BY <1>1, <1>2, <2>1, <2>3
    <2> QED
      BY <2>2, <2>3
  <1>6. QuotaRespected'
    <2> SUFFICES ASSUME NEW o \in Clients PROVE Len(incoming'[o]) <= Quota(state')
      BY DEF QuotaRespected
    <2>1. CASE o = c
      BY <1>1, <2>1
    <2>2. CASE o # c
      BY <1>1, <2>2
    <2> QED
      BY <2>1, <2>2
  <1> QED
    BY <1>1, <1>3, <1>4, <1>5, <1>6

(* A connection takes piece p as its latest.                               *)
LEMMA AssignMembers ==
    ASSUME NEW pl \in Seq(Pieces), NEW p \in Pieces
    PROVE  <<p>> \o pl \in Seq(Pieces) /\ ToSet(<<p>> \o pl) = ToSet(pl) \cup {p}
  <1>1. <<p>> \in Seq(Pieces) /\ ToSet(<<p>>) = {p}
    BY DEF ToSet
  <1>2. <<p>> \o pl \in Seq(Pieces) /\ ToSet(<<p>> \o pl) = ToSet(<<p>>) \cup ToSet(pl)
    <2> DEFINE l == <<p>>
    <2> HIDE DEF l
    <2>1. l \in Seq(Pieces)
      BY <1>1 DEF l
    <2>2. l \o pl \in Seq(Pieces) /\ ToSet(l \o pl) = ToSet(l) \cup ToSet(pl)
      BY <2>1, ConcatMembers, Zenon
    <2> QED
      BY <2>2 DEF l
  <1> QED
    BY <1>1, <1>2

(* A visit of the scheduler: the connection may take a piece, and blocks   *)
(* of its pieces may be requested.                                         *)
LEMMA VisitView ==
    ASSUME WorkInv, DownloadInv, NEW c \in Clients, SchedulePieceForClient(c)
    PROVE  /\ c \in toSchedule /\ toSchedule' = toSchedule \ {c}
           /\ UNCHANGED <<state, completedBlocks, lists, conns, files, connectingToClients>>
           /\ KeepPieces \/ \E p \in incompletePieces : Assign(c, p)
           /\ \/ requestMore(c, state, payloads'[c], inProgress', completedBlocks,
                             requestedBlocks, incoming)
              \/ UNCHANGED <<requestedBlocks, incoming, schedulerCalled>>
  <1>1. /\ c \in toSchedule /\ toSchedule' = toSchedule \ {c}
        /\ UNCHANGED <<state, completedBlocks, lists, conns, files, connectingToClients>>
    BY DEF SchedulePieceForClient, LeaveIdle, ShareWarmUpPiece, ResumePiece, TakePiece, Visit
  <1>2. CASE LeaveIdle(c)
    BY <1>1, <1>2 DEF LeaveIdle
  <1>3. CASE ResumePiece(c)
    BY <1>1, <1>3 DEF ResumePiece, RequestForPieces
  <1>4. CASE TakePiece(c)
    <2>1. AvailableToClient(c) \subseteq incompletePieces
      BY DEF AvailableToClient
    <2>2. PartialPieces(c) \subseteq incompletePieces /\ NewPieces(c) \subseteq incompletePieces
      BY <2>1 DEF PartialPieces, NewPieces
    <2>3. (\E p \in incompletePieces : Assign(c, p)) /\ RequestForPieces(c)
      BY <1>4, <2>2 DEF TakePiece
    <2> QED
      BY <1>1, <2>3 DEF RequestForPieces
  <1>5. CASE ShareWarmUpPiece(c)
    <2>1. pendingPieces \subseteq incompletePieces
      BY DEF DownloadInv, PiecesInv
    <2>2. KeepPieces \/ \E p \in incompletePieces : Assign(c, p)
      BY <1>5, <2>1 DEF ShareWarmUpPiece
    <2>3. RequestForPieces(c) \/ UNCHANGED <<requestedBlocks, incoming, schedulerCalled>>
      BY <1>5 DEF ShareWarmUpPiece
    <2> QED
      BY <1>1, <2>2, <2>3 DEF RequestForPieces
  <1> QED
    BY <1>2, <1>3, <1>4, <1>5 DEF SchedulePieceForClient

LEMMA VisitKeeps ==
    ASSUME WorkInv, DownloadInv, NEW c \in Clients, SchedulePieceForClient(c)
    PROVE  WorkInv'
  <1> USE DEF lists, conns, files
  <1>1. TypeOK
    BY DEF WorkInv
  <1>2. /\ c \in toSchedule /\ toSchedule' = toSchedule \ {c}
        /\ UNCHANGED <<state, completedBlocks, completedPieces, incompletePieces, conns,
                       verification, verifying, corrupt, overrun, fileError,
                       connectingToClients>>
    BY VisitView
  <1>3. c \in connections /\ c \in Connected /\ Connected' = Connected
        /\ connections' = connections /\ connections \subseteq Clients
    BY <1>1, <1>2 DEF WorkInv, BookInv, TypeOK, Connected
  <1>4. \/ UNCHANGED <<pendingPieces, inProgress, payloads>>
        \/ \E p \in incompletePieces : Assign(c, p)
    BY VisitView DEF KeepPieces
  <1>5. /\ pendingPieces \subseteq pendingPieces' /\ pendingPieces' \subseteq incompletePieces
        /\ inProgress' \subseteq pendingPieces'
        /\ payloads' \in [Clients -> Seq(Pieces)]
        /\ \A o \in Clients \ {c} : payloads'[o] = payloads[o]
        /\ ToSet(payloads[c]) \subseteq ToSet(payloads'[c])
        /\ ToSet(payloads'[c]) \subseteq pendingPieces'
        /\ inProgress' \subseteq inProgress \cup ToSet(payloads'[c])
    <2>1. /\ pendingPieces \subseteq incompletePieces /\ inProgress \subseteq pendingPieces
          /\ incompletePieces \subseteq Pieces
          /\ payloads \in [Clients -> Seq(Pieces)]
      BY DEF WorkInv, TypeOK, PiecesPartitioned
    <2>2. ToSet(payloads[c]) \subseteq pendingPieces
      BY EmptyList DEF WorkInv, NoDanglingPiece
    <2>3. CASE UNCHANGED <<pendingPieces, inProgress, payloads>>
      BY <2>1, <2>2, <2>3
    <2>4. ASSUME NEW p \in incompletePieces, Assign(c, p)
          PROVE  /\ pendingPieces' = pendingPieces \cup {p} /\ inProgress' = inProgress \cup {p}
                 /\ payloads' \in [Clients -> Seq(Pieces)]
                 /\ \A o \in Clients \ {c} : payloads'[o] = payloads[o]
                 /\ ToSet(payloads'[c]) = ToSet(payloads[c]) \cup {p}
      <3> DEFINE pl == payloads[c]
      <3>1. pl \in Seq(Pieces) /\ p \in Pieces
        BY <2>1
      <3> HIDE DEF pl
      <3>2. <<p>> \o pl \in Seq(Pieces) /\ ToSet(<<p>> \o pl) = ToSet(pl) \cup {p}
        BY <3>1, AssignMembers
      <3>3. /\ pendingPieces' = pendingPieces \cup {p} /\ inProgress' = inProgress \cup {p}
            /\ payloads' = [payloads EXCEPT ![c] = <<p>> \o pl]
        BY <2>4 DEF Assign, pl
      <3>4. payloads'[c] = <<p>> \o pl
        BY <2>1, <3>3
      <3>5. ToSet(payloads'[c]) = ToSet(pl) \cup {p}
        BY <3>2, <3>4
      <3> QED
        BY <2>1, <3>2, <3>3, <3>5 DEF pl
    <2> QED
      BY <1>4, <2>1, <2>2, <2>3, <2>4
  <1>6. incompletePieces \subseteq Pieces /\ pendingPieces' \subseteq Pieces
    BY <1>1, <1>5 DEF TypeOK
  <1>7. NoDanglingPiece'
    <2> SUFFICES ASSUME NEW o \in Clients, payloads'[o] # <<>>
                 PROVE  /\ ToSet(payloads'[o]) \subseteq pendingPieces'
                        /\ o \in connections /\ o \in Connected
      BY <1>3 DEF NoDanglingPiece
    <2>1. CASE o = c
      BY <1>3, <1>5, <2>1
    <2>2. CASE o # c
      BY <1>5, <2>2 DEF WorkInv, NoDanglingPiece
    <2> QED
      BY <2>1, <2>2
  <1>8. /\ requestedBlocks \in [Pieces -> SUBSET Nat]
        /\ incoming \in [Clients -> Seq(TorrentBlock)]
        /\ \A p \in Pieces : requestedBlocks[p] \subseteq BlocksOf[p]
        /\ \A o \in Clients : Len(incoming[o]) <= Quota(state)
        /\ schedulerCalled \in BOOLEAN
    BY <1>1 DEF TypeOK, WorkInv, QuotaRespected
  <1>9. /\ schedulerCalled' \in BOOLEAN
        /\ More(c, state, completedBlocks, ToSet(payloads'[c]), requestedBlocks, incoming,
                requestedBlocks', incoming')
    <2>1. CASE requestMore(c, state, payloads'[c], inProgress', completedBlocks,
                           requestedBlocks, incoming)
      <3>1. payloads'[c] \in Seq(Pieces)
        BY <1>5
      <3>2. Len(incoming[c]) <= Quota(state)
        BY <1>8
      <3> QED
        BY <1>8, <2>1, <3>1, <3>2, MoreRequested, Zenon DEF requestMore
    <2>2. CASE UNCHANGED <<requestedBlocks, incoming, schedulerCalled>>
      <3>1. Len(incoming[c]) <= Quota(state)
        BY <1>8
      <3>2. More(c, state, completedBlocks, ToSet(payloads'[c]), requestedBlocks, incoming,
                 requestedBlocks, incoming)
        BY <1>8, <3>1, NothingRequested
      <3> QED
        BY <1>8, <2>2, <3>2
    <2> QED
      BY <2>1, <2>2, VisitView
  <1>10. /\ requestedBlocks' \in [Pieces -> SUBSET Nat]
         /\ \A p \in Pieces : requestedBlocks'[p] \subseteq BlocksOf[p]
         /\ \A p \in Pieces : requestedBlocks'[p] \cap completedBlocks'[p] = {}
         /\ \A p \in Pieces \ pendingPieces' : requestedBlocks'[p] = {}
         /\ RequestedIsAwaited'
         /\ QuotaRespected'
    <2>1. More(c, state', completedBlocks', ToSet(payloads'[c]), requestedBlocks, incoming,
               requestedBlocks', incoming')
      BY <1>2, <1>9
    <2>2. \A p \in Pieces : requestedBlocks[p] \cap completedBlocks'[p] = {}
      BY <1>2 DEF WorkInv, BookInv
    <2>3. \A p \in Pieces \ pendingPieces' : requestedBlocks[p] = {}
      BY <1>5 DEF WorkInv, PiecesPartitioned
    <2>4. ASSUME NEW p \in pendingPieces', NEW b \in requestedBlocks[p]
          PROVE  \E o \in connections' : <<p, b>> \in ToSet(incoming[o])
                                         /\ p \in ToSet(payloads'[o])
      <3>1. p \in pendingPieces
        BY <1>6 DEF WorkInv, PiecesPartitioned
      <3>2. PICK o \in connections : <<p, b>> \in ToSet(incoming[o]) /\ p \in ToSet(payloads[o])
        BY <3>1 DEF WorkInv, RequestedIsAwaited
      <3>3. ToSet(payloads[o]) \subseteq ToSet(payloads'[o])
        BY <1>3, <1>5
      <3> QED
        BY <1>3, <3>2, <3>3
    <2>5. connections' \subseteq Clients /\ payloads'[c] \in Seq(Pieces)
          /\ \A o \in Clients : Len(incoming[o]) <= Quota(state')
      BY <1>2, <1>3, <1>5, <1>8
    <2> QED
      BY <1>6, <1>7, <1>8, <1>9, <2>1, <2>2, <2>3, <2>4, <2>5, MoreKeeps
  <1>11. TypeOK'
    BY <1>1, <1>2, <1>5, <1>6, <1>9, <1>10 DEF TypeOK, More
  <1>12. PiecesPartitioned'
    BY <1>2, <1>5, <1>10 DEF WorkInv, PiecesPartitioned
  <1>13. InProgressIsOwned'
    <2> SUFFICES ASSUME NEW p \in inProgress', ~(verifying'[p] > 0)
                 PROVE  \E o \in connections : p \in ToSet(payloads'[o])
      BY <1>3 DEF InProgressIsOwned
    <2>1. CASE p \in ToSet(payloads'[c])
      BY <1>3, <2>1
    <2>2. CASE p \in inProgress
      <3>1. PICK o \in connections : p \in ToSet(payloads[o])
        BY <1>2, <2>2 DEF WorkInv, InProgressIsOwned
      <3>2. ToSet(payloads[o]) \subseteq ToSet(payloads'[o])
        BY <1>3, <1>5
      <3> QED
        BY <3>1, <3>2
    <2> QED
      BY <1>5, <2>1, <2>2
  <1>14. FullPiecesAreVerified'
    <2> SUFFICES ASSUME NEW p \in pendingPieces', BlocksOf[p] # {}, BlocksLeft(p)' = {}
                 PROVE  verifying'[p] = 1
      BY DEF FullPiecesAreVerified
    <2>1. BlocksLeft(p) = {} /\ p \in Pieces
      BY <1>2, <1>6 DEF BlocksLeft
    <2>2. p \in pendingPieces
      BY <2>1 DEF WorkInv, PiecesPartitioned, BlocksLeft
    <2> QED
      BY <1>2, <2>1, <2>2 DEF WorkInv, FullPiecesAreVerified
  <1>15. BookInv'
    <2>1. \A o \in Clients \ Connected : incoming'[o] = <<>>
      BY <1>3, <1>9 DEF WorkInv, BookInv, More
    <2> QED
      BY <1>2, <1>3, <1>10, <2>1 DEF WorkInv, BookInv
  <1> QED
    BY <1>7, <1>10, <1>11, <1>12, <1>13, <1>14, <1>15 DEF WorkInv

(* The requests for one block are taken out of a list.                     *)
LEMMA RequestWithout ==
    ASSUME NEW l \in Seq(TorrentBlock), NEW w
    PROVE  /\ Without(l, w) \in Seq(TorrentBlock)
           /\ ToSet(Without(l, w)) = ToSet(l) \ {w}
           /\ Len(Without(l, w)) \in Nat /\ Len(l) \in Nat
           /\ Len(Without(l, w)) <= Len(l)
           /\ l = <<>> => Without(l, w) = <<>>
  <1> DEFINE k == Without(l, w)
  <1>1. k \in Seq(TorrentBlock) /\ ToSet(k) = ToSet(l) \ {w} /\ Len(k) <= Len(l)
    BY WithoutMembers, Zenon
  <1> HIDE DEF k
  <1>2. (l = <<>> => k = <<>>) /\ Len(k) \in Nat /\ Len(l) \in Nat
    BY <1>1, EmptyList
  <1> QED
    BY <1>1, <1>2 DEF k

(* The connections' requests less without those for block w.               *)
Fewer(less, inc, w) ==
    /\ less \in [Clients -> Seq(TorrentBlock)]
    /\ \A o \in Clients : /\ ToSet(inc[o]) \ {w} \subseteq ToSet(less[o])
                          /\ Len(less[o]) <= Len(inc[o])
                          /\ inc[o] = <<>> => less[o] = <<>>

(* A block that is not needed only makes room for requests: its piece is   *)
(* not begun and has no marks, or it is complete and not marked.           *)
LEMMA UnneededKeeps ==
    ASSUME WorkInv, DownloadInv, NEW c \in Clients, NEW p \in Pieces, NEW b \in BlocksOf[p],
           c \in Connected, toSchedule = {},
           ~(p \in pendingPieces /\ b \in BlocksLeft(p)),
           NEW received, Fewer(received, incoming, <<p, b>>), schedulerCalled' \in BOOLEAN,
           More(c, state, completedBlocks, ToSet(payloads[c]), requestedBlocks, received,
                requestedBlocks', incoming'),
           UNCHANGED <<state, completedBlocks, corrupt, overrun, verifying, payloads, pendingPieces,
                       inProgress, lists, conns, verification, fileError, toSchedule,
                       connectingToClients>>
    PROVE  WorkInv'
  <1> USE DEF lists, conns
  <1>1. TypeOK /\ payloads[c] \in Seq(Pieces)
    BY DEF WorkInv, TypeOK
  <1>2. /\ requestedBlocks \in [Pieces -> SUBSET Nat]
        /\ incoming \in [Clients -> Seq(TorrentBlock)]
        /\ \A q \in Pieces : requestedBlocks[q] \subseteq BlocksOf[q]
        /\ \A o \in Clients : Len(incoming[o]) <= Quota(state) /\ Len(incoming[o]) \in Nat
        /\ schedulerCalled \in BOOLEAN
    BY <1>1 DEF TypeOK, WorkInv, QuotaRespected
  <1>3. /\ received \in [Clients -> Seq(TorrentBlock)]
        /\ \A o \in Clients : Len(received[o]) <= Quota(state)
        /\ \A o \in Clients : /\ ToSet(incoming[o]) \ {<<p, b>>} \subseteq ToSet(received[o])
                              /\ incoming[o] = <<>> => received[o] = <<>>
        /\ \A o \in Clients \ {c} : incoming'[o] = received[o]
        /\ incoming' \in [Clients -> Seq(TorrentBlock)]
    <2>1. received \in [Clients -> Seq(TorrentBlock)]
      BY DEF Fewer
    <2>2. \A o \in Clients : received[o] \in Seq(TorrentBlock)
      BY <2>1
    <2>3. \A o \in Clients : Len(received[o]) \in Nat /\ Len(received[o]) <= Len(incoming[o])
      BY <2>2 DEF Fewer
    <2>4. \A o \in Clients : Len(received[o]) <= Quota(state)
      BY <1>2, <2>3, QuotaIsNumber
    <2> QED
      BY <2>1, <2>4 DEF Fewer, More
  <1>4. b \notin requestedBlocks[p] \/ p \notin pendingPieces
    BY DEF WorkInv, BookInv, BlocksLeft
  <1>5. /\ connections' = connections /\ Connected' = Connected /\ connections \subseteq Clients
        /\ pendingPieces \subseteq Pieces
    BY <1>1 DEF TypeOK, Connected
  <1>6. NoDanglingPiece'
    BY <1>5 DEF WorkInv, NoDanglingPiece
  <1>7. /\ requestedBlocks' \in [Pieces -> SUBSET Nat]
        /\ \A q \in Pieces : requestedBlocks'[q] \subseteq BlocksOf[q]
        /\ \A q \in Pieces : requestedBlocks'[q] \cap completedBlocks'[q] = {}
        /\ \A q \in Pieces \ pendingPieces' : requestedBlocks'[q] = {}
        /\ RequestedIsAwaited'
        /\ QuotaRespected'
    <2>1. More(c, state', completedBlocks', ToSet(payloads'[c]), requestedBlocks, received,
               requestedBlocks', incoming')
      OBVIOUS
    <2>2. \A q \in Pieces : requestedBlocks[q] \cap completedBlocks'[q] = {}
      BY DEF WorkInv, BookInv
    <2>3. \A q \in Pieces \ pendingPieces' : requestedBlocks[q] = {}
      BY DEF WorkInv, PiecesPartitioned
    <2>4. ASSUME NEW q \in pendingPieces', NEW a \in requestedBlocks[q]
          PROVE  \E o \in connections' : <<q, a>> \in ToSet(received[o])
                                         /\ q \in ToSet(payloads'[o])
      <3>1. PICK o \in connections : <<q, a>> \in ToSet(incoming[o]) /\ q \in ToSet(payloads[o])
        BY DEF WorkInv, RequestedIsAwaited
      <3>2. <<q, a>> # <<p, b>>
        BY <1>4
      <3> QED
        BY <1>3, <1>5, <3>1, <3>2
    <2>5. connections' \subseteq Clients /\ pendingPieces' \subseteq Pieces
          /\ payloads'[c] \in Seq(Pieces) /\ \A o \in Clients : Len(received[o]) <= Quota(state')
      BY <1>1, <1>3, <1>5
    <2> QED
      BY <1>3, <1>6, <2>1, <2>2, <2>3, <2>4, <2>5, MoreKeeps
  <1>8. TypeOK'
    BY <1>1, <1>3, <1>7 DEF TypeOK
  <1>9. PiecesPartitioned'
    BY <1>7 DEF WorkInv, PiecesPartitioned
  <1>10. InProgressIsOwned'
    BY <1>5 DEF WorkInv, InProgressIsOwned
  <1>11. FullPiecesAreVerified'
    BY DEF WorkInv, FullPiecesAreVerified, BlocksLeft
  <1>12. BookInv'
    <2>1. \A o \in Clients \ Connected : incoming'[o] = <<>>
      BY <1>3 DEF WorkInv, BookInv
    <2> QED
      BY <1>5, <1>7, <2>1 DEF WorkInv, BookInv
  <1> QED
    BY <1>6, <1>7, <1>8, <1>9, <1>10, <1>11, <1>12 DEF WorkInv

(* A block that its piece lacks is complete and not marked any more; with  *)
(* the last one the piece leaves the payloads and is verified.             *)
LEMMA NeededKeeps ==
    ASSUME WorkInv, DownloadInv, NEW c \in Clients, NEW p \in Pieces, NEW b \in BlocksOf[p],
           c \in Connected, toSchedule = {}, p \in pendingPieces, b \in BlocksLeft(p),
           state' \in {state, "Downloading"},
           corrupt' \subseteq TorrentBlock, overrun' \subseteq Pieces,
           completedBlocks' = [completedBlocks EXCEPT ![p] = @ \cup {b}],
           NEW full \in BOOLEAN, full <=> completedBlocks'[p] = BlocksOf[p],
           verifying' = IF full THEN [verifying EXCEPT ![p] = @ + 1] ELSE verifying,
           payloads' = IF full THEN WithoutPiece(payloads, p) ELSE payloads,
           NEW marks \in [Pieces -> SUBSET Nat], marks[p] = requestedBlocks[p] \ {b},
           \A q \in Pieces \ {p} : marks[q] = requestedBlocks[q],
           NEW cancels, Fewer(cancels, incoming, <<p, b>>), schedulerCalled' \in BOOLEAN,
           More(c, state', completedBlocks', ToSet(payloads'[c]), marks, cancels,
                requestedBlocks', incoming'),
           UNCHANGED <<pendingPieces, inProgress, lists, conns, verification, fileError,
                       toSchedule, connectingToClients>>
    PROVE  WorkInv'
  <1> USE DEF lists, conns
  <1>1. TypeOK
    BY DEF WorkInv
  <1>2. /\ requestedBlocks \in [Pieces -> SUBSET Nat] /\ completedBlocks \in [Pieces -> SUBSET Nat]
        /\ \A q \in Pieces : /\ requestedBlocks[q] \subseteq BlocksOf[q]
                             /\ completedBlocks[q] \subseteq BlocksOf[q]
        /\ payloads \in [Clients -> Seq(Pieces)]
        /\ incoming \in [Clients -> Seq(TorrentBlock)]
        /\ \A o \in Clients : Len(incoming[o]) <= Quota(state)
    BY <1>1 DEF TypeOK, WorkInv, QuotaRespected
  <1>3. /\ cancels \in [Clients -> Seq(TorrentBlock)]
        /\ \A o \in Clients : Len(cancels[o]) <= Quota(state')
        /\ \A o \in Clients : /\ ToSet(incoming[o]) \ {<<p, b>>} \subseteq ToSet(cancels[o])
                              /\ incoming[o] = <<>> => cancels[o] = <<>>
        /\ \A o \in Clients \ {c} : incoming'[o] = cancels[o]
        /\ incoming' \in [Clients -> Seq(TorrentBlock)]
    <2>1. \A o \in Clients : cancels[o] \in Seq(TorrentBlock) /\ incoming[o] \in Seq(TorrentBlock)
      BY <1>2 DEF Fewer
    <2>2. \A o \in Clients : /\ Len(cancels[o]) \in Nat /\ Len(incoming[o]) \in Nat
                             /\ Len(cancels[o]) <= Len(incoming[o])
      BY <2>1 DEF Fewer
    <2>3. Quota(state) <= Quota(state')
      <3>1. CASE state' = state
        BY <3>1, QuotaIsNumber
      <3>2. CASE state' = "Downloading"
        BY <3>2, QuotaGrows DEF Multi
      <3> QED
        BY <3>1, <3>2
    <2>4. \A o \in Clients : Len(cancels[o]) <= Quota(state')
      BY <1>2, <2>2, <2>3, QuotaIsNumber
    <2> QED
      BY <2>4 DEF Fewer, More
  <1>4. /\ connections' = connections /\ Connected' = Connected /\ connections \subseteq Clients
        /\ pendingPieces \subseteq Pieces
    BY <1>1 DEF TypeOK, Connected
  <1>5. /\ completedBlocks'[p] = completedBlocks[p] \cup {b}
        /\ marks[p] = requestedBlocks[p] \ {b}
        /\ \A q \in Pieces \ {p} : /\ completedBlocks'[q] = completedBlocks[q]
                                   /\ marks[q] = requestedBlocks[q]
        /\ marks \in [Pieces -> SUBSET Nat]
        /\ completedBlocks' \in [Pieces -> SUBSET Nat]
        /\ \A q \in Pieces : /\ completedBlocks'[q] \subseteq BlocksOf[q]
                             /\ marks[q] \subseteq BlocksOf[q]
    <2>1. b \in Nat
      BY BlocksFinite
    <2> QED
      BY <1>2, <2>1
  <1>6. verifying[p] = 0 /\ verifying' \in [Pieces -> Nat] /\ verification = "done"
    <2>1. verifying \in [Pieces -> Nat]
      BY <1>1 DEF TypeOK
    <2>2. verifying[p] = 0
      <3>1. ~(verifying[p] > 0)
        BY Zenon DEF DownloadInv, OneVerificationEach
      <3> QED
        BY <2>1, <3>1
    <2>3. verification = "done"
      BY DEF DownloadInv, PiecesInv
    <2> QED
      BY <2>1, <2>2, <2>3
  <1>7. /\ full => verifying'[p] = 1
        /\ \A q \in Pieces : verifying'[q] = verifying[q] \/ (q = p /\ full)
    BY <1>1, <1>6 DEF TypeOK
  <1>8. /\ payloads' \in [Clients -> Seq(Pieces)]
        /\ \A o \in Clients : /\ ToSet(payloads'[o]) \subseteq ToSet(payloads[o])
                              /\ payloads'[o] # <<>> => payloads[o] # <<>>
                              /\ \A q \in ToSet(payloads[o]) :
                                    q \in ToSet(payloads'[o]) \/ (q = p /\ full)
    <2>1. /\ WithoutPiece(payloads, p) \in [Clients -> Seq(Pieces)]
          /\ \A o \in Clients :
                /\ ToSet(WithoutPiece(payloads, p)[o]) = ToSet(payloads[o]) \ {p}
                /\ payloads[o] = <<>> => WithoutPiece(payloads, p)[o] = <<>>
      BY <1>2, WithoutPieceMembers
    <2>2. CASE full
      BY <2>1, <2>2
    <2>3. CASE ~full
      BY <1>2, <2>3
    <2> QED
      BY <2>2, <2>3
  <1>9. full => marks[p] = {}
    BY <1>2, <1>5 DEF WorkInv, BookInv
  <1>10. NoDanglingPiece'
    BY <1>4, <1>8 DEF WorkInv, NoDanglingPiece
  <1>11. \A q \in Pieces : marks[q] \cap completedBlocks'[q] = {}
    BY <1>5 DEF WorkInv, BookInv
  <1>12. ASSUME NEW q \in pendingPieces', NEW a \in marks[q]
         PROVE  \E o \in connections' : <<q, a>> \in ToSet(cancels[o])
                                        /\ q \in ToSet(payloads'[o])
    <2>1. q \in pendingPieces /\ q \in Pieces /\ a \in requestedBlocks[q] /\ ~(q = p /\ full)
      BY <1>4, <1>5, <1>9
    <2>2. PICK o \in connections : <<q, a>> \in ToSet(incoming[o]) /\ q \in ToSet(payloads[o])
      BY <2>1 DEF WorkInv, RequestedIsAwaited
    <2>3. <<q, a>> # <<p, b>>
      BY <1>5
    <2>4. o \in Clients /\ o \in connections' /\ q \in ToSet(payloads'[o])
      BY <1>4, <1>8, <2>1, <2>2
    <2> QED
      BY <1>3, <2>2, <2>3, <2>4
  <1>13. \A q \in Pieces \ pendingPieces' : marks[q] = {}
    BY <1>5 DEF WorkInv, PiecesPartitioned
  <1>14. /\ requestedBlocks' \in [Pieces -> SUBSET Nat]
         /\ \A q \in Pieces : requestedBlocks'[q] \subseteq BlocksOf[q]
         /\ \A q \in Pieces : requestedBlocks'[q] \cap completedBlocks'[q] = {}
         /\ \A q \in Pieces \ pendingPieces' : requestedBlocks'[q] = {}
         /\ RequestedIsAwaited'
         /\ QuotaRespected'
    <2>1. connections' \subseteq Clients /\ pendingPieces' \subseteq Pieces
          /\ payloads'[c] \in Seq(Pieces)
      BY <1>4, <1>8
    <2> QED
      BY <1>3, <1>10, <1>11, <1>12, <1>13, <2>1, MoreKeeps
  <1>15. TypeOK'
    <2>1. state' \in States
      BY <1>1 DEF TypeOK, States
    <2> QED
      BY <1>1, <1>3, <1>5, <1>6, <1>8, <1>14, <2>1 DEF TypeOK
  <1>16. PiecesPartitioned'
    BY <1>4, <1>5, <1>14 DEF WorkInv, PiecesPartitioned
  <1>17. InProgressIsOwned'
    <2> SUFFICES ASSUME NEW q \in inProgress, ~(verifying'[q] > 0)
                 PROVE  \E o \in connections : q \in ToSet(payloads'[o])
      BY <1>4 DEF InProgressIsOwned
    <2>1. q \in Pieces /\ ~(verifying[q] > 0) /\ ~(q = p /\ full)
      BY <1>1, <1>7 DEF TypeOK
    <2>2. PICK o \in connections : q \in ToSet(payloads[o])
      BY <2>1 DEF WorkInv, InProgressIsOwned
    <2> QED
      BY <1>4, <1>8, <2>1, <2>2
  <1>18. FullPiecesAreVerified'
    <2> SUFFICES ASSUME NEW q \in pendingPieces, BlocksOf[q] # {}, BlocksLeft(q)' = {}
                 PROVE  verifying'[q] = 1
      BY DEF FullPiecesAreVerified
    <2>1. CASE q = p
      BY <1>5, <1>7, <2>1 DEF BlocksLeft
    <2>2. CASE q # p
      BY <1>4, <1>5, <1>7, <2>2 DEF WorkInv, FullPiecesAreVerified, BlocksLeft
    <2> QED
      BY <2>1, <2>2
  <1>19. BookInv'
    <2>1. \A o \in Clients \ Connected : incoming'[o] = <<>>
      BY <1>3 DEF WorkInv, BookInv
    <2>2. state' \in {"Searching", "Connecting"} => state' = state
      OBVIOUS
    <2> QED
      BY <1>4, <1>6, <1>14, <2>1, <2>2 DEF WorkInv, BookInv
  <1> QED
    BY <1>10, <1>14, <1>15, <1>16, <1>17, <1>18, <1>19 DEF WorkInv

LEMMA BlockKeeps ==
    ASSUME WorkInv, DownloadInv, NEW c \in Clients, NEW p \in Pieces, NEW b \in BlocksOf[p],
           NEW fits \in BOOLEAN, NEW wrong, BlockReceived(c, p, b, fits, wrong)
    PROVE  WorkInv'
  <1> DEFINE w        == <<p, b>>
             received == IF fits THEN [incoming EXCEPT ![c] = Without(@, w)] ELSE incoming
             others   == {o \in Clients : fits /\ o # c /\ Multi(state) /\ p \in ToSet(payloads[o])}
             cancels  == [o \in Clients |-> IF o \in others THEN Without(received[o], w)
                                                            ELSE received[o]]
             done     == [completedBlocks EXCEPT ![p] = @ \cup {b}]
             marks    == [requestedBlocks EXCEPT ![p] = @ \ {b}]
             full     == done[p] = BlocksOf[p]
             next     == IF state \notin {"Downloading", "Endgame"} /\ completedPieces # {}
                         THEN "Downloading" ELSE state
             left     == IF full THEN WithoutPiece(payloads, p) ELSE payloads
             Needed   == p \in pendingPieces /\ b \in BlocksLeft(p)
  <1>1. /\ c \in Connected /\ toSchedule = {}
        /\ UNCHANGED <<pendingPieces, inProgress, lists, conns, verification, fileError,
                       toSchedule, connectingToClients>>
    BY DEF BlockReceived, EventLoop
  <1>2. \/ /\ ~Needed
           /\ requestMore(c, state, payloads[c], inProgress, completedBlocks, requestedBlocks,
                          received)
           /\ UNCHANGED <<state, completedBlocks, corrupt, overrun, verifying, payloads>>
        \/ /\ Needed
           /\ state' = next /\ completedBlocks' = done /\ payloads' = left
           /\ corrupt' \subseteq TorrentBlock /\ overrun' \subseteq Pieces
           /\ verifying' = IF full THEN [verifying EXCEPT ![p] = @ + 1] ELSE verifying
           /\ requestMore(c, next, left[c], inProgress, done, marks, cancels)
    <2>1. \A o \in Clients :
             (fits /\ o # c /\ Multi(state) /\ p \in ToSet(payloads[o])) <=> o \in others
      OBVIOUS
    <2>2. cancels = [o \in Clients |->
                        IF fits /\ o # c /\ Multi(state) /\ p \in ToSet(payloads[o])
                        THEN Without(received[o], w) ELSE received[o]]
      BY <2>1
    <2> HIDE DEF cancels
    <2>3. WrittenOver(p, b, fits) \subseteq TorrentBlock
      BY DEF WrittenOver, TorrentBlock
    <2>4. corrupt \subseteq TorrentBlock /\ overrun \subseteq Pieces
      BY DEF WorkInv, TypeOK
    <2>5. /\ corrupt' \subseteq corrupt \cup WrittenOver(p, b, fits)
          /\ overrun' \subseteq overrun \cup Pieces
      BY DEF BlockReceived
    <2>6. corrupt' \subseteq TorrentBlock /\ overrun' \subseteq Pieces
      BY <2>3, <2>4, <2>5
    <2> QED
      BY <2>2, <2>6 DEF BlockReceived
  <1>3. /\ requestedBlocks \in [Pieces -> SUBSET Nat] /\ completedBlocks \in [Pieces -> SUBSET Nat]
        /\ \A q \in Pieces : requestedBlocks[q] \subseteq BlocksOf[q]
        /\ payloads \in [Clients -> Seq(Pieces)]
        /\ incoming \in [Clients -> Seq(TorrentBlock)]
        /\ \A o \in Clients : Len(incoming[o]) <= Quota(state) /\ Len(incoming[o]) \in Nat
        /\ schedulerCalled \in BOOLEAN
    BY DEF WorkInv, TypeOK, QuotaRespected
  <1>4. /\ received \in [Clients -> Seq(TorrentBlock)]
        /\ \A o \in Clients : /\ ToSet(incoming[o]) \ {w} \subseteq ToSet(received[o])
                              /\ Len(received[o]) <= Len(incoming[o])
                              /\ incoming[o] = <<>> => received[o] = <<>>
    <2>1. \A o \in Clients : received[o] \in {incoming[o], Without(incoming[o], w)}
      BY <1>3
    <2>2. \A o \in Clients : /\ incoming[o] \in Seq(TorrentBlock)
                             /\ Without(incoming[o], w) \in Seq(TorrentBlock)
      BY <1>3, RequestWithout
    <2>3. received \in [Clients -> Seq(TorrentBlock)]
      BY <1>3, <2>2
    <2> SUFFICES ASSUME NEW o \in Clients
                 PROVE  /\ ToSet(incoming[o]) \ {w} \subseteq ToSet(received[o])
                        /\ Len(received[o]) <= Len(incoming[o])
                        /\ incoming[o] = <<>> => received[o] = <<>>
      BY <2>3
    <2> HIDE DEF received, w
    <2>4. CASE received[o] = incoming[o]
      BY <1>3, <2>4
    <2>5. CASE received[o] = Without(incoming[o], w)
      BY <2>2, <2>5, RequestWithout
    <2> QED
      BY <2>1, <2>4, <2>5
  <1>5. \A o \in Clients : Len(received[o]) \in Nat
    <2>1. \A o \in Clients : received[o] \in Seq(TorrentBlock)
      BY <1>4
    <2> HIDE DEF received
    <2> QED
      BY <2>1
  <1>6. /\ cancels \in [Clients -> Seq(TorrentBlock)]
        /\ \A o \in Clients : /\ ToSet(received[o]) \ {w} \subseteq ToSet(cancels[o])
                              /\ Len(cancels[o]) <= Len(received[o])
                              /\ received[o] = <<>> => cancels[o] = <<>>
    <2>1. \A o \in Clients : cancels[o] \in {received[o], Without(received[o], w)}
      OBVIOUS
    <2>2. \A o \in Clients : /\ received[o] \in Seq(TorrentBlock)
                             /\ Without(received[o], w) \in Seq(TorrentBlock)
      BY <1>4, RequestWithout
    <2>3. cancels \in [Clients -> Seq(TorrentBlock)]
      BY <2>2
    <2> SUFFICES ASSUME NEW o \in Clients
                 PROVE  /\ ToSet(received[o]) \ {w} \subseteq ToSet(cancels[o])
                        /\ Len(cancels[o]) <= Len(received[o])
                        /\ received[o] = <<>> => cancels[o] = <<>>
      BY <2>3
    <2> HIDE DEF received, cancels, w
    <2>4. CASE cancels[o] = received[o]
      BY <1>5, <2>4
    <2>5. CASE cancels[o] = Without(received[o], w)
      BY <2>2, <2>5, RequestWithout
    <2> QED
      BY <2>1, <2>4, <2>5
  <1>7. \A o \in Clients : Len(cancels[o]) \in Nat
    <2>1. \A o \in Clients : cancels[o] \in Seq(TorrentBlock)
      BY <1>6
    <2> HIDE DEF cancels
    <2> QED
      BY <2>1
  <1> HIDE DEF received, cancels
  <1>8. CASE /\ ~Needed
             /\ requestMore(c, state, payloads[c], inProgress, completedBlocks,
                            requestedBlocks, received)
             /\ UNCHANGED <<state, completedBlocks, corrupt, overrun, verifying, payloads>>
    <2>1. payloads[c] \in Seq(Pieces) /\ Len(received[c]) <= Quota(state)
      BY <1>3, <1>4, <1>5, QuotaIsNumber
    <2>2. /\ schedulerCalled' \in BOOLEAN
          /\ More(c, state, completedBlocks, ToSet(payloads[c]), requestedBlocks, received,
                  requestedBlocks', incoming')
      BY <1>3, <1>4, <1>8, <2>1, MoreRequested, Zenon DEF requestMore
    <2> QED
      <3>1. UNCHANGED <<state, completedBlocks, corrupt, overrun, verifying, payloads, pendingPieces,
                        inProgress, lists, conns, verification, fileError, toSchedule,
                        connectingToClients>>
        BY <1>1, <1>8
      <3>2. ~(p \in pendingPieces /\ b \in BlocksLeft(p))
        BY <1>8
      <3>3. Fewer(received, incoming, <<p, b>>)
        BY <1>4 DEF Fewer
      <3> QED
        BY <1>1, <2>2, <3>1, <3>2, <3>3, UnneededKeeps DEF BlocksLeft
  <1>9. CASE /\ Needed
             /\ state' = next /\ completedBlocks' = done /\ payloads' = left
             /\ corrupt' \subseteq TorrentBlock /\ overrun' \subseteq Pieces
             /\ verifying' = IF full THEN [verifying EXCEPT ![p] = @ + 1] ELSE verifying
             /\ requestMore(c, next, left[c], inProgress, done, marks, cancels)
    <2>1. next \in {state, "Downloading"}
      OBVIOUS
    <2>2. Quota(state) <= Quota(next)
      <3>1. CASE next = state
        BY <3>1, QuotaIsNumber
      <3>2. CASE next = "Downloading"
        BY <3>2, QuotaGrows DEF Multi
      <3> QED
        BY <2>1, <3>1, <3>2
    <2>3. left \in [Clients -> Seq(Pieces)]
      BY <1>3, WithoutPieceMembers
    <2>4. /\ marks \in [Pieces -> SUBSET Nat] /\ marks[p] = requestedBlocks[p] \ {b}
          /\ \A q \in Pieces \ {p} : marks[q] = requestedBlocks[q]
      BY <1>3
    <2>5. \A q \in Pieces : marks[q] \subseteq BlocksOf[q]
      BY <1>3, <2>4
    <2>6. full \in BOOLEAN /\ (full <=> completedBlocks'[p] = BlocksOf[p])
      BY <1>9
    <2>7. /\ state' = next /\ completedBlocks' = done /\ payloads' = left
          /\ verifying' = IF full THEN [verifying EXCEPT ![p] = @ + 1] ELSE verifying
          /\ payloads' = IF full THEN WithoutPiece(payloads, p) ELSE payloads
          /\ completedBlocks' = [completedBlocks EXCEPT ![p] = @ \cup {b}]
          /\ requestMore(c, next, left[c], inProgress, done, marks, cancels)
      BY <1>9
    <2> HIDE DEF next, left, marks, done, full
    <2>8. left[c] \in Seq(Pieces) /\ Len(cancels[c]) <= Quota(next)
      <3>1. Quota(state) \in Nat /\ Quota(next) \in Nat
        BY QuotaIsNumber
      <3> QED
        BY <1>3, <1>4, <1>5, <1>6, <1>7, <2>2, <2>3, <3>1
    <2>9. /\ schedulerCalled' \in BOOLEAN
          /\ More(c, next, done, ToSet(left[c]), marks, cancels, requestedBlocks', incoming')
      BY <1>3, <1>6, <2>4, <2>5, <2>7, <2>8, MoreRequested, Zenon DEF requestMore
    <2>10. More(c, state', completedBlocks', ToSet(payloads'[c]), marks, cancels,
                requestedBlocks', incoming')
      BY <2>7, <2>9
    <2>11. Fewer(cancels, incoming, <<p, b>>)
      BY <1>3, <1>4, <1>5, <1>6, <1>7 DEF Fewer
    <2>12. /\ p \in pendingPieces /\ b \in BlocksLeft(p) /\ state' \in {state, "Downloading"}
           /\ corrupt' \subseteq TorrentBlock /\ overrun' \subseteq Pieces
      BY <1>9, <2>1, <2>7
    <2> QED
      BY <1>1, <2>4, <2>6, <2>7, <2>9, <2>10, <2>11, <2>12, NeededKeeps DEF BlocksLeft
  <1> QED
    BY <1>2, <1>8, <1>9

(* Every step keeps the invariant.                                         *)
LEMMA WorkNext == WorkInv /\ DownloadInv /\ [Next]_vars => WorkInv'
  <1> SUFFICES ASSUME WorkInv, DownloadInv, [Next]_vars PROVE WorkInv'
    OBVIOUS
  <1>1. TypeOK
    BY DEF WorkInv
  <1>2. ASSUME NEW found \in SUBSET Pieces, NEW l \in BOOLEAN, FullVerificationDone(found, l)
        PROVE  WorkInv'
    BY <1>2, VerificationKeeps
  <1>3. CASE Start
    BY <1>3, StartKeeps
  <1>4. CASE UNCHANGED vars
    <2> USE DEF vars, piece, lists, conns, files
    <2>1. TypeOK'
      BY <1>1, <1>4 DEF TypeOK
    <2>2. Connected' = Connected
      BY <1>4 DEF Connected
    <2>3. (PiecesPartitioned /\ NoDanglingPiece /\ InProgressIsOwned /\ RequestedIsAwaited
             /\ FullPiecesAreVerified)'
      BY <1>4, <2>2, QuietKeeps
    <2>4. QuotaRespected' /\ BookInv'
      BY <1>4, <2>2, QuotaKept DEF WorkInv, BookInv
    <2> QED
      BY <2>1, <2>3, <2>4 DEF WorkInv
  <1>5. CASE Stop
    BY <1>5, AbortKeeps
  <1>6. CASE HandleFileError
    <2>1. CASE state # "Paused"
      BY <1>6, <2>1, AbortKeeps
    <2>2. CASE state = "Paused"
      <3>1. /\ UNCHANGED <<state, piece, conns, payloads, incoming, connectingToClients, lists,
                           verification, verifying, corrupt, overrun, schedulerCalled, toSchedule>>
            /\ fileError' = TRUE
        BY <1>6, <2>2 DEF HandleFileError
      <3> USE DEF piece, lists, conns
      <3>2. TypeOK'
        BY <1>1, <3>1 DEF TypeOK
      <3>3. Connected' = Connected
        BY <3>1 DEF Connected
      <3>4. (PiecesPartitioned /\ NoDanglingPiece /\ InProgressIsOwned /\ RequestedIsAwaited
               /\ FullPiecesAreVerified)'
        BY <3>1, <3>3, QuietKeeps
      <3>5. QuotaRespected' /\ BookInv'
        BY <3>1, <3>3, QuotaKept DEF WorkInv, BookInv
      <3> QED
        BY <3>2, <3>4, <3>5 DEF WorkInv
    <2> QED
      BY <2>1, <2>2
  <1>7. ASSUME NEW new \in SUBSET {c \in Clients : Fresh(c)},
               ConnectorTimer(new) \/ AddToPeerList(new)
        PROVE  WorkInv'
    BY <1>7, ConnectingKeeps
  <1>8. ASSUME NEW c \in Clients, SetupOutgoingConnection(c) \/ SetupIncomingConnection(c)
        PROVE  WorkInv'
    BY <1>8, SetupKeeps
  <1>9. ASSUME NEW c \in Clients, Disconnect(c) PROVE WorkInv'
    BY <1>9, RemoveKeeps DEF Disconnect, EventLoop
  <1>10. ASSUME NEW c \in Clients, PeerChoked(c) PROVE WorkInv'
    BY <1>10, ChokeKeeps
  <1>11. ASSUME NEW c \in Clients, PeerUnchoked(c) PROVE WorkInv'
    <2>1. /\ UNCHANGED <<state, piece, lists, payloads, incoming, files, connections, sockets,
                         toSchedule, connectingToClients>>
          /\ UNCHANGED <<interestedIn, availablePieces>>
          /\ chokedBy' = chokedBy \ {c}
      BY <1>11 DEF PeerUnchoked
    <2>2. schedulerCalled' \in BOOLEAN
      BY <1>1, <1>11 DEF PeerUnchoked, TypeOK
    <2>3. /\ chokedBy' \subseteq Clients /\ interestedIn' \subseteq Clients
          /\ availablePieces' \in [Clients -> SUBSET Pieces]
      BY <1>1, <2>1 DEF TypeOK
    <2> QED
      BY <2>1, <2>2, <2>3, MessageKeeps
  <1>12. ASSUME NEW c \in Clients, NEW new \in SUBSET Pieces, PeerPiecesAvailable(c, new)
         PROVE  WorkInv'
    <2>1. /\ c \in Connected /\ toSchedule = {}
          /\ UNCHANGED <<state, pendingPieces, completedBlocks, lists, files, toSchedule>>
      BY <1>12 DEF PeerPiecesAvailable, EventLoop
    <2>2. CASE RemoveClient(c) /\ UNCHANGED schedulerCalled
      BY <2>1, <2>2, RemoveKeeps DEF Connected
    <2>3. CASE /\ availablePieces' = [availablePieces EXCEPT ![c] = @ \cup new]
               /\ interestedIn' \in {interestedIn \cup {c}, interestedIn \ {c}}
               /\ schedulerCalled' \in BOOLEAN
               /\ UNCHANGED <<inProgress, requestedBlocks, payloads, connections, sockets,
                              chokedBy, incoming, connectingToClients>>
      <3>1. /\ chokedBy' \subseteq Clients /\ interestedIn' \subseteq Clients
            /\ availablePieces' \in [Clients -> SUBSET Pieces]
        BY <1>1, <2>3 DEF TypeOK
      <3> QED
        BY <2>1, <2>3, <3>1, MessageKeeps DEF piece
    <2>4. schedulerCalled \in {TRUE, FALSE}
      BY <1>1 DEF TypeOK
    <2> QED
      BY <1>12, <2>2, <2>3, <2>4 DEF PeerPiecesAvailable
  <1>13. ASSUME NEW p \in Pieces, PieceRejected(p) \/ PieceAccepted(p) PROVE WorkInv'
    BY <1>13, RejectedKeeps, AcceptedKeeps
  <1>14. CASE ScheduleDownloads
    BY <1>14, ScheduleCallKeeps
  <1>15. \A new \in {{p} : p \in Pieces} \cup {Pieces} : new \in SUBSET Pieces
    OBVIOUS
  <1> QED
    BY <1>2, <1>3, <1>4, <1>5, <1>6, <1>7, <1>8, <1>9, <1>10, <1>11, <1>12, <1>13, <1>14, <1>15,
       BlockKeeps, VisitKeeps DEF Next

(* The invariant holds, and with it each of its parts.                     *)
LEMMA WorkKept == Spec => []WorkInv
  BY WorkInit, WorkNext, InitHolds, NextHolds, PTL DEF Spec

(* Every variable stays in its set; the requests of a connection, which    *)
(* requestMore computes, stay lists of blocks that exist.                  *)
THEOREM TypeCorrect == Spec => []TypeOK
  <1>1. WorkInv => TypeOK
    BY DEF WorkInv
  <1> QED
    BY <1>1, WorkKept, PTL

(* A piece is complete or not, only begun incomplete pieces are in         *)
(* progress, and what is not begun has no marks: a TorrentPiece that       *)
(* pieceVerified deletes leaves nothing behind.                            *)
THEOREM BookkeepingAgrees == Spec => []PiecesPartitioned
  <1>1. WorkInv => PiecesPartitioned
    BY DEF WorkInv
  <1> QED
    BY <1>1, WorkKept, PTL

(* No payload points to a deleted TorrentPiece, and only connections of    *)
(* the list that are set up have one.                                      *)
THEOREM NothingDangles == Spec => []NoDanglingPiece
  <1>1. WorkInv => NoDanglingPiece
    BY DEF WorkInv
  <1> QED
    BY <1>1, WorkKept, PTL

(* No peer is asked for more blocks than the mode allows, though           *)
(* requestMore compares with the limit for equality only and warm-up       *)
(* begins with a smaller one.                                              *)
THEOREM QuotaIsKept == Spec => []QuotaRespected
  <1>1. WorkInv => QuotaRespected
    BY DEF WorkInv
  <1> QED
    BY <1>1, WorkKept, PTL

(* Every marked block is awaited from a connection that has its piece.     *)
THEOREM MarksAreAwaited == Spec => []RequestedIsAwaited
  <1>1. WorkInv => RequestedIsAwaited
    BY DEF WorkInv
  <1> QED
    BY <1>1, WorkKept, PTL

(* Every piece in progress has a connection that works on it, or is being  *)
(* verified.                                                               *)
THEOREM ProgressIsOwned == Spec => []InProgressIsOwned
  <1>1. WorkInv => InProgressIsOwned
    BY DEF WorkInv
  <1> QED
    BY <1>1, WorkKept, PTL

(* A begun piece that has blocks, and all of them, is being verified.      *)
THEOREM FullIsVerified == Spec => []FullPiecesAreVerified
  <1>1. WorkInv => FullPiecesAreVerified
    BY DEF WorkInv
  <1> QED
    BY <1>1, WorkKept, PTL

(* So the empty last piece is the only full one that may wait: in a file   *)
(* of any other size every full piece is being verified.                   *)
THEOREM OnlyTheEmptyPieceWaits ==
    ASSUME TotalLength % PieceLength # 0
    PROVE  Spec => []EveryFullPieceIsVerified
  <1>1. \A p \in Pieces : BlocksOf[p] # {}
    BY PieceHasBlocks
  <1>2. WorkInv => EveryFullPieceIsVerified
    BY <1>1 DEF WorkInv, TypeOK, FullPiecesAreVerified, EveryFullPieceIsVerified
  <1> QED
    BY <1>2, WorkKept, PTL
=============================================================================
