--------------------------- MODULE FileStoreProofs ---------------------------
(***************************************************************************)
(* What the file store promises its caller, for every number of pieces,    *)
(* blocks and requests.                                                    *)
(***************************************************************************)
EXTENDS FileStore, TLAPS

StoreOK ==
    /\ file \in [Pieces -> [Blocks -> Contents]]
    /\ complete \subseteq Pieces
    /\ asked \subseteq Request /\ answered \subseteq Answer

(* Nothing is asked before the first verification has ended.               *)
NothingBeforeReady == ~ready => complete = {} /\ asked = {} /\ answered = {}

(* Reads are of complete pieces, the verifications of others.              *)
OfItsKind ==
    \A r \in UnderWay : r.kind = "read" => r.pieceIndex \in complete

StoreInv == StoreOK /\ NothingBeforeReady /\ OfItsKind /\ Trustworthy

-----------------------------------------------------------------------------
LEMMA InitTrust == Init => StoreInv
  BY DEF Init, StoreInv, StoreOK, NothingBeforeReady, OfItsKind, Trustworthy, UnderWay, Kept,
         Contents

(* A request is to verify a piece or to read from one.                     *)
LEMMA Requests ==
    ASSUME NEW r \in Request
    PROVE  r.pieceIndex \in Pieces /\ r.kind \in {"verify", "read"}
  BY DEF Request, Verification, ReadOf

LEMMA ReadySafe == StoreInv /\ Ready => StoreInv'
  <1> SUFFICES ASSUME StoreInv, Ready PROVE StoreInv'
    OBVIOUS
  <1>1. file' = file /\ asked' = {} /\ answered' = {} /\ ready'
        /\ complete' \subseteq {p \in Pieces : Good(p)}
    BY DEF Ready, StoreInv, NothingBeforeReady
  <1> QED
    BY <1>1 DEF StoreInv, StoreOK, NothingBeforeReady, OfItsKind, Trustworthy, UnderWay, Kept,
                Good

(* A write reaches neither a complete piece nor one under verification.    *)
LEMMA WriteSafe ==
    ASSUME StoreInv, NEW p \in Pieces, NEW b \in Blocks, NEW d \in {"good", "bad"}, Write(p, b, d)
    PROVE  StoreInv'
  <1>1. /\ ready /\ p \notin complete /\ ~Verifying(p)
        /\ file' = [file EXCEPT ![p][b] = d]
        /\ ready' = ready /\ complete' = complete /\ asked' = asked /\ answered' = answered
    BY DEF Write
  <1>2. StoreOK'
    BY <1>1 DEF StoreInv, StoreOK, Contents
  <1>3. NothingBeforeReady' /\ OfItsKind'
    BY <1>1 DEF StoreInv, NothingBeforeReady, OfItsKind, UnderWay
  <1>4. p \notin Kept
    <2> SUFFICES ASSUME NEW a \in answered, a.request.pieceIndex = p PROVE FALSE
      BY <1>1 DEF Kept
    <2>1. a.request \in Request /\ a.request \in UnderWay
      BY DEF StoreInv, StoreOK, Answer, UnderWay
    <2>2. a.request.kind = "verify"
      BY <1>1, <2>1, Requests DEF StoreInv, OfItsKind
    <2> QED
      BY <1>1, <2>1, <2>2 DEF Verifying
  <1>5. Kept' = Kept /\ Kept \subseteq Pieces
    BY <1>1, Requests DEF Kept, StoreInv, StoreOK, Answer
  <1>6. \A q \in Kept : file'[q] = file[q]
    BY <1>1, <1>4, <1>5 DEF StoreInv, StoreOK
  <1>7. Trustworthy'
    BY <1>1, <1>5, <1>6 DEF StoreInv, Trustworthy, Good
  <1> QED
    BY <1>2, <1>3, <1>7 DEF StoreInv

LEMMA AskSafe ==
    ASSUME StoreInv, NEW r \in Request, Ask(r)
    PROVE  StoreInv'
  <1>1. /\ r \notin UnderWay /\ (r.kind = "read" => r.pieceIndex \in complete)
        /\ (r.kind = "verify" => ready) /\ asked' = asked \cup {r}
        /\ file' = file /\ ready' = ready /\ complete' = complete /\ answered' = answered
    BY DEF Ask
  <1>2. ready
    BY <1>1, Requests DEF StoreInv, NothingBeforeReady
  <1>3. StoreOK' /\ NothingBeforeReady' /\ OfItsKind'
    BY <1>1, <1>2 DEF StoreInv, StoreOK, NothingBeforeReady, OfItsKind, UnderWay
  <1>4. Trustworthy'
    BY <1>1 DEF StoreInv, Trustworthy, Kept, Good, UnderWay
  <1> QED
    BY <1>3, <1>4 DEF StoreInv

LEMMA ReplySafe ==
    ASSUME StoreInv, NEW r \in Request, NEW good \in BOOLEAN, Reply(r, good)
    PROVE  StoreInv'
  <1> DEFINE answer == [request |-> r, good |-> good]
  <1>1. /\ answer \in Answer /\ answer.request = r /\ (answer.good => Good(r.pieceIndex))
        /\ r \in asked /\ asked' = asked \ {r} /\ answered' = answered \cup {answer}
        /\ file' = file /\ ready' = ready /\ complete' = complete
    BY DEF Reply, Answer
  <1> HIDE DEF answer
  <1>2. StoreOK' /\ NothingBeforeReady'
    BY <1>1 DEF StoreInv, StoreOK, NothingBeforeReady
  <1>3. OfItsKind'
    BY <1>1 DEF StoreInv, OfItsKind, UnderWay
  <1>4. Trustworthy'
    BY <1>1 DEF StoreInv, Trustworthy, Kept, Good
  <1> QED
    BY <1>2, <1>3, <1>4 DEF StoreInv

LEMMA DeliverSafe ==
    ASSUME StoreInv, NEW a \in answered, Deliver(a)
    PROVE  StoreInv'
  <1>1. /\ answered' = answered \ {a} /\ file' = file /\ ready' = ready /\ asked' = asked
        /\ complete' = IF a.good THEN complete \cup {a.request.pieceIndex} ELSE complete
    BY DEF Deliver
  <1>2. a.request.pieceIndex \in Pieces /\ ready
    BY Requests DEF StoreInv, StoreOK, NothingBeforeReady, Answer
  <1>3. StoreOK' /\ NothingBeforeReady' /\ OfItsKind'
    BY <1>1, <1>2 DEF StoreInv, StoreOK, NothingBeforeReady, OfItsKind, UnderWay
  <1>4. Trustworthy'
    BY <1>1 DEF StoreInv, Trustworthy, Kept, Good
  <1> QED
    BY <1>3, <1>4 DEF StoreInv

LEMMA FaultSafe == StoreInv /\ Fault => StoreInv'
  <1> SUFFICES ASSUME StoreInv, Fault PROVE StoreInv'
    OBVIOUS
  <1>1. /\ \A p \in Kept : file'[p] = file[p]
        /\ file' \in [Pieces -> [Blocks -> Contents]]
        /\ ready' = ready /\ complete' = complete /\ asked' = asked /\ answered' = answered
    BY DEF Fault
  <1> QED
    BY <1>1 DEF StoreInv, StoreOK, NothingBeforeReady, OfItsKind, UnderWay, Trustworthy, Kept,
                Good

LEMMA StepTrust == StoreInv /\ [Next]_vars => StoreInv'
  <1> SUFFICES ASSUME StoreInv, [Next]_vars PROVE StoreInv'
    OBVIOUS
  <1>1. CASE Create
    BY <1>1 DEF Create, StoreInv, StoreOK, NothingBeforeReady, OfItsKind, UnderWay, Trustworthy,
                Kept, Good, Contents
  <1>2. CASE UNCHANGED vars
    BY <1>2 DEF vars, StoreInv, StoreOK, NothingBeforeReady, OfItsKind, UnderWay, Trustworthy,
                Kept, Good
  <1> QED
    BY <1>1, <1>2, ReadySafe, WriteSafe, AskSafe, ReplySafe, DeliverSafe, FaultSafe DEF Next

(* What the caller was told stays true: a piece it counts as complete is   *)
(* intact, whatever fails, and no request is answered while it is asked.   *)
THEOREM StoreIsTrustworthy == Spec => []Trustworthy
  <1>1. StoreInv => Trustworthy
    BY DEF StoreInv
  <1> QED
    BY <1>1, InitTrust, StepTrust, PTL DEF Spec
=============================================================================
