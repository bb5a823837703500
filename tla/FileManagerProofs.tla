------------------------- MODULE FileManagerProofs -------------------------
(***************************************************************************)
(* Theorems about the file manager, for every number of pieces and blocks  *)
(* and every bound on reads and failing file operations.                   *)
(***************************************************************************)
EXTENDS FileManager, SequenceTheorems, FiniteSetTheorems, TLAPS

-----------------------------------------------------------------------------
(* Sequences and events.                                                   *)

(* A queue and its tail: what is left are members that were there, and the *)
(* head is the only one that may be gone.                                  *)
LEMMA TailMembers ==
    ASSUME NEW S, NEW s \in Seq(S), s # <<>>
    PROVE  /\ Head(s) \in S /\ Tail(s) \in Seq(S)
           /\ Head(s) \in ToSet(s)
           /\ ToSet(Tail(s)) \subseteq ToSet(s)
           /\ \A x \in ToSet(s) : x = Head(s) \/ x \in ToSet(Tail(s))
  <1>1. Len(s) \in Nat \ {0} /\ Head(s) = s[1] /\ Len(Tail(s)) = Len(s) - 1
    OBVIOUS
  <1>2. \A i \in 1 .. Len(s) - 1 : Tail(s)[i] = s[i + 1]
    OBVIOUS
  <1>3. DOMAIN s = 1 .. Len(s) /\ DOMAIN Tail(s) = 1 .. Len(s) - 1
    BY <1>1
  <1>4. ToSet(Tail(s)) \subseteq ToSet(s)
    BY <1>1, <1>2, <1>3 DEF ToSet
  <1>5. ASSUME NEW x \in ToSet(s), x # Head(s)
        PROVE  x \in ToSet(Tail(s))
    <2>1. PICK i \in 1 .. Len(s) : x = s[i]
      BY <1>3 DEF ToSet
    <2>2. i - 1 \in 1 .. Len(s) - 1 /\ Tail(s)[i - 1] = x
      BY <1>1, <1>2, <1>5, <2>1
    <2> QED
      BY <1>3, <2>2 DEF ToSet
  <1> QED
    BY <1>1, <1>3, <1>4, <1>5 DEF ToSet

(* What is in a queue after an element, or another queue, is appended.     *)
LEMMA AppendMembers ==
    ASSUME NEW S, NEW s \in Seq(S), NEW x \in S
    PROVE  Append(s, x) \in Seq(S) /\ ToSet(Append(s, x)) = ToSet(s) \cup {x}
  <1>1. /\ Append(s, x) \in Seq(S) /\ Len(Append(s, x)) = Len(s) + 1
        /\ Append(s, x)[Len(s) + 1] = x
        /\ \A i \in 1 .. Len(s) : Append(s, x)[i] = s[i]
        /\ Len(s) \in Nat
    OBVIOUS
  <1>2. DOMAIN s = 1 .. Len(s) /\ DOMAIN Append(s, x) = 1 .. Len(s) + 1
    BY <1>1
  <1>3. ToSet(Append(s, x)) \subseteq ToSet(s) \cup {x}
    BY <1>1, <1>2 DEF ToSet
  <1>4. ToSet(s) \cup {x} \subseteq ToSet(Append(s, x))
    BY <1>1, <1>2 DEF ToSet
  <1> QED
    BY <1>1, <1>3, <1>4

LEMMA PairMembers ==
    ASSUME NEW S, NEW s \in Seq(S), NEW x \in S, NEW y \in S
    PROVE  s \o <<x, y>> \in Seq(S) /\ ToSet(s \o <<x, y>>) = ToSet(s) \cup {x, y}
  <1>1. s \o <<x, y>> = Append(Append(s, x), y)
    BY AppendProperties
  <1>2. Append(s, x) \in Seq(S) /\ ToSet(Append(s, x)) = ToSet(s) \cup {x}
    BY AppendMembers
  <1>3. \A t \in Seq(S) : Append(t, y) \in Seq(S) /\ ToSet(Append(t, y)) = ToSet(t) \cup {y}
    BY AppendMembers
  <1>4. ToSet(s) \cup {x} \cup {y} = ToSet(s) \cup {x, y}
    OBVIOUS
  <1> QED
    BY <1>1, <1>2, <1>3, <1>4

(* What the constructors of events build, and what the handlers take out.  *)
LEMMA EventTypes ==
    /\ WakeUpCall \in Event /\ ErrorEvent \in Event /\ VerificationDone \in Event
    /\ \A p \in Pieces, v \in BOOLEAN : PieceVerified(p, v) \in Event
    /\ \A r \in ReadRequest, v \in BOOLEAN : DataRead(r, v) \in Event
    /\ \A e \in Event : e.kind = "pieceVerified" => /\ e.pieceIndex \in Pieces
                                                    /\ e.verified \in BOOLEAN
    /\ \A e \in Event : e.kind = "dataRead" => e.request \in ReadRequest
  <1>1. WakeUpCall \in Event /\ ErrorEvent \in Event /\ VerificationDone \in Event
    BY DEF Event
  <1>2. \A p \in Pieces, v \in BOOLEAN : PieceVerified(p, v) \in Event
    BY DEF Event
  <1>3. \A r \in ReadRequest, v \in BOOLEAN : DataRead(r, v) \in Event
    BY DEF Event
  <1>4. ASSUME NEW e \in Event
        PROVE  \/ e.kind \in {"wakeUp", "error", "verificationDone"}
               \/ /\ e.kind = "pieceVerified" /\ e.pieceIndex \in Pieces
                  /\ e.verified \in BOOLEAN
               \/ e.kind = "dataRead" /\ e.request \in ReadRequest
    <2>1. CASE e \in {WakeUpCall, ErrorEvent, VerificationDone}
      BY <2>1 DEF WakeUpCall, ErrorEvent, VerificationDone
    <2>2. ASSUME NEW p \in Pieces, NEW v \in BOOLEAN, e = PieceVerified(p, v)
          PROVE  e.kind = "pieceVerified" /\ e.pieceIndex \in Pieces /\ e.verified \in BOOLEAN
      BY <2>2 DEF PieceVerified
    <2>3. ASSUME NEW r \in ReadRequest, NEW v \in BOOLEAN, e = DataRead(r, v)
          PROVE  e.kind = "dataRead" /\ e.request \in ReadRequest
      BY <2>3 DEF DataRead
    <2> QED
      BY <2>1, <2>2, <2>3 DEF Event
  <1> QED
    BY <1>1, <1>2, <1>3, <1>4

LEMMA RequestTypes ==
    /\ \A i \in ReadIds, p \in Pieces : [id |-> i, pieceIndex |-> p] \in ReadRequest
    /\ \A p \in Pieces, b \in Blocks, d \in {"good", "bad"} :
           [pieceIndex |-> p, offset |-> b, data |-> d] \in WriteRequest
    /\ \A r \in ReadRequest : r.id \in ReadIds /\ r.pieceIndex \in Pieces
    /\ \A w \in WriteRequest : /\ w.pieceIndex \in Pieces /\ w.offset \in Blocks
                               /\ w.data \in {"good", "bad"}
  BY DEF ReadRequest, WriteRequest

(* A block of one piece is changed, or a piece as a whole.                 *)
LEMMA ContentTypes ==
    ASSUME NEW f \in [Pieces -> [Blocks -> Data]], NEW p \in Pieces, NEW d \in Data
    PROVE  /\ [f EXCEPT ![p] = Uniform(d)] \in [Pieces -> [Blocks -> Data]]
           /\ [q \in Pieces |-> Uniform(d)] \in [Pieces -> [Blocks -> Data]]
           /\ \A b \in Blocks : [f EXCEPT ![p][b] = d] \in [Pieces -> [Blocks -> Data]]
  BY DEF Uniform

-----------------------------------------------------------------------------
(* Types.                                                                  *)

LEMMA InitTyped == Init => TypeOK
  <1> SUFFICES ASSUME Init PROVE TypeOK
    OBVIOUS
  <1>1. disk \in [Pieces -> [Blocks -> Data]] /\ content \in [Pieces -> [Blocks -> Data]]
    BY DEF Init, Uniform, Data
  <1>2. readId \in 0 .. MaxReads /\ ioErrors \in 0 .. MaxIoErrors
    BY FMAssumption DEF Init
  <1>3. \A S : <<>> \in Seq(S)
    OBVIOUS
  <1>4. /\ readRequests \in Seq(ReadRequest) /\ newReadRequests \in Seq(ReadRequest)
        /\ writeRequests \in Seq(WriteRequest) /\ newWriteRequests \in Seq(WriteRequest)
        /\ pendingVerificationRequests \in Seq(Pieces)
        /\ newPendingVerificationRequests \in Seq(Pieces)
        /\ events \in Seq(Event)
    BY <1>3 DEF Init
  <1> QED
    BY <1>1, <1>2, <1>4 DEF Init, TypeOK

(* A step of the GUI thread.                                               *)
LEMMA GuiTyped ==
    TypeOK /\ (Caller \/ Dispatch \/ SetQuit \/ SignalQuit \/ JoinWorker) => TypeOK'
  <1> SUFFICES ASSUME TypeOK, Caller \/ Dispatch \/ SetQuit \/ SignalQuit \/ JoinWorker
               PROVE  TypeOK'
    OBVIOUS
  <1> USE DEF TypeOK, shared, worker, caller
  <1>1. CASE StartDataVerification
    BY <1>1 DEF StartDataVerification, WakeOne
  <1>2. ASSUME PostWakeUp PROVE wokeUp' \in BOOLEAN /\ events' \in Seq(Event)
    BY <1>2, EventTypes, AppendMembers DEF PostWakeUp
  <1>3. ASSUME NEW p \in Pieces, Read(p) PROVE TypeOK'
    <2>1. readId \in ReadIds /\ readId + 1 \in 0 .. MaxReads
      BY <1>3, FMAssumption DEF Read, ReadIds
    <2>2. readRequests' \in Seq(ReadRequest)
      BY <1>3, <2>1, RequestTypes, AppendMembers DEF Read
    <2> QED
      BY <1>2, <1>3, <2>1, <2>2 DEF Read
  <1>4. ASSUME NEW p \in Pieces, NEW b \in Blocks, NEW d \in {"good", "bad"}, Write(p, b, d)
        PROVE  TypeOK'
    <2>1. writeRequests' \in Seq(WriteRequest)
      BY <1>4, RequestTypes, AppendMembers DEF Write
    <2>2. content' \in [Pieces -> [Blocks -> Data]]
      BY <1>4, ContentTypes DEF Write, Data
    <2> QED
      BY <1>2, <1>4, <2>1, <2>2 DEF Write
  <1>5. ASSUME NEW p \in Pieces, VerifyPiece(p) PROVE TypeOK'
    <2>1. pendingVerificationRequests' \in Seq(Pieces)
      BY <1>5, AppendMembers DEF VerifyPiece
    <2> QED
      BY <1>2, <1>5, <2>1 DEF VerifyPiece
  <1>6. CASE Dispatch
    <2> DEFINE e == Head(events)
    <2>1. e \in Event /\ events' \in Seq(Event)
      BY <1>6, TailMembers DEF Dispatch
    <2>2. CASE e.kind = "wakeUp" /\ WakeUp
      BY <1>6, <2>1, <2>2 DEF Dispatch, WakeUp, WakeOne
    <2>3. CASE e.kind = "verificationDone" /\ OnVerificationDone
      BY <1>6, <2>1, <2>3 DEF Dispatch, OnVerificationDone
    <2>4. CASE e.kind = "pieceVerified" /\ OnPieceVerified(e)
      <3>1. e.pieceIndex \in Pieces /\ e.verified \in BOOLEAN
        BY <2>1, <2>4, EventTypes
      <3>2. completed' \subseteq Pieces /\ verifying' \subseteq Pieces
        BY <2>4, <3>1 DEF OnPieceVerified
      <3>3. content' \in [Pieces -> [Blocks -> Data]]
        <4>1. [content EXCEPT ![e.pieceIndex] = Uniform("none")] \in [Pieces -> [Blocks -> Data]]
          BY <3>1, ContentTypes DEF Data
        <4> QED
          BY <2>4, <3>1, <4>1 DEF OnPieceVerified
      <3> QED
        BY <1>6, <2>1, <2>4, <3>2, <3>3 DEF Dispatch, OnPieceVerified
    <2>5. CASE e.kind = "dataRead" /\ OnDataRead(e)
      BY <1>6, <2>1, <2>5 DEF Dispatch, OnDataRead
    <2>6. CASE e.kind = "error" /\ OnError
      BY <1>6, <2>1, <2>6 DEF Dispatch, OnError
    <2> QED
      BY <1>6, <2>2, <2>3, <2>4, <2>5, <2>6 DEF Dispatch
  <1>7. CASE SetQuit
    BY <1>7 DEF SetQuit
  <1>8. CASE SignalQuit
    BY <1>8 DEF SignalQuit, WakeOne
  <1>9. CASE JoinWorker
    BY <1>9 DEF JoinWorker
  <1> QED
    BY <1>1, <1>3, <1>4, <1>5, <1>6, <1>7, <1>8, <1>9 DEF Caller

(* A step of the worker thread.                                            *)
LEMMA WorkerTyped == TypeOK /\ Worker => TypeOK'
  <1> SUFFICES ASSUME TypeOK, Worker PROVE TypeOK'
    OBVIOUS
  <1> USE DEF TypeOK, shared, worker, caller
  <1>a. Fails => ioErrors + 1 \in 0 .. MaxIoErrors
    BY FMAssumption DEF Fails
  <1>b. Append(events, ErrorEvent) \in Seq(Event) /\ <<>> \in Seq(Event)
    BY EventTypes, AppendMembers
  <1>1. CASE GenerateFiles
    BY <1>1, <1>a, <1>b, ContentTypes, FMAssumption DEF GenerateFiles, Data, Pieces
  <1>2. CASE Check
    BY <1>2 DEF Check
  <1>3. CASE Wait
    BY <1>3 DEF Wait
  <1>4. CASE TakeReads
    BY <1>4 DEF TakeReads
  <1>5. CASE ReadBlock
    <2> DEFINE r == Head(newReadRequests)
    <2>1. r \in ReadRequest /\ newReadRequests' \in Seq(ReadRequest)
      BY <1>5, TailMembers DEF ReadBlock
    <2>2. \A v \in BOOLEAN : Append(events, DataRead(r, v)) \in Seq(Event)
      BY <2>1, EventTypes, AppendMembers
    <2>3. events \o <<ErrorEvent, DataRead(r, FALSE)>> \in Seq(Event)
      BY <2>1, EventTypes, PairMembers
    <2>4. (~quit /\ Intact(r.pieceIndex)) \in BOOLEAN
      BY DEF Intact
    <2>5. events' \in Seq(Event)
      BY <1>5, <2>2, <2>3, <2>4 DEF ReadBlock
    <2>6. ioErrors' \in 0 .. MaxIoErrors
      BY <1>5, <1>a DEF ReadBlock
    <2> QED
      BY <1>5, <2>1, <2>5, <2>6 DEF ReadBlock
  <1>6. CASE TakeWrites
    BY <1>6 DEF TakeWrites
  <1>7. ASSUME WriteHead
        PROVE  /\ newWriteRequests' \in Seq(WriteRequest) /\ events' \in Seq(Event)
               /\ disk' \in [Pieces -> [Blocks -> Data]] /\ ioErrors' \in 0 .. MaxIoErrors
    <2> DEFINE w == Head(newWriteRequests)
    <2>1. w \in WriteRequest /\ newWriteRequests' \in Seq(WriteRequest)
      BY <1>7, TailMembers DEF WriteHead
    <2>2. w.pieceIndex \in Pieces /\ w.offset \in Blocks /\ w.data \in Data
      BY <2>1, RequestTypes DEF Data
    <2>3. Written(w) \in [Pieces -> [Blocks -> Data]]
      BY <2>2, ContentTypes DEF Written
    <2> QED
      BY <1>7, <1>a, <1>b, <2>1, <2>3 DEF WriteHead
  <1>8. CASE WriteBlock
    BY <1>7, <1>8 DEF WriteBlock
  <1>9. CASE EndWrites
    BY <1>9 DEF EndWrites
  <1>10. CASE SkipVerification
    BY <1>10 DEF SkipVerification
  <1>11. CASE TakeVerifications
    BY <1>11 DEF TakeVerifications
  <1>12. CASE VerifyAll
    <2>1. PICK unreadable \in SUBSET Pieces :
            /\ ioErrors + Cardinality(unreadable) <= MaxIoErrors
            /\ ioErrors' = ioErrors + Cardinality(unreadable)
            /\ verifiedPieces' \subseteq Pieces
            /\ events' = (IF unreadable = {} THEN events ELSE Append(events, ErrorEvent))
                            \o <<VerificationDone>>
      BY <1>12 DEF VerifyAll
    <2>2. IsFiniteSet(unreadable)
      <3>1. IsFiniteSet(Pieces)
        BY FMAssumption, FS_Interval DEF Pieces
      <3> QED
        BY <3>1, FS_Subset
    <2>3. ioErrors' \in 0 .. MaxIoErrors
      BY <2>1, <2>2, FS_CardinalityType, FMAssumption
    <2>4. events' \in Seq(Event)
      BY <1>b, <2>1, EventTypes
    <2> QED
      BY <1>12, <2>1, <2>3, <2>4 DEF VerifyAll
  <1>13. CASE VerifySinglePiece
    <2> DEFINE p == Head(newPendingVerificationRequests)
               good == ~quit /\ Intact(p)
    <2>1. p \in Pieces /\ newPendingVerificationRequests' \in Seq(Pieces)
      BY <1>13, TailMembers DEF VerifySinglePiece
    <2>2. \A v \in BOOLEAN : Append(events, PieceVerified(p, v)) \in Seq(Event)
      BY <2>1, EventTypes, AppendMembers
    <2>3. events \o <<ErrorEvent, PieceVerified(p, FALSE)>> \in Seq(Event)
      BY <2>1, EventTypes, PairMembers
    <2>4. good \in BOOLEAN
      BY DEF Intact
    <2>5. events' \in Seq(Event)
      BY <1>13, <2>2, <2>3, <2>4 DEF VerifySinglePiece
    <2>6. ioErrors' \in 0 .. MaxIoErrors /\ verifiedPieces' \subseteq Pieces
      BY <1>13, <1>a, <2>1 DEF VerifySinglePiece
    <2> QED
      BY <1>13, <2>1, <2>5, <2>6 DEF VerifySinglePiece
  <1>14. CASE EndVerification
    BY <1>14 DEF EndVerification
  <1>15. CASE Loop
    BY <1>15 DEF Loop
  <1>16. CASE LeaveLoop
    BY <1>16 DEF LeaveLoop
  <1>17. CASE Flush
    BY <1>7, <1>17 DEF Flush
  <1>18. CASE EndThread
    BY <1>18 DEF EndThread
  <1> QED
    BY <1>1, <1>2, <1>3, <1>4, <1>5, <1>6, <1>8, <1>9, <1>10, <1>11, <1>12, <1>13,
       <1>14, <1>15, <1>16, <1>17, <1>18 DEF Worker

(* Type correctness, for every size of the file and every bound.           *)
THEOREM TypeCorrect == Spec => []TypeOK
  <1>1. TypeOK /\ UNCHANGED vars => TypeOK'
    BY DEF TypeOK, vars, shared, worker, caller
  <1>2. TypeOK /\ [Next]_vars => TypeOK'
    BY <1>1, GuiTyped, WorkerTyped DEF Next
  <1> QED
    BY <1>2, InitTyped, PTL DEF Spec

-----------------------------------------------------------------------------
(* Queues in which an element, or one of a few, stands at most once.       *)

AtMostOnce(s, A) ==
    \A i, j \in DOMAIN s : s[i] \in A /\ s[j] \in A => i = j

LEMMA OnceAppended ==
    ASSUME NEW S, NEW A, NEW s \in Seq(S), NEW x \in S,
           AtMostOnce(s, A), x \in A => ToSet(s) \cap A = {}
    PROVE  AtMostOnce(Append(s, x), A)
  <1>1. /\ Len(Append(s, x)) = Len(s) + 1 /\ Len(s) \in Nat
        /\ Append(s, x)[Len(s) + 1] = x
        /\ \A i \in 1 .. Len(s) : Append(s, x)[i] = s[i]
    OBVIOUS
  <1>2. DOMAIN s = 1 .. Len(s) /\ DOMAIN Append(s, x) = 1 .. Len(s) + 1
    BY <1>1
  <1>3. x \in A => \A i \in 1 .. Len(s) : s[i] \notin A
    BY <1>2 DEF ToSet
  <1> QED
    BY <1>1, <1>2, <1>3 DEF AtMostOnce

LEMMA OnceTail ==
    ASSUME NEW S, NEW A, NEW s \in Seq(S), s # <<>>, AtMostOnce(s, A)
    PROVE  /\ AtMostOnce(Tail(s), A)
           /\ Head(s) \in A => ToSet(Tail(s)) \cap A = {}
  <1>1. Len(s) \in Nat \ {0} /\ Head(s) = s[1] /\ Len(Tail(s)) = Len(s) - 1
    OBVIOUS
  <1>2. \A i \in 1 .. Len(s) - 1 : Tail(s)[i] = s[i + 1]
    OBVIOUS
  <1>3. DOMAIN s = 1 .. Len(s) /\ DOMAIN Tail(s) = 1 .. Len(s) - 1
    BY <1>1
  <1>4. AtMostOnce(Tail(s), A)
    BY <1>1, <1>2, <1>3 DEF AtMostOnce
  <1>5. Head(s) \in A => \A i \in 1 .. Len(s) - 1 : Tail(s)[i] \notin A
    BY <1>1, <1>2, <1>3 DEF AtMostOnce
  <1> QED
    BY <1>3, <1>4, <1>5 DEF ToSet

-----------------------------------------------------------------------------
(* No wake-up is lost.  The invariant is inductive once at most one call   *)
(* of wakeUp is in the queue: taking the call out then leaves none.        *)

WakeUpInv == /\ TypeOK
             /\ NoLostWakeUp
             /\ AtMostOnce(events, {WakeUpCall})

(* Events of another kind that are appended do not disturb it.             *)
LEMMA OtherEvents ==
    ASSUME NEW s \in Seq(Event), NEW e \in Event, e # WakeUpCall,
           AtMostOnce(s, {WakeUpCall})
    PROVE  /\ AtMostOnce(Append(s, e), {WakeUpCall}) /\ Append(s, e) \in Seq(Event)
           /\ WakeUpCall \in ToSet(Append(s, e)) <=> WakeUpCall \in ToSet(s)
  <1>1. AtMostOnce(Append(s, e), {WakeUpCall})
    BY OnceAppended
  <1>2. Append(s, e) \in Seq(Event) /\ ToSet(Append(s, e)) = ToSet(s) \cup {e}
    BY AppendMembers
  <1> QED
    BY <1>1, <1>2

LEMMA EventsDiffer ==
    /\ ErrorEvent # WakeUpCall /\ VerificationDone # WakeUpCall
    /\ \A p, v : PieceVerified(p, v) # WakeUpCall
    /\ \A r, v : DataRead(r, v) # WakeUpCall
    /\ \A e \in Event : e.kind = "wakeUp" <=> e = WakeUpCall
    /\ \A p, v : PieceVerified(p, v) # ErrorEvent /\ PieceVerified(p, v) # VerificationDone
    /\ \A p, v, r, w : PieceVerified(p, v) # DataRead(r, w)
    /\ \A p, v, q, w : PieceVerified(p, v) = PieceVerified(q, w) => p = q /\ v = w
    /\ \A e \in Event : e.kind = "pieceVerified" => e = PieceVerified(e.pieceIndex, e.verified)
    /\ \A r, v : VerificationDone # DataRead(r, v)
    /\ VerificationDone # ErrorEvent
  <1>1. \A p, v : PieceVerified(p, v).kind = "pieceVerified"
    BY DEF PieceVerified
  <1>2. \A r, v : DataRead(r, v).kind = "dataRead"
    BY DEF DataRead
  <1>3. /\ WakeUpCall.kind = "wakeUp" /\ ErrorEvent.kind = "error"
        /\ VerificationDone.kind = "verificationDone"
    BY DEF WakeUpCall, ErrorEvent, VerificationDone
  <1>4. \A p, v : PieceVerified(p, v).pieceIndex = p /\ PieceVerified(p, v).verified = v
    BY DEF PieceVerified
  <1>5. ASSUME NEW e \in Event
        PROVE  /\ e.kind = "wakeUp" <=> e = WakeUpCall
               /\ e.kind = "pieceVerified" => e = PieceVerified(e.pieceIndex, e.verified)
    <2>1. CASE e \in {WakeUpCall, ErrorEvent, VerificationDone}
      BY <1>3, <2>1
    <2>2. ASSUME NEW p \in Pieces, NEW v \in BOOLEAN, e = PieceVerified(p, v)
          PROVE  e.kind = "pieceVerified" /\ e # WakeUpCall
                 /\ e = PieceVerified(e.pieceIndex, e.verified)
      BY <1>1, <1>3, <1>4, <2>2
    <2>3. ASSUME NEW r \in ReadRequest, NEW v \in BOOLEAN, e = DataRead(r, v)
          PROVE  e.kind = "dataRead" /\ e # WakeUpCall
      BY <1>2, <1>3, <2>3
    <2> QED
      BY <1>3, <2>1, <2>2, <2>3 DEF Event
  <1> QED
    BY <1>1, <1>2, <1>3, <1>4, <1>5

LEMMA PairAppended ==
    ASSUME NEW S, NEW s \in Seq(S), NEW x \in S, NEW y \in S
    PROVE  /\ s \o <<x, y>> = Append(Append(s, x), y)
           /\ s \o <<x>> = Append(s, x)
  BY AppendProperties

(* What the worker appends to the GUI thread's queue is never that call.   *)
LEMMA WorkerEvents ==
    ASSUME TypeOK, AtMostOnce(events, {WakeUpCall}), Worker
    PROVE  /\ AtMostOnce(events', {WakeUpCall}) /\ wokeUp' = wokeUp
           /\ WakeUpCall \in ToSet(events') <=> WakeUpCall \in ToSet(events)
  <1> DEFINE Kept == /\ AtMostOnce(events', {WakeUpCall}) /\ wokeUp' = wokeUp
                     /\ WakeUpCall \in ToSet(events') <=> WakeUpCall \in ToSet(events)
  <1> USE DEF shared, worker, caller
  <1>0. /\ events \in Seq(Event)
        /\ ErrorEvent \in Event /\ VerificationDone \in Event
    BY EventTypes DEF TypeOK
  <1>1. events' = events /\ wokeUp' = wokeUp => Kept
    OBVIOUS
  <1>2. ASSUME NEW e \in Event, e # WakeUpCall, events' = Append(events, e), wokeUp' = wokeUp
        PROVE  Kept
    BY <1>0, <1>2, OtherEvents
  <1>3. ASSUME NEW e \in Event, e # WakeUpCall, wokeUp' = wokeUp,
               events' = events \o <<ErrorEvent, e>>
        PROVE  Kept
    <2>1. /\ AtMostOnce(Append(events, ErrorEvent), {WakeUpCall})
          /\ Append(events, ErrorEvent) \in Seq(Event)
          /\ WakeUpCall \in ToSet(Append(events, ErrorEvent)) <=> WakeUpCall \in ToSet(events)
      BY <1>0, EventsDiffer, OtherEvents
    <2>2. \A s \in Seq(Event) :
              AtMostOnce(s, {WakeUpCall}) =>
                  /\ AtMostOnce(Append(s, e), {WakeUpCall})
                  /\ WakeUpCall \in ToSet(Append(s, e)) <=> WakeUpCall \in ToSet(s)
      BY <1>3, OtherEvents
    <2>3. events' = Append(Append(events, ErrorEvent), e)
      BY <1>0, <1>3, PairAppended
    <2> QED
      BY <1>3, <2>1, <2>2, <2>3
  <1>4. CASE ReadBlock
    <2> DEFINE r == Head(newReadRequests)
    <2>1. r \in ReadRequest
      BY <1>4, TailMembers DEF ReadBlock, TypeOK
    <2>2. \A v \in BOOLEAN : DataRead(r, v) \in Event /\ DataRead(r, v) # WakeUpCall
      BY <2>1, EventTypes, EventsDiffer
    <2>3. (~quit /\ Intact(r.pieceIndex)) \in BOOLEAN
      BY DEF Intact, TypeOK
    <2> QED
      BY <1>2, <1>3, <1>4, <2>2, <2>3 DEF ReadBlock
  <1>5. CASE VerifySinglePiece
    <2> DEFINE p == Head(newPendingVerificationRequests)
               good == ~quit /\ Intact(p)
    <2>1. p \in Pieces
      BY <1>5, TailMembers DEF VerifySinglePiece, TypeOK
    <2>2. \A v \in BOOLEAN : PieceVerified(p, v) \in Event /\ PieceVerified(p, v) # WakeUpCall
      BY <2>1, EventTypes, EventsDiffer
    <2>3. good \in BOOLEAN
      BY DEF Intact, TypeOK
    <2> QED
      BY <1>2, <1>3, <1>5, <2>2, <2>3 DEF VerifySinglePiece
  <1>6. CASE VerifyAll
    <2>1. \/ events' = events \o <<VerificationDone>>
          \/ events' = Append(events, ErrorEvent) \o <<VerificationDone>>
      BY <1>6 DEF VerifyAll
    <2>2. /\ events \o <<VerificationDone>> = Append(events, VerificationDone)
          /\ events \o <<ErrorEvent, VerificationDone>>
               = Append(events, ErrorEvent) \o <<VerificationDone>>
      BY <1>0
    <2> QED
      BY <1>0, <1>2, <1>3, <1>6, <2>1, <2>2, EventsDiffer DEF VerifyAll
  <1>7. CASE GenerateFiles
    BY <1>0, <1>1, <1>2, <1>7, EventsDiffer DEF GenerateFiles
  <1>8. CASE WriteBlock \/ Flush
    BY <1>0, <1>1, <1>2, <1>8, EventsDiffer DEF WriteBlock, Flush, WriteHead
  <1>9. CASE \/ Check \/ Wait \/ TakeReads \/ TakeWrites \/ EndWrites \/ SkipVerification
             \/ TakeVerifications \/ EndVerification \/ Loop \/ LeaveLoop \/ EndThread
    BY <1>1, <1>9 DEF Check, Wait, TakeReads, TakeWrites, EndWrites, SkipVerification,
                     TakeVerifications, EndVerification, Loop, LeaveLoop, EndThread
  <1> QED
    BY <1>4, <1>5, <1>6, <1>7, <1>8, <1>9 DEF Worker

(* The worker goes to sleep only when it has just seen that there is       *)
(* nothing to do, and the mutex it holds keeps the queues as they are.     *)
LEMMA WorkerWakeUp == WakeUpInv /\ Worker => WakeUpInv'
  <1> SUFFICES ASSUME WakeUpInv, Worker PROVE WakeUpInv'
    OBVIOUS
  <1> USE DEF WakeUpInv, NoLostWakeUp, Running, NothingToDo, shared, worker, caller
  <1>1. TypeOK'
    BY WorkerTyped
  <1>2. /\ AtMostOnce(events', {WakeUpCall}) /\ wokeUp' = wokeUp
        /\ WakeUpCall \in ToSet(events') <=> WakeUpCall \in ToSet(events)
    BY WorkerEvents
  <1>3. pc' \in {"wait", "asleep"} => Check \/ Wait
    BY DEF TypeOK, Worker, GenerateFiles, TakeReads, ReadBlock, TakeWrites, WriteBlock, EndWrites,
           SkipVerification, TakeVerifications, VerifyAll, VerifySinglePiece,
           EndVerification, Loop, LeaveLoop, Flush, EndThread
  <1>4. CASE Check
    BY <1>1, <1>2, <1>4 DEF Check
  <1>5. CASE Wait
    BY <1>1, <1>2, <1>5 DEF Wait
  <1> QED
    BY <1>1, <1>2, <1>3, <1>4, <1>5

LEMMA GuiWakeUp ==
    WakeUpInv /\ (Caller \/ Dispatch \/ SetQuit \/ SignalQuit \/ JoinWorker) => WakeUpInv'
  <1> SUFFICES ASSUME WakeUpInv, Caller \/ Dispatch \/ SetQuit \/ SignalQuit \/ JoinWorker
               PROVE  WakeUpInv'
    OBVIOUS
  <1> USE DEF WakeUpInv, NoLostWakeUp, Running, NothingToDo, shared, worker, caller
  <1>1. TypeOK'
    BY GuiTyped
  <1>2. ASSUME PostWakeUp
        PROVE  /\ wokeUp' /\ WakeUpCall \in ToSet(events')
               /\ AtMostOnce(events', {WakeUpCall})
    <2>1. CASE wokeUp
      BY <1>2, <2>1 DEF PostWakeUp
    <2>2. CASE ~wokeUp
      <3>1. events \in Seq(Event) /\ WakeUpCall \in Event /\ events' = Append(events, WakeUpCall)
        BY <1>2, <2>2, EventTypes DEF PostWakeUp, TypeOK
      <3>2. AtMostOnce(events', {WakeUpCall})
        BY <2>2, <3>1, OnceAppended
      <3>3. WakeUpCall \in ToSet(events')
        BY <3>1, AppendMembers
      <3> QED
        BY <1>2, <3>2, <3>3 DEF PostWakeUp
    <2> QED
      BY <2>1, <2>2
  <1>3. CASE StartDataVerification
    BY <1>1, <1>3 DEF StartDataVerification, WakeOne, MutexFree
  <1>4. ASSUME NEW p \in Pieces, Read(p) \/ VerifyPiece(p) PROVE WakeUpInv'
    BY <1>1, <1>2, <1>4 DEF Read, VerifyPiece
  <1>5. ASSUME NEW p \in Pieces, NEW b \in Blocks, NEW d \in {"good", "bad"}, Write(p, b, d)
        PROVE  WakeUpInv'
    BY <1>1, <1>2, <1>5 DEF Write
  <1>6. CASE Dispatch
    <2> DEFINE e == Head(events)
    <2>1. /\ e \in Event /\ events' = Tail(events)
          /\ AtMostOnce(events', {WakeUpCall})
          /\ e = WakeUpCall => WakeUpCall \notin ToSet(events')
          /\ e # WakeUpCall => (WakeUpCall \in ToSet(events') <=> WakeUpCall \in ToSet(events))
      <3>1. events \in Seq(Event) /\ events # <<>> /\ events' = Tail(events)
        BY <1>6 DEF Dispatch, TypeOK
      <3>2. /\ e \in Event /\ ToSet(events') \subseteq ToSet(events)
            /\ \A x \in ToSet(events) : x = e \/ x \in ToSet(events')
        BY <3>1, TailMembers
      <3>3. /\ AtMostOnce(events', {WakeUpCall})
            /\ e \in {WakeUpCall} => ToSet(events') \cap {WakeUpCall} = {}
        BY <3>1, OnceTail
      <3> QED
        BY <3>1, <3>2, <3>3
    <2>2. CASE e.kind = "wakeUp" /\ WakeUp
      <3>1. e = WakeUpCall
        BY <2>1, <2>2, EventsDiffer
      <3> QED
        BY <1>1, <1>6, <2>1, <2>2, <3>1 DEF Dispatch, WakeUp, WakeOne, MutexFree, TypeOK
    <2>3. CASE e.kind # "wakeUp" /\ wokeUp' = wokeUp /\ pc' = pc
      <3>1. e # WakeUpCall
        BY <2>1, <2>3, EventsDiffer
      <3> QED
        BY <1>1, <1>6, <2>1, <2>3, <3>1 DEF Dispatch
    <2> QED
      BY <1>6, <2>2, <2>3 DEF Dispatch, OnVerificationDone, OnPieceVerified, OnDataRead, OnError
  <1>7. CASE SetQuit
    BY <1>1, <1>7 DEF SetQuit
  <1>8. CASE SignalQuit
    BY <1>1, <1>8 DEF SignalQuit
  <1>9. CASE JoinWorker
    BY <1>1, <1>9 DEF JoinWorker
  <1> QED
    BY <1>3, <1>4, <1>5, <1>6, <1>7, <1>8, <1>9 DEF Caller

(* While requests wait for a sleeping worker a wake-up is on its way.      *)
THEOREM WakeUpsKept == Spec => []NoLostWakeUp
  <1>1. Init => WakeUpInv
    BY InitTyped DEF Init, WakeUpInv, NoLostWakeUp, AtMostOnce, ToSet
  <1>2. WakeUpInv /\ UNCHANGED vars => WakeUpInv'
    BY DEF WakeUpInv, TypeOK, NoLostWakeUp, Running, NothingToDo, vars, shared, worker, caller
  <1>3. WakeUpInv /\ [Next]_vars => WakeUpInv'
    BY <1>2, GuiWakeUp, WorkerWakeUp DEF Next
  <1>4. WakeUpInv => NoLostWakeUp
    BY DEF WakeUpInv
  <1> QED
    BY <1>1, <1>3, <1>4, PTL DEF Spec

-----------------------------------------------------------------------------
(* What was verified stays on disk.  That no write can reach a verified    *)
(* piece depends on where every request and every verdict is; the parts    *)
(* below say so.                                                           *)

Verdicts(p) == {PieceVerified(p, TRUE), PieceVerified(p, FALSE)}
Named       == ToSet(pendingVerificationRequests) \cup ToSet(newPendingVerificationRequests)

(* Until the first verification has been reported the caller asks for      *)
(* nothing else; it is under way while no piece is named.                  *)
FirstInv ==
    /\ phase # "ready" =>
          /\ writeRequests = <<>> /\ newWriteRequests = <<>>
          /\ pendingVerificationRequests = <<>> /\ newPendingVerificationRequests = <<>>
          /\ completed = {} /\ verifying = {}
    /\ phase = "start" => ~startVerification /\ VerificationDone \notin ToSet(events)
    /\ startVerification /\ pendingVerificationRequests = <<>> /\ pc # "verifyNext" =>
          phase = "preparing" /\ VerificationDone \notin ToSet(events)

(* What the worker's place in its loop says about the lists.               *)
ListsInv ==
    /\ pc \in {"write", "verify", "verifyNext"} => writeRequests = <<>>
    /\ pc \notin {"write", "flush"} => newWriteRequests = <<>>
    /\ pc # "verifyNext" => newPendingVerificationRequests = <<>>
    /\ pc = "verifyNext" => pendingVerificationRequests = <<>>
    /\ pc = "generateFiles" => verifiedPieces = {}

(* A piece whose verification was asked for is named once, or its verdict  *)
(* is in the queue once; it is full, so the caller writes no block of it.  *)
VerdictsInv ==
    /\ \A p \in Pieces :
          /\ AtMostOnce(pendingVerificationRequests, {p})
          /\ AtMostOnce(newPendingVerificationRequests, {p})
          /\ AtMostOnce(events, Verdicts(p))
    /\ \A p \in Named : /\ p \in verifying \ verifiedPieces
                        /\ ToSet(events) \cap Verdicts(p) = {}
    /\ \A p \in Pieces : ToSet(events) \cap Verdicts(p) # {} => p \in verifying
    /\ \A p \in Pieces : PieceVerified(p, TRUE) \in ToSet(events) => p \in verifiedPieces
    /\ \A p \in Pieces : PieceVerified(p, FALSE) \in ToSet(events) => p \notin verifiedPieces
    /\ \A p \in verifying, b \in Blocks : content[p][b] # "none"

(* The caller knows of a verified piece, or the verdict is in its queue.   *)
KnownInv ==
    /\ completed \subseteq verifiedPieces
    /\ phase = "ready" => \A p \in verifiedPieces \ completed : PieceVerified(p, TRUE) \in ToSet(events)

DiskInv == TypeOK /\ FirstInv /\ ListsInv /\ VerdictsInv /\ KnownInv /\ VerifiedOnDisk

(* The verdicts in the GUI thread's queue are those that were there.       *)
VerdictsKept ==
    \A p \in Pieces :
        /\ AtMostOnce(events, Verdicts(p)) => AtMostOnce(events', Verdicts(p))
        /\ PieceVerified(p, TRUE) \in ToSet(events') <=> PieceVerified(p, TRUE) \in ToSet(events)
        /\ PieceVerified(p, FALSE) \in ToSet(events') <=> PieceVerified(p, FALSE) \in ToSet(events)

LEMMA OtherAppended ==
    ASSUME NEW s \in Seq(Event), NEW e \in Event, NEW p \in Pieces, e \notin Verdicts(p)
    PROVE  /\ AtMostOnce(s, Verdicts(p)) => AtMostOnce(Append(s, e), Verdicts(p))
           /\ PieceVerified(p, TRUE) \in ToSet(Append(s, e)) <=> PieceVerified(p, TRUE) \in ToSet(s)
           /\ PieceVerified(p, FALSE) \in ToSet(Append(s, e)) <=> PieceVerified(p, FALSE) \in ToSet(s)
  <1>1. AtMostOnce(s, Verdicts(p)) => AtMostOnce(Append(s, e), Verdicts(p))
    BY OnceAppended
  <1>2. Append(s, e) \in Seq(Event) /\ ToSet(Append(s, e)) = ToSet(s) \cup {e}
    BY AppendMembers
  <1>3. PieceVerified(p, TRUE) # e /\ PieceVerified(p, FALSE) # e
    BY DEF Verdicts
  <1> QED
    BY <1>1, <1>2, <1>3

(* Which events are no verdicts, and which one reports the first           *)
(* verification.                                                           *)
LEMMA NoVerdicts ==
    /\ \A p : {WakeUpCall, ErrorEvent, VerificationDone} \cap Verdicts(p) = {}
    /\ \A p, r, v : DataRead(r, v) \notin Verdicts(p)
    /\ \A p, q, v : p # q => PieceVerified(q, v) \notin Verdicts(p)
    /\ \A e \in Event : \A p : e.kind # "pieceVerified" => e \notin Verdicts(p)
    /\ \A e \in Event : e.kind = "verificationDone" => e = VerificationDone
  <1>1. \A p, v : PieceVerified(p, v).kind = "pieceVerified"
    BY DEF PieceVerified
  <1>2. \A r, v : DataRead(r, v).kind = "dataRead"
    BY DEF DataRead
  <1>3. /\ WakeUpCall.kind = "wakeUp" /\ ErrorEvent.kind = "error"
        /\ VerificationDone.kind = "verificationDone"
    BY DEF WakeUpCall, ErrorEvent, VerificationDone
  <1>4. ASSUME NEW e \in Event, e.kind = "verificationDone" PROVE e = VerificationDone
    <2>1. \A p \in Pieces, v \in BOOLEAN : e # PieceVerified(p, v)
      BY <1>1, <1>4
    <2>2. \A r \in ReadRequest, v \in BOOLEAN : e # DataRead(r, v)
      BY <1>2, <1>4
    <2>3. e # WakeUpCall /\ e # ErrorEvent
      BY <1>3, <1>4
    <2> QED
      BY <2>1, <2>2, <2>3 DEF Event
  <1>5. \A p, x : x \in Verdicts(p) => x.kind = "pieceVerified"
    BY <1>1 DEF Verdicts
  <1>6. \A p, q, v : p # q => PieceVerified(q, v) \notin Verdicts(p)
    BY EventsDiffer DEF Verdicts
  <1> QED
    BY <1>2, <1>3, <1>4, <1>5, <1>6

(* Posting the call of wakeUp, or emitting error(), keeps the verdicts.    *)
LEMMA NeutralEvents ==
    ASSUME TypeOK, NEW e \in Event, \A p \in Pieces : e \notin Verdicts(p), e # VerificationDone,
           events' \in {events, Append(events, e)}
    PROVE  /\ VerdictsKept
           /\ VerificationDone \in ToSet(events') => VerificationDone \in ToSet(events)
  <1>1. events \in Seq(Event)
    BY DEF TypeOK
  <1>2. CASE events' = events
    BY <1>2 DEF VerdictsKept
  <1>3. CASE events' = Append(events, e)
    <2>1. ToSet(events') = ToSet(events) \cup {e}
      BY <1>1, <1>3, AppendMembers
    <2>2. VerdictsKept
      BY <1>1, <1>3, OtherAppended DEF VerdictsKept
    <2> QED
      BY <2>1, <2>2
  <1> QED
    BY <1>2, <1>3

(* A step that leaves the file, the writes and the verdicts alone.         *)
LEMMA QuietStep ==
    ASSUME TypeOK, VerdictsInv, KnownInv, VerifiedOnDisk, VerdictsKept,
           UNCHANGED <<writeRequests, newWriteRequests, pendingVerificationRequests,
                       newPendingVerificationRequests, verifiedPieces, completed,
                       verifying, content, disk, phase>>
    PROVE  VerdictsInv' /\ KnownInv' /\ VerifiedOnDisk'
  <1>1. VerdictsInv'
    <2>1. Named' = Named
      BY DEF Named
    <2>2. \A p \in Pieces : ToSet(events') \cap Verdicts(p) = {} <=> ToSet(events) \cap Verdicts(p) = {}
      BY DEF VerdictsKept, Verdicts
    <2>3. \A p \in Named : p \in Pieces
      BY DEF VerdictsInv, TypeOK
    <2>4. \A p \in Pieces : /\ PieceVerified(p, TRUE) \in ToSet(events') <=> PieceVerified(p, TRUE) \in ToSet(events)
                            /\ PieceVerified(p, FALSE) \in ToSet(events') <=> PieceVerified(p, FALSE) \in ToSet(events)
      BY DEF VerdictsKept
    <2>5. \A p : Verdicts(p)' = Verdicts(p) /\ PieceVerified(p, TRUE)' = PieceVerified(p, TRUE)
                 /\ PieceVerified(p, FALSE)' = PieceVerified(p, FALSE)
      BY DEF Verdicts, PieceVerified
    <2> QED
      BY <2>1, <2>2, <2>3, <2>4, <2>5 DEF VerdictsInv, VerdictsKept
  <1>2. KnownInv'
    <2>1. verifiedPieces \subseteq Pieces
      BY DEF TypeOK
    <2> QED
      BY <2>1 DEF KnownInv, VerdictsKept, PieceVerified
  <1>3. VerifiedOnDisk'
    BY DEF VerifiedOnDisk, Writes, Intact
  <1> QED
    BY <1>1, <1>2, <1>3

LEMMA InitOnDisk == Init => DiskInv
  <1> SUFFICES ASSUME Init PROVE DiskInv
    OBVIOUS
  <1>1. ToSet(<<>>) = {} /\ \A A : AtMostOnce(<<>>, A)
    BY DEF ToSet, AtMostOnce
  <1>2. FirstInv
    BY <1>1 DEF Init, FirstInv
  <1>3. ListsInv
    BY DEF Init, ListsInv
  <1>4. VerdictsInv
    BY <1>1 DEF Init, VerdictsInv, Named
  <1>5. KnownInv /\ VerifiedOnDisk
    BY DEF Init, KnownInv, VerifiedOnDisk
  <1> QED
    BY InitTyped, <1>2, <1>3, <1>4, <1>5 DEF DiskInv

(* The caller's calls, and the destructor.                                 *)
LEMMA CallerOnDisk ==
    DiskInv /\ (Caller \/ SetQuit \/ SignalQuit \/ JoinWorker) => DiskInv'
  <1> SUFFICES ASSUME DiskInv, Caller \/ SetQuit \/ SignalQuit \/ JoinWorker PROVE DiskInv'
    OBVIOUS
  <1> USE DEF shared, worker, caller
  <1>1. TypeOK' /\ TypeOK /\ FirstInv /\ ListsInv /\ VerdictsInv /\ KnownInv /\ VerifiedOnDisk
    BY GuiTyped DEF DiskInv
  <1>2. events' = events => VerdictsKept
    BY DEF VerdictsKept
  <1>3. ASSUME PostWakeUp
        PROVE  VerdictsKept /\ (VerificationDone \in ToSet(events') => VerificationDone \in ToSet(events))
    <2>1. events' \in {events, Append(events, WakeUpCall)} /\ WakeUpCall \in Event
      BY <1>3, EventTypes DEF PostWakeUp
    <2>2. (\A p \in Pieces : WakeUpCall \notin Verdicts(p)) /\ WakeUpCall # VerificationDone
      BY NoVerdicts, EventsDiffer
    <2> QED
      BY <1>1, <2>1, <2>2, NeutralEvents
  <1>4. CASE StartDataVerification
    <2>1. VerdictsInv' /\ KnownInv' /\ VerifiedOnDisk'
      <3>1. /\ phase' # "ready" /\ phase # "ready"
            /\ UNCHANGED <<writeRequests, newWriteRequests, pendingVerificationRequests,
                           newPendingVerificationRequests, verifiedPieces, completed,
                           verifying, content, disk, events>>
        BY <1>4 DEF StartDataVerification
      <3> QED
        BY <1>1, <3>1 DEF VerdictsInv, Named, KnownInv, VerifiedOnDisk, Writes, Intact
    <2>2. FirstInv'
      BY <1>1, <1>4 DEF StartDataVerification, FirstInv
    <2>3. ListsInv'
      BY <1>1, <1>4 DEF StartDataVerification, ListsInv, WakeOne
    <2> QED
      BY <1>1, <2>1, <2>2, <2>3 DEF DiskInv
  <1>5. ASSUME NEW p \in Pieces, Read(p) PROVE DiskInv'
    <2>1. VerdictsInv' /\ KnownInv' /\ VerifiedOnDisk'
      BY <1>1, <1>3, <1>5, QuietStep DEF Read
    <2>2. FirstInv' /\ ListsInv'
      BY <1>1, <1>3, <1>5 DEF Read, FirstInv, ListsInv
    <2> QED
      BY <1>1, <2>1, <2>2 DEF DiskInv
  <1>6. ASSUME NEW p \in Pieces, NEW b \in Blocks, NEW d \in {"good", "bad"}, Write(p, b, d)
        PROVE  DiskInv'
    <2> DEFINE w == [pieceIndex |-> p, offset |-> b, data |-> d]
    <2>1. p \notin verifying
      BY <1>1, <1>6 DEF Write, VerdictsInv
    <2>2. p \notin verifiedPieces \cup completed
      <3>1. PieceVerified(p, TRUE) \notin ToSet(events)
        BY <1>1, <2>1 DEF VerdictsInv, Verdicts
      <3> QED
        BY <1>1, <1>6, <3>1 DEF Write, KnownInv
    <2>3. VerifiedOnDisk'
      <3>1. ToSet(writeRequests') = ToSet(writeRequests) \cup {w} /\ w.pieceIndex = p
        BY <1>1, <1>6, RequestTypes, AppendMembers DEF Write, TypeOK
      <3> QED
        BY <1>1, <1>6, <2>2, <3>1 DEF Write, VerifiedOnDisk, Writes, Intact
    <2>4. VerdictsInv'
      <3>1. \A q \in verifying, c \in Blocks : content'[q][c] # "none"
        BY <1>1, <1>6, <2>1 DEF Write, VerdictsInv, TypeOK
      <3>2. \A q \in Pieces : ToSet(events') \cap Verdicts(q) = {} <=> ToSet(events) \cap Verdicts(q) = {}
        BY <1>3, <1>6 DEF Write, VerdictsKept, Verdicts
      <3>3. Named' = Named /\ Named \subseteq Pieces
        BY <1>1, <1>6 DEF Write, Named, VerdictsInv, TypeOK
      <3>4. \A q : Verdicts(q)' = Verdicts(q) /\ PieceVerified(q, TRUE)' = PieceVerified(q, TRUE)
                   /\ PieceVerified(q, FALSE)' = PieceVerified(q, FALSE)
        BY DEF Verdicts, PieceVerified
      <3> QED
        BY <1>1, <1>3, <1>6, <3>1, <3>2, <3>3, <3>4 DEF Write, VerdictsInv, VerdictsKept
    <2>5. KnownInv'
      BY <1>1, <1>3, <1>6 DEF Write, KnownInv, VerdictsKept, PieceVerified, TypeOK
    <2>6. FirstInv' /\ ListsInv'
      BY <1>1, <1>3, <1>6 DEF Write, FirstInv, ListsInv, MutexFree
    <2> QED
      BY <1>1, <2>3, <2>4, <2>5, <2>6 DEF DiskInv
  <1>7. ASSUME NEW p \in Pieces, VerifyPiece(p) PROVE DiskInv'
    <2>1. ToSet(events) \cap Verdicts(p) = {} /\ p \notin Named
      BY <1>1, <1>7 DEF VerifyPiece, VerdictsInv
    <2>2. p \notin verifiedPieces
      BY <1>1, <1>7, <2>1 DEF VerifyPiece, KnownInv, Verdicts
    <2>3. \A q \in Pieces : ToSet(events') \cap Verdicts(q) = {} <=> ToSet(events) \cap Verdicts(q) = {}
      BY <1>3, <1>7 DEF VerifyPiece, VerdictsKept, Verdicts
    <2>4. /\ pendingVerificationRequests \in Seq(Pieces)
          /\ pendingVerificationRequests' = Append(pendingVerificationRequests, p)
          /\ newPendingVerificationRequests' = newPendingVerificationRequests
      BY <1>1, <1>7 DEF VerifyPiece, TypeOK
    <2>5. ToSet(pendingVerificationRequests') = ToSet(pendingVerificationRequests) \cup {p}
      BY <2>4, AppendMembers
    <2>6. Named' = Named \cup {p} /\ Named \subseteq Pieces
      BY <1>1, <2>4, <2>5 DEF Named, VerdictsInv, TypeOK
    <2>7. \A q \in Pieces : AtMostOnce(pendingVerificationRequests', {q})
      <3>1. \A q \in Pieces : AtMostOnce(pendingVerificationRequests, {q})
        BY <1>1 DEF VerdictsInv
      <3>2. p \notin ToSet(pendingVerificationRequests)
        BY <2>1 DEF Named
      <3>3. ASSUME NEW q \in Pieces PROVE p \in {q} => ToSet(pendingVerificationRequests) \cap {q} = {}
        BY <3>2
      <3> QED
        BY <2>4, <3>1, <3>3, OnceAppended
    <2>8. pendingVerificationRequests' # <<>>
      BY <2>4
    <2>9. VerdictsInv'
      <3>1. \A q : Verdicts(q)' = Verdicts(q) /\ PieceVerified(q, TRUE)' = PieceVerified(q, TRUE)
                   /\ PieceVerified(q, FALSE)' = PieceVerified(q, FALSE)
        BY DEF Verdicts, PieceVerified
      <3>2. verifying' = verifying \cup {p} /\ UNCHANGED <<verifiedPieces, content>>
            /\ \A b \in Blocks : content[p][b] # "none"
        BY <1>7 DEF VerifyPiece
      <3>3. \A q \in Pieces : AtMostOnce(events', Verdicts(q))
        BY <1>1, <1>3, <1>7 DEF VerifyPiece, VerdictsInv, VerdictsKept
      <3>4. \A q \in Named' : q \in verifying' \ verifiedPieces' /\ ToSet(events') \cap Verdicts(q) = {}
        BY <1>1, <2>1, <2>2, <2>3, <2>6, <3>2 DEF VerdictsInv
      <3> QED
        BY <1>1, <1>3, <1>7, <2>3, <2>4, <2>7, <3>1, <3>2, <3>3, <3>4
           DEF VerdictsInv, VerdictsKept, VerifyPiece
    <2>10. KnownInv'
      BY <1>1, <1>3, <1>7 DEF VerifyPiece, KnownInv, VerdictsKept, PieceVerified, TypeOK
    <2>11. FirstInv' /\ ListsInv'
      BY <1>1, <1>3, <1>7, <2>8 DEF VerifyPiece, FirstInv, ListsInv, MutexFree
    <2>12. VerifiedOnDisk'
      BY <1>1, <1>7 DEF VerifyPiece, VerifiedOnDisk, Writes, Intact
    <2> QED
      BY <1>1, <2>9, <2>10, <2>11, <2>12 DEF DiskInv
  <1>8. ASSUME SetQuit \/ SignalQuit \/ JoinWorker PROVE DiskInv'
    <2>1. /\ UNCHANGED <<writeRequests, newWriteRequests, pendingVerificationRequests,
                         newPendingVerificationRequests, verifiedPieces, completed,
                         verifying, content, disk, phase, startVerification, events>>
          /\ pc' = pc \/ (pc = "asleep" /\ pc' = "woken")
      BY <1>8 DEF SetQuit, SignalQuit, JoinWorker, WakeOne
    <2>2. VerdictsInv' /\ KnownInv' /\ VerifiedOnDisk'
      BY <1>1, <1>2, <2>1, QuietStep
    <2>3. FirstInv' /\ ListsInv'
      BY <1>1, <2>1 DEF FirstInv, ListsInv
    <2> QED
      BY <1>1, <2>2, <2>3 DEF DiskInv
  <1> QED
    BY <1>4, <1>5, <1>6, <1>7, <1>8 DEF Caller

(* What the GUI thread does with an event.                                 *)
LEMMA DispatchOnDisk == DiskInv /\ Dispatch => DiskInv'
  <1> SUFFICES ASSUME DiskInv, Dispatch PROVE DiskInv'
    OBVIOUS
  <1> DEFINE e == Head(events)
  <1> USE DEF shared, worker, caller
  <1>1. TypeOK' /\ TypeOK /\ FirstInv /\ ListsInv /\ VerdictsInv /\ KnownInv /\ VerifiedOnDisk
    BY GuiTyped DEF DiskInv
  <1>2. /\ events \in Seq(Event) /\ events # <<>> /\ events' = Tail(events)
        /\ UNCHANGED <<writeRequests, newWriteRequests, pendingVerificationRequests,
                       newPendingVerificationRequests, startVerification,
                       verifiedPieces, disk>>
    BY <1>1 DEF Dispatch, TypeOK
  <1>3. /\ e \in Event /\ e \in ToSet(events) /\ ToSet(events') \subseteq ToSet(events)
        /\ \A x \in ToSet(events) : x = e \/ x \in ToSet(events')
    BY <1>2, TailMembers
  <1>4. \A p \in Pieces : /\ AtMostOnce(events', Verdicts(p))
                          /\ e \in Verdicts(p) => ToSet(events') \cap Verdicts(p) = {}
    BY <1>1, <1>2, OnceTail DEF VerdictsInv
  <1>9. \A x : x # e => (x \in ToSet(events') <=> x \in ToSet(events))
    BY <1>3
  <1>10. \A p \in Pieces : AtMostOnce(events', Verdicts(p))
    BY <1>4
  <1>0. \/ e.kind = "wakeUp" /\ WakeUp
        \/ e.kind = "verificationDone" /\ OnVerificationDone
        \/ e.kind = "pieceVerified" /\ OnPieceVerified(e)
        \/ e.kind = "dataRead" /\ OnDataRead(e)
        \/ e.kind = "error" /\ OnError
    BY DEF Dispatch
  <1> HIDE DEF e
  <1>5. ASSUME e.kind # "pieceVerified" PROVE VerdictsKept
    <2>1. \A p \in Pieces : e \notin Verdicts(p)
      BY <1>3, <1>5, NoVerdicts
    <2>2. \A p \in Pieces : PieceVerified(p, TRUE) # e /\ PieceVerified(p, FALSE) # e
      BY <2>1 DEF Verdicts
    <2> QED
      BY <1>9, <1>10, <2>2 DEF VerdictsKept
  <1>6. CASE \/ e.kind = "wakeUp" /\ WakeUp
             \/ e.kind = "dataRead" /\ OnDataRead(e)
             \/ e.kind = "error" /\ OnError
    <2>1. /\ UNCHANGED <<phase, content, verifying, completed>>
          /\ pc' = pc \/ (pc = "asleep" /\ pc' = "woken")
      BY <1>6 DEF WakeUp, WakeOne, OnDataRead, OnError
    <2>2. VerdictsInv' /\ KnownInv' /\ VerifiedOnDisk'
      BY <1>1, <1>2, <1>5, <1>6, <2>1, QuietStep
    <2>3. FirstInv' /\ ListsInv'
      BY <1>1, <1>2, <1>3, <2>1 DEF FirstInv, ListsInv
    <2> QED
      BY <1>1, <2>2, <2>3 DEF DiskInv
  <1>7. CASE e.kind = "verificationDone" /\ OnVerificationDone
    <2>1. /\ UNCHANGED <<pc, content, verifying>>
          /\ phase' = "ready" /\ completed' = verifiedPieces
      BY <1>7 DEF OnVerificationDone
    <2>2. VerificationDone \in ToSet(events)
      BY <1>3, <1>7, NoVerdicts
    <2>3. FirstInv' /\ ListsInv'
      BY <1>1, <1>2, <2>1, <2>2 DEF FirstInv, ListsInv
    <2>4. KnownInv' /\ VerifiedOnDisk'
      BY <1>1, <1>2, <2>1 DEF KnownInv, VerifiedOnDisk, Writes, Intact
    <2>5. VerdictsInv'
      <3>1. Named' = Named /\ Named \subseteq Pieces
        BY <1>1, <1>2 DEF Named, VerdictsInv, TypeOK
      <3>2. \A q \in Pieces : ToSet(events') \cap Verdicts(q) = {} <=> ToSet(events) \cap Verdicts(q) = {}
        BY <1>5, <1>7 DEF VerdictsKept, Verdicts
      <3>3. \A q : Verdicts(q)' = Verdicts(q) /\ PieceVerified(q, TRUE)' = PieceVerified(q, TRUE)
                   /\ PieceVerified(q, FALSE)' = PieceVerified(q, FALSE)
        BY DEF Verdicts, PieceVerified
      <3> QED
        BY <1>1, <1>2, <1>4, <1>5, <1>7, <2>1, <3>1, <3>2, <3>3 DEF VerdictsInv, VerdictsKept
    <2> QED
      BY <1>1, <2>3, <2>4, <2>5 DEF DiskInv
  <1>8. CASE e.kind = "pieceVerified" /\ OnPieceVerified(e)
    <2> DEFINE p == e.pieceIndex
    <2>1. /\ p \in Pieces /\ e \in Verdicts(p)
          /\ \/ e.verified /\ e = PieceVerified(p, TRUE)
             \/ ~e.verified /\ e = PieceVerified(p, FALSE)
      <3>1. e = PieceVerified(p, e.verified) /\ p \in Pieces /\ e.verified \in BOOLEAN
        BY <1>3, <1>8, EventTypes, EventsDiffer
      <3>2. CASE e.verified = TRUE
        BY <3>1, <3>2 DEF Verdicts
      <3>3. CASE e.verified = FALSE
        BY <3>1, <3>3 DEF Verdicts
      <3> QED
        BY <3>1, <3>2, <3>3
    <2>2. /\ verifying' = verifying \ {p} /\ UNCHANGED <<phase, pc>>
          /\ e.verified => completed' = completed \cup {p} /\ content' = content
          /\ ~e.verified => completed' = completed /\ content' = [content EXCEPT ![p] = Uniform("none")]
      BY <1>8, <2>1 DEF OnPieceVerified
    <2>3. /\ ToSet(events') \cap Verdicts(p) = {} /\ p \in verifying /\ p \notin Named
          /\ e.verified <=> p \in verifiedPieces
      <3>0. e \in ToSet(events) \cap Verdicts(p)
        BY <1>3, <2>1
      <3>1. ToSet(events) \cap Verdicts(p) # {} /\ ToSet(events') \cap Verdicts(p) = {}
        BY <1>4, <2>1, <3>0
      <3>2. p \in verifying /\ p \notin Named
        BY <1>1, <2>1, <3>1 DEF VerdictsInv
      <3>3. /\ e = PieceVerified(p, TRUE) => p \in verifiedPieces
            /\ e = PieceVerified(p, FALSE) => p \notin verifiedPieces
        BY <1>1, <1>3, <2>1 DEF VerdictsInv
      <3> QED
        BY <2>1, <3>1, <3>2, <3>3
    <2>4. \A q \in Pieces \ {p} : PieceVerified(q, TRUE) \in ToSet(events) =>
                                   PieceVerified(q, TRUE) \in ToSet(events')
      <3>1. \A q \in Pieces \ {p} : PieceVerified(q, TRUE) # e
        BY <2>1, NoVerdicts
      <3> QED
        BY <1>9, <3>1
    <2>5. FirstInv' /\ ListsInv'
      BY <1>1, <1>2, <1>3, <2>2, <2>3 DEF FirstInv, ListsInv
    <2>6. KnownInv'
      <3>1. completed' \subseteq verifiedPieces
        BY <1>1, <2>2, <2>3 DEF KnownInv
      <3>2. phase = "ready" => \A q \in verifiedPieces \ completed' : PieceVerified(q, TRUE) \in ToSet(events')
        BY <1>1, <2>2, <2>3, <2>4 DEF KnownInv, TypeOK
      <3> QED
        BY <1>2, <2>2, <3>1, <3>2 DEF KnownInv, PieceVerified
    <2>7. VerifiedOnDisk'
      BY <1>1, <1>2, <2>2, <2>3 DEF VerifiedOnDisk, Writes, Intact
    <2>8. VerdictsInv'
      <3>1. Named' = Named /\ Named \subseteq Pieces
        BY <1>1, <1>2 DEF Named, VerdictsInv, TypeOK
      <3>2. \A q \in Pieces : ToSet(events') \cap Verdicts(q) # {} =>
                                q # p /\ ToSet(events) \cap Verdicts(q) # {}
        BY <1>3, <2>3
      <3>3. \A q : Verdicts(q)' = Verdicts(q) /\ PieceVerified(q, TRUE)' = PieceVerified(q, TRUE)
                   /\ PieceVerified(q, FALSE)' = PieceVerified(q, FALSE)
        BY DEF Verdicts, PieceVerified
      <3>4. \A q \in verifying', b \in Blocks : content'[q][b] # "none"
        BY <1>1, <2>1, <2>2 DEF VerdictsInv, TypeOK
      <3>5. \A q \in Named : q \in verifying' \ verifiedPieces /\ ToSet(events') \cap Verdicts(q) = {}
        BY <1>1, <2>2, <2>3, <3>1, <3>2 DEF VerdictsInv
      <3>6. \A q \in Pieces : ToSet(events') \cap Verdicts(q) # {} => q \in verifying'
        BY <1>1, <2>2, <3>2 DEF VerdictsInv
      <3>7. \A q \in Pieces : /\ PieceVerified(q, TRUE) \in ToSet(events') => q \in verifiedPieces
                              /\ PieceVerified(q, FALSE) \in ToSet(events') => q \notin verifiedPieces
        BY <1>1, <1>3 DEF VerdictsInv
      <3>8. \A q \in Pieces : /\ AtMostOnce(pendingVerificationRequests', {q})
                              /\ AtMostOnce(newPendingVerificationRequests', {q})
        BY <1>1, <1>2 DEF VerdictsInv
      <3> QED
        BY <1>2, <1>10, <3>1, <3>3, <3>4, <3>5, <3>6, <3>7, <3>8 DEF VerdictsInv
    <2> QED
      BY <1>1, <2>5, <2>6, <2>7, <2>8 DEF DiskInv
  <1> QED
    BY <1>0, <1>6, <1>7, <1>8

(* The worker's steps that move lists and program counter only.            *)
LEMMA WorkerListsOnDisk ==
    ASSUME DiskInv,
           \/ Check \/ Wait \/ TakeReads \/ TakeWrites \/ EndWrites \/ SkipVerification
           \/ EndVerification \/ Loop \/ LeaveLoop \/ EndThread
    PROVE  DiskInv'
  <1> USE DEF shared, worker, caller
  <1>1. TypeOK' /\ TypeOK /\ FirstInv /\ ListsInv /\ VerdictsInv /\ KnownInv /\ VerifiedOnDisk
    BY WorkerTyped DEF DiskInv, Worker
  <1>2. UNCHANGED <<events, pendingVerificationRequests, newPendingVerificationRequests,
                    verifiedPieces, completed, verifying, content, disk, phase>>
    BY DEF Check, Wait, TakeReads, TakeWrites, EndWrites, SkipVerification,
           EndVerification, Loop, LeaveLoop, EndThread
  <1>3. VerdictsInv' /\ KnownInv'
    BY <1>1, <1>2 DEF VerdictsInv, Named, KnownInv
  <1>4. VerifiedOnDisk'
    <2>1. ToSet(<<>>) = {}
      BY DEF ToSet
    <2>2. Writes' \subseteq Writes
      BY <2>1 DEF Writes, Check, Wait, TakeReads, TakeWrites, EndWrites, SkipVerification,
                  EndVerification, Loop, LeaveLoop, EndThread
    <2> QED
      BY <1>1, <1>2, <2>2 DEF VerifiedOnDisk, Intact
  <1>5. ListsInv'
    BY <1>1, <1>2 DEF ListsInv, Check, Wait, TakeReads, TakeWrites, EndWrites, SkipVerification,
           EndVerification, Loop, LeaveLoop, EndThread
  <1>6. FirstInv'
    BY <1>1, <1>2 DEF FirstInv, Check, Wait, TakeReads, TakeWrites, EndWrites, SkipVerification,
           EndVerification, Loop, LeaveLoop, EndThread
  <1> QED
    BY <1>1, <1>3, <1>4, <1>5, <1>6 DEF DiskInv

(* A block is written: it belongs to no verified piece.                    *)
LEMMA WriteOnDisk ==
    ASSUME DiskInv, WriteBlock \/ Flush
    PROVE  DiskInv'
  <1> DEFINE w == Head(newWriteRequests)
  <1> USE DEF shared, worker, caller
  <1>1. TypeOK' /\ TypeOK /\ FirstInv /\ ListsInv /\ VerdictsInv /\ KnownInv /\ VerifiedOnDisk
    BY WorkerTyped DEF DiskInv, Worker
  <1>2. /\ newWriteRequests # <<>> /\ newWriteRequests \in Seq(WriteRequest)
        /\ newWriteRequests' = Tail(newWriteRequests)
        /\ disk' \in {disk, Written(w)} /\ events' \in {events, Append(events, ErrorEvent)}
        /\ UNCHANGED <<writeRequests, pendingVerificationRequests, startVerification,
                       newPendingVerificationRequests, verifiedPieces, completed,
                       verifying, content, phase, pc>>
    BY <1>1 DEF WriteBlock, Flush, WriteHead, TypeOK
  <1>3. w \in Writes /\ Writes' \subseteq Writes
    BY <1>2, TailMembers DEF Writes
  <1>4. VerdictsKept /\ (VerificationDone \in ToSet(events') => VerificationDone \in ToSet(events))
    <2>1. ErrorEvent \in Event /\ (\A p \in Pieces : ErrorEvent \notin Verdicts(p))
          /\ ErrorEvent # VerificationDone
      BY EventTypes, NoVerdicts, EventsDiffer
    <2> QED
      BY <1>1, <1>2, <2>1, NeutralEvents
  <1>5. VerifiedOnDisk'
    <2>1. \A p \in verifiedPieces \cup completed : disk'[p] = disk[p]
      <3>1. \A p \in verifiedPieces \cup completed : p # w.pieceIndex /\ p \in Pieces
        BY <1>1, <1>3 DEF VerifiedOnDisk, TypeOK
      <3>2. disk \in [Pieces -> [Blocks -> Data]]
        BY <1>1 DEF TypeOK
      <3> QED
        BY <1>2, <3>1, <3>2 DEF Written
    <2> QED
      BY <1>1, <1>2, <1>3, <2>1 DEF VerifiedOnDisk, Intact
  <1>6. VerdictsInv' /\ KnownInv'
    <2>1. Named' = Named /\ Named \subseteq Pieces
      BY <1>1, <1>2 DEF Named, VerdictsInv, TypeOK
    <2>2. \A q \in Pieces : ToSet(events') \cap Verdicts(q) = {} <=> ToSet(events) \cap Verdicts(q) = {}
      BY <1>4 DEF VerdictsKept, Verdicts
    <2>3. \A q : Verdicts(q)' = Verdicts(q) /\ PieceVerified(q, TRUE)' = PieceVerified(q, TRUE)
                 /\ PieceVerified(q, FALSE)' = PieceVerified(q, FALSE)
      BY DEF Verdicts, PieceVerified
    <2>4. verifiedPieces \subseteq Pieces
      BY <1>1 DEF TypeOK
    <2>5. VerdictsInv'
      BY <1>1, <1>2, <1>4, <2>1, <2>2, <2>3 DEF VerdictsInv, VerdictsKept
    <2>6. KnownInv'
      BY <1>1, <1>2, <1>4, <2>3, <2>4 DEF KnownInv, VerdictsKept
    <2> QED
      BY <2>5, <2>6
  <1>7. ListsInv' /\ FirstInv'
    BY <1>1, <1>2, <1>4 DEF ListsInv, FirstInv
  <1> QED
    BY <1>1, <1>5, <1>6, <1>7 DEF DiskInv

(* A block is read: only an answer, and perhaps error(), is queued.        *)
LEMMA ReadOnDisk ==
    ASSUME DiskInv, ReadBlock
    PROVE  DiskInv'
  <1> DEFINE r == Head(newReadRequests)
  <1> USE DEF shared, worker, caller
  <1>1. TypeOK' /\ TypeOK /\ FirstInv /\ ListsInv /\ VerdictsInv /\ KnownInv /\ VerifiedOnDisk
    BY WorkerTyped DEF DiskInv, Worker
  <1>2. UNCHANGED <<writeRequests, newWriteRequests, pendingVerificationRequests,
                    newPendingVerificationRequests, verifiedPieces, completed,
                    verifying, content, disk, phase, startVerification, pc>>
    BY DEF ReadBlock
  <1>3. r \in ReadRequest
    BY <1>1, TailMembers DEF ReadBlock, TypeOK
  <1>4. PICK s \in {events, Append(events, ErrorEvent)}, v \in BOOLEAN :
          events' = Append(s, DataRead(r, v))
    <2>1. CASE events' = Append(events, DataRead(r, ~quit /\ Intact(r.pieceIndex)))
      BY <2>1 DEF Intact
    <2>2. CASE events' = events \o <<ErrorEvent, DataRead(r, FALSE)>>
      <3>1. /\ events \in Seq(Event) /\ ErrorEvent \in Event
            /\ DataRead(r, FALSE) \in Event
        BY <1>1, <1>3, EventTypes DEF TypeOK
      <3>2. \A x, y \in Event : events \o <<x, y>> = Append(Append(events, x), y)
        BY <3>1, PairAppended
      <3> QED
        BY <2>2, <3>1, <3>2
    <2> QED
      BY <2>1, <2>2 DEF ReadBlock
  <1> DEFINE e == DataRead(r, v)
  <1>5. /\ events \in Seq(Event) /\ ErrorEvent \in Event /\ e \in Event
        /\ \A p \in Pieces : ErrorEvent \notin Verdicts(p) /\ e \notin Verdicts(p)
        /\ VerificationDone # ErrorEvent /\ VerificationDone # e
    BY <1>1, <1>3, EventTypes, NoVerdicts, EventsDiffer DEF TypeOK
  <1> HIDE DEF e
  <1>6. /\ Append(events, ErrorEvent) \in Seq(Event)
        /\ ToSet(Append(events, ErrorEvent)) = ToSet(events) \cup {ErrorEvent}
    BY <1>5, AppendMembers
  <1>7. s \in Seq(Event) /\ events' = Append(s, e)
    BY <1>4, <1>5, <1>6 DEF e
  <1>8. ToSet(events') = ToSet(s) \cup {e}
    BY <1>5, <1>7, AppendMembers
  <1>9. VerificationDone \in ToSet(events') => VerificationDone \in ToSet(events)
    BY <1>4, <1>5, <1>6, <1>8
  <1>10. \A p \in Pieces :
           /\ AtMostOnce(events, Verdicts(p)) => AtMostOnce(s, Verdicts(p))
           /\ PieceVerified(p, TRUE) \in ToSet(s) <=> PieceVerified(p, TRUE) \in ToSet(events)
           /\ PieceVerified(p, FALSE) \in ToSet(s) <=> PieceVerified(p, FALSE) \in ToSet(events)
    <2>1. CASE s = events
      BY <2>1
    <2>2. CASE s = Append(events, ErrorEvent)
      BY <1>5, <2>2, OtherAppended
    <2> QED
      BY <1>4, <2>1, <2>2
  <1>11. \A p \in Pieces :
           /\ AtMostOnce(s, Verdicts(p)) => AtMostOnce(events', Verdicts(p))
           /\ PieceVerified(p, TRUE) \in ToSet(events') <=> PieceVerified(p, TRUE) \in ToSet(s)
           /\ PieceVerified(p, FALSE) \in ToSet(events') <=> PieceVerified(p, FALSE) \in ToSet(s)
    BY <1>5, <1>7, OtherAppended
  <1>12. VerdictsKept
    BY <1>10, <1>11 DEF VerdictsKept
  <1>13. VerdictsInv' /\ KnownInv' /\ VerifiedOnDisk'
    BY <1>1, <1>2, <1>12, QuietStep
  <1>14. FirstInv' /\ ListsInv'
    BY <1>1, <1>2, <1>9 DEF FirstInv, ListsInv
  <1> QED
    BY <1>1, <1>13, <1>14 DEF DiskInv

(* The file is created or opened: nothing is verified yet.                 *)
LEMMA GenerateOnDisk ==
    ASSUME DiskInv, GenerateFiles
    PROVE  DiskInv'
  <1> USE DEF shared, worker, caller
  <1>1. TypeOK' /\ TypeOK /\ FirstInv /\ ListsInv /\ VerdictsInv /\ KnownInv /\ VerifiedOnDisk
    BY WorkerTyped DEF DiskInv, Worker
  <1>2. /\ pc = "generateFiles" /\ pc' \in {"check", "done"}
        /\ events' \in {events, Append(events, ErrorEvent)}
        /\ UNCHANGED <<writeRequests, newWriteRequests, pendingVerificationRequests,
                       startVerification, newPendingVerificationRequests, verifiedPieces,
                       completed, verifying, content, phase>>
    BY DEF GenerateFiles
  <1>3. VerdictsKept /\ (VerificationDone \in ToSet(events') => VerificationDone \in ToSet(events))
    <2>1. ErrorEvent \in Event /\ (\A p \in Pieces : ErrorEvent \notin Verdicts(p))
          /\ ErrorEvent # VerificationDone
      BY EventTypes, NoVerdicts, EventsDiffer
    <2> QED
      BY <1>1, <1>2, <2>1, NeutralEvents
  <1>4. verifiedPieces = {} /\ completed = {}
    BY <1>1, <1>2 DEF ListsInv, KnownInv
  <1>5. VerdictsInv'
    <2>1. Named' = Named /\ Named \subseteq Pieces
      BY <1>1, <1>2 DEF Named, VerdictsInv, TypeOK
    <2>2. \A q \in Pieces : ToSet(events') \cap Verdicts(q) = {} <=> ToSet(events) \cap Verdicts(q) = {}
      BY <1>3 DEF VerdictsKept, Verdicts
    <2>3. \A q : Verdicts(q)' = Verdicts(q) /\ PieceVerified(q, TRUE)' = PieceVerified(q, TRUE)
                 /\ PieceVerified(q, FALSE)' = PieceVerified(q, FALSE)
      BY DEF Verdicts, PieceVerified
    <2> QED
      BY <1>1, <1>2, <1>3, <2>1, <2>2, <2>3 DEF VerdictsInv, VerdictsKept
  <1>6. KnownInv' /\ VerifiedOnDisk'
    BY <1>2, <1>4 DEF KnownInv, VerifiedOnDisk
  <1>7. ListsInv' /\ FirstInv'
    BY <1>1, <1>2, <1>3 DEF ListsInv, FirstInv
  <1> QED
    BY <1>1, <1>5, <1>6, <1>7 DEF DiskInv

(* The named pieces move from the shared list to the worker's.             *)
LEMMA TakeVerificationsOnDisk ==
    ASSUME DiskInv, TakeVerifications
    PROVE  DiskInv'
  <1> USE DEF shared, worker, caller
  <1>1. TypeOK' /\ TypeOK /\ FirstInv /\ ListsInv /\ VerdictsInv /\ KnownInv /\ VerifiedOnDisk
    BY WorkerTyped DEF DiskInv, Worker
  <1>2. /\ newPendingVerificationRequests' = pendingVerificationRequests
        /\ pendingVerificationRequests' = <<>> /\ pc = "verify" /\ pc' = "verifyNext"
        /\ pendingVerificationRequests # <<>>
        /\ UNCHANGED <<writeRequests, newWriteRequests, startVerification, verifiedPieces,
                       completed, verifying, content, disk, phase, events>>
    BY DEF TakeVerifications
  <1>3. ToSet(<<>>) = {} /\ \A A : AtMostOnce(<<>>, A)
    BY DEF ToSet, AtMostOnce
  <1>4. Named' \subseteq Named
    BY <1>2, <1>3 DEF Named
  <1>5. VerdictsInv'
    BY <1>1, <1>2, <1>3, <1>4 DEF VerdictsInv
  <1>6. KnownInv' /\ VerifiedOnDisk'
    BY <1>1, <1>2 DEF KnownInv, VerifiedOnDisk, Writes, Intact
  <1>7. ListsInv' /\ FirstInv'
    BY <1>1, <1>2 DEF ListsInv, FirstInv
  <1> QED
    BY <1>1, <1>5, <1>6, <1>7 DEF DiskInv

(* The first verification: nothing is written and no piece is named yet.   *)
LEMMA VerifyAllOnDisk ==
    ASSUME DiskInv, VerifyAll
    PROVE  DiskInv'
  <1> USE DEF shared, worker, caller
  <1>1. TypeOK' /\ TypeOK /\ FirstInv /\ ListsInv /\ VerdictsInv /\ KnownInv /\ VerifiedOnDisk
    BY WorkerTyped DEF DiskInv, Worker
  <1>2. /\ pc = "verify" /\ pc' = "loop" /\ startVerification' = FALSE
        /\ phase = "preparing"
        /\ UNCHANGED <<writeRequests, newWriteRequests, pendingVerificationRequests,
                       newPendingVerificationRequests, completed, verifying, content,
                       disk, phase>>
        /\ \A p \in verifiedPieces' : p \in verifiedPieces \/ Intact(p)
    BY <1>1 DEF VerifyAll, FirstInv
  <1>3. /\ writeRequests = <<>> /\ newWriteRequests = <<>>
        /\ pendingVerificationRequests = <<>> /\ newPendingVerificationRequests = <<>>
        /\ completed = {} /\ verifying = {}
    BY <1>1, <1>2 DEF FirstInv
  <1>4. ToSet(<<>>) = {} /\ \A A : AtMostOnce(<<>>, A)
    BY DEF ToSet, AtMostOnce
  <1>5. VerdictsKept
    <2>1. PICK s \in {events, Append(events, ErrorEvent)} : events' = Append(s, VerificationDone)
      <3>1. /\ events \in Seq(Event) /\ Append(events, ErrorEvent) \in Seq(Event)
        BY <1>1, EventTypes, AppendMembers DEF TypeOK
      <3>2. \/ events' = events \o <<VerificationDone>>
            \/ events' = Append(events, ErrorEvent) \o <<VerificationDone>>
        BY DEF VerifyAll
      <3> QED
        BY <3>1, <3>2
    <2>2. /\ events \in Seq(Event)
          /\ ErrorEvent \in Event /\ VerificationDone \in Event
      BY <1>1, EventTypes DEF TypeOK
    <2>3. \A p \in Pieces : ErrorEvent \notin Verdicts(p) /\ VerificationDone \notin Verdicts(p)
      BY NoVerdicts
    <2>4. Append(events, ErrorEvent) \in Seq(Event)
      BY <2>2, AppendMembers
    <2>5. CASE s = events
      BY <2>1, <2>2, <2>3, <2>5, OtherAppended DEF VerdictsKept
    <2>6. CASE s = Append(events, ErrorEvent)
      BY <2>1, <2>2, <2>3, <2>4, <2>6, OtherAppended DEF VerdictsKept
    <2> QED
      BY <2>1, <2>5, <2>6
  <1>6. \A p \in Pieces : PieceVerified(p, TRUE) \notin ToSet(events')
                          /\ PieceVerified(p, FALSE) \notin ToSet(events')
    BY <1>1, <1>3, <1>5 DEF VerdictsInv, VerdictsKept, Verdicts
  <1>7. VerdictsInv'
    <2>1. Named' = {}
      BY <1>2, <1>3, <1>4 DEF Named
    <2>2. \A q \in Pieces : ToSet(events') \cap Verdicts(q) = {}
      BY <1>6 DEF Verdicts
    <2>3. \A q : Verdicts(q)' = Verdicts(q) /\ PieceVerified(q, TRUE)' = PieceVerified(q, TRUE)
                 /\ PieceVerified(q, FALSE)' = PieceVerified(q, FALSE)
      BY DEF Verdicts, PieceVerified
    <2>4. \A q \in Pieces : AtMostOnce(events', Verdicts(q))
      BY <1>1, <1>5 DEF VerdictsInv, VerdictsKept
    <2> QED
      BY <1>2, <1>3, <1>4, <1>6, <2>1, <2>2, <2>3, <2>4 DEF VerdictsInv
  <1>8. KnownInv'
    BY <1>2, <1>3 DEF KnownInv
  <1>9. VerifiedOnDisk'
    BY <1>1, <1>2, <1>3, <1>4 DEF VerifiedOnDisk, Writes, Intact
  <1>10. ListsInv' /\ FirstInv'
    BY <1>1, <1>2, <1>3 DEF ListsInv, FirstInv
  <1> QED
    BY <1>1, <1>7, <1>8, <1>9, <1>10 DEF DiskInv

(* The two verdicts on a piece are different events.                       *)
LEMMA VerdictsDiffer == \A p : PieceVerified(p, TRUE) # PieceVerified(p, FALSE)
  <1>1. \A p : PieceVerified(p, TRUE).verified = TRUE /\ PieceVerified(p, FALSE).verified = FALSE
    BY DEF PieceVerified
  <1> QED
    BY <1>1

(* A named piece is verified: its blocks are all written, and its verdict  *)
(* takes its place.                                                        *)
LEMMA VerifySingleOnDisk ==
    ASSUME DiskInv, VerifySinglePiece
    PROVE  DiskInv'
  <1> DEFINE p == Head(newPendingVerificationRequests)
  <1> USE DEF shared, worker, caller
  <1>1. TypeOK' /\ TypeOK /\ FirstInv /\ ListsInv /\ VerdictsInv /\ KnownInv /\ VerifiedOnDisk
    BY WorkerTyped DEF DiskInv, Worker
  <1>2. /\ newPendingVerificationRequests \in Seq(Pieces) /\ newPendingVerificationRequests # <<>>
        /\ newPendingVerificationRequests' = Tail(newPendingVerificationRequests)
        /\ pc = "verifyNext"
        /\ UNCHANGED <<writeRequests, newWriteRequests, pendingVerificationRequests,
                       startVerification, completed, verifying, content, disk, phase, pc>>
    BY <1>1 DEF VerifySinglePiece, TypeOK
  <1>3. /\ p \in Pieces /\ p \in ToSet(newPendingVerificationRequests)
        /\ ToSet(newPendingVerificationRequests') \subseteq ToSet(newPendingVerificationRequests)
    BY <1>2, TailMembers
  <1>4. \A q \in Pieces : /\ AtMostOnce(newPendingVerificationRequests', {q})
                          /\ p \in {q} => ToSet(newPendingVerificationRequests') \cap {q} = {}
    BY <1>1, <1>2, OnceTail DEF VerdictsInv
  <1>5. p \in verifying \ verifiedPieces /\ ToSet(events) \cap Verdicts(p) = {}
    BY <1>1, <1>3 DEF VerdictsInv, Named
  <1>6. ToSet(<<>>) = {} /\ pendingVerificationRequests = <<>> /\ writeRequests = <<>>
        /\ newWriteRequests = <<>>
    BY <1>1, <1>2 DEF ListsInv, ToSet
  <1>7. Named' \subseteq Named \ {p}
    BY <1>2, <1>3, <1>4, <1>6 DEF Named
  <1>8. PICK s \in {events, Append(events, ErrorEvent)}, v \in {PieceVerified(p, TRUE), PieceVerified(p, FALSE)} :
          /\ events' = Append(s, v)
          /\ v = PieceVerified(p, TRUE) => Intact(p) /\ verifiedPieces' = verifiedPieces \cup {p}
          /\ v = PieceVerified(p, FALSE) => verifiedPieces' = verifiedPieces
    <2>1. PieceVerified(p, TRUE) # PieceVerified(p, FALSE)
      BY VerdictsDiffer
    <2>2. /\ events \in Seq(Event) /\ ErrorEvent \in Event
          /\ PieceVerified(p, TRUE) \in Event /\ PieceVerified(p, FALSE) \in Event
      BY <1>1, <1>3, EventTypes DEF TypeOK
    <2>3. CASE /\ events' = Append(events, PieceVerified(p, ~quit /\ Intact(p)))
               /\ verifiedPieces' = IF ~quit /\ Intact(p) THEN verifiedPieces \cup {p} ELSE verifiedPieces
      <3>1. CASE ~quit /\ Intact(p)
        <4>1. (~quit /\ Intact(p)) = TRUE
          BY <3>1
        <4>2. events' = Append(events, PieceVerified(p, TRUE)) /\ verifiedPieces' = verifiedPieces \cup {p}
          BY <2>3, <3>1, <4>1
        <4> QED
          BY <2>1, <3>1, <4>2
      <3>2. CASE ~(~quit /\ Intact(p))
        <4>1. (~quit /\ Intact(p)) = FALSE
          BY <3>2
        <4>2. events' = Append(events, PieceVerified(p, FALSE)) /\ verifiedPieces' = verifiedPieces
          BY <2>3, <3>2, <4>1
        <4> QED
          BY <2>1, <4>2
      <3> QED
        BY <3>1, <3>2
    <2>4. CASE /\ events' = events \o <<ErrorEvent, PieceVerified(p, FALSE)>>
               /\ verifiedPieces' = verifiedPieces
      <3>1. \A x, y \in Event : events \o <<x, y>> = Append(Append(events, x), y)
        BY <2>2, PairAppended
      <3>2. events' = Append(Append(events, ErrorEvent), PieceVerified(p, FALSE))
        BY <2>2, <2>4, <3>1
      <3> QED
        BY <2>1, <2>4, <3>2
    <2> QED
      BY <2>3, <2>4 DEF VerifySinglePiece
  <1>9. /\ s \in Seq(Event) /\ v \in Event /\ v \in Verdicts(p)
        /\ ToSet(s) \cap Verdicts(p) = {}
        /\ \A q \in Pieces : /\ AtMostOnce(s, Verdicts(q))
                             /\ PieceVerified(q, TRUE) \in ToSet(s) <=> PieceVerified(q, TRUE) \in ToSet(events)
                             /\ PieceVerified(q, FALSE) \in ToSet(s) <=> PieceVerified(q, FALSE) \in ToSet(events)
    <2>1. events \in Seq(Event) /\ ErrorEvent \in Event /\ v \in Event
      BY <1>1, <1>3, <1>8, EventTypes DEF TypeOK
    <2>2. \A q \in Pieces : ErrorEvent \notin Verdicts(q) /\ AtMostOnce(events, Verdicts(q))
      BY <1>1, NoVerdicts DEF VerdictsInv
    <2>3. Append(events, ErrorEvent) \in Seq(Event)
          /\ ToSet(Append(events, ErrorEvent)) = ToSet(events) \cup {ErrorEvent}
      BY <2>1, AppendMembers
    <2>4. s \in Seq(Event) /\ ToSet(s) \cap Verdicts(p) = {}
      <3>1. ErrorEvent \notin Verdicts(p)
        BY <1>3, <2>2
      <3>2. s = events \/ s = Append(events, ErrorEvent)
        BY <1>8
      <3> QED
        BY <1>5, <2>1, <2>3, <3>1, <3>2
    <2>5. \A q \in Pieces : /\ AtMostOnce(s, Verdicts(q))
                            /\ PieceVerified(q, TRUE) \in ToSet(s) <=> PieceVerified(q, TRUE) \in ToSet(events)
                            /\ PieceVerified(q, FALSE) \in ToSet(s) <=> PieceVerified(q, FALSE) \in ToSet(events)
      BY <1>8, <2>1, <2>2, OtherAppended
    <2> QED
      BY <1>8, <2>1, <2>4, <2>5 DEF Verdicts
  <1>10. ToSet(events') = ToSet(s) \cup {v}
    BY <1>8, <1>9, AppendMembers
  <1>11. \A q \in Pieces : AtMostOnce(events', Verdicts(q))
    <2>1. \A q \in Pieces : v \in Verdicts(q) => ToSet(s) \cap Verdicts(q) = {}
      <3>1. \A q \in Pieces : q # p => v \notin Verdicts(q)
        BY <1>8, NoVerdicts
      <3> QED
        BY <1>9, <3>1
    <2>2. events' = Append(s, v) /\ s \in Seq(Event) /\ v \in Event
      BY <1>8, <1>9
    <2>3. \A q \in Pieces : AtMostOnce(s, Verdicts(q))
      BY <1>9
    <2> QED
      BY <2>1, <2>2, <2>3, OnceAppended
  <1>12. \A q \in Pieces \ {p} :
           /\ PieceVerified(q, TRUE) \in ToSet(events') <=> PieceVerified(q, TRUE) \in ToSet(events)
           /\ PieceVerified(q, FALSE) \in ToSet(events') <=> PieceVerified(q, FALSE) \in ToSet(events)
    <2>1. \A q \in Pieces \ {p} : v # PieceVerified(q, TRUE) /\ v # PieceVerified(q, FALSE)
      BY <1>8, EventsDiffer
    <2> QED
      BY <1>9, <1>10, <2>1
  <1>13. /\ PieceVerified(p, TRUE) \in ToSet(events') <=> v = PieceVerified(p, TRUE)
         /\ PieceVerified(p, FALSE) \in ToSet(events') <=> v = PieceVerified(p, FALSE)
    BY <1>9, <1>10 DEF Verdicts
  <1>14. v = PieceVerified(p, TRUE) \/ v = PieceVerified(p, FALSE)
    BY <1>8
  <1>15. PieceVerified(p, TRUE) # PieceVerified(p, FALSE)
    BY VerdictsDiffer
  <1> HIDE DEF p
  <1>16. verifiedPieces' \in {verifiedPieces, verifiedPieces \cup {p}}
         /\ (v = PieceVerified(p, TRUE) <=> p \in verifiedPieces')
    BY <1>5, <1>8, <1>14, <1>15
  <1>17. VerdictsInv'
    <2>1. \A q \in Pieces \ {p} : ToSet(events') \cap Verdicts(q) = {} <=> ToSet(events) \cap Verdicts(q) = {}
      BY <1>12 DEF Verdicts
    <2>2. \A q \in Named' : q \in verifying \ verifiedPieces' /\ ToSet(events') \cap Verdicts(q) = {}
      <3>1. Named \subseteq Pieces
        BY <1>1 DEF VerdictsInv, TypeOK
      <3> QED
        BY <1>1, <1>7, <1>16, <2>1, <3>1 DEF VerdictsInv
    <2>3. \A q \in Pieces : ToSet(events') \cap Verdicts(q) # {} => q \in verifying
      BY <1>1, <1>5, <2>1 DEF VerdictsInv
    <2>4. \A q \in Pieces : PieceVerified(q, TRUE) \in ToSet(events') => q \in verifiedPieces'
      BY <1>1, <1>12, <1>13, <1>16 DEF VerdictsInv
    <2>5. \A q \in Pieces : PieceVerified(q, FALSE) \in ToSet(events') => q \notin verifiedPieces'
      BY <1>1, <1>12, <1>13, <1>14, <1>15, <1>16 DEF VerdictsInv
    <2>6. \A q : Verdicts(q)' = Verdicts(q) /\ PieceVerified(q, TRUE)' = PieceVerified(q, TRUE)
                 /\ PieceVerified(q, FALSE)' = PieceVerified(q, FALSE)
      BY DEF Verdicts, PieceVerified
    <2>7. /\ \A q \in Pieces : AtMostOnce(pendingVerificationRequests, {q})
          /\ \A q \in verifying, b \in Blocks : content[q][b] # "none"
      BY <1>1 DEF VerdictsInv
    <2>8. \A q \in Pieces : AtMostOnce(newPendingVerificationRequests', {q})
      BY <1>4
    <2> QED
      BY <1>2, <1>11, <2>2, <2>3, <2>4, <2>5, <2>6, <2>7, <2>8 DEF VerdictsInv
  <1>18. KnownInv'
    <2>1. \A q : PieceVerified(q, TRUE)' = PieceVerified(q, TRUE)
      BY DEF PieceVerified
    <2>2. verifiedPieces \subseteq Pieces
      BY <1>1 DEF TypeOK
    <2> QED
      BY <1>1, <1>2, <1>5, <1>12, <1>13, <1>16, <2>1, <2>2 DEF KnownInv
  <1>19. VerifiedOnDisk'
    BY <1>1, <1>2, <1>6, <1>8, <1>14, <1>16 DEF VerifiedOnDisk, Writes, Intact
  <1>20. ListsInv' /\ FirstInv'
    <2>1. phase = "ready"
      BY <1>1, <1>2 DEF FirstInv
    <2> QED
      BY <1>1, <1>2, <1>6, <2>1 DEF ListsInv, FirstInv
  <1> QED
    BY <1>1, <1>17, <1>18, <1>19, <1>20 DEF DiskInv

(* Every step keeps all of it.                                             *)
LEMMA StepOnDisk == DiskInv /\ [Next]_vars => DiskInv'
  <1>1. ASSUME DiskInv, UNCHANGED vars PROVE DiskInv'
    <2>1. TypeOK'
      BY <1>1 DEF DiskInv, TypeOK, vars, shared, worker, caller
    <2>2. /\ UNCHANGED <<writeRequests, newWriteRequests, pendingVerificationRequests,
                         newPendingVerificationRequests, verifiedPieces, completed,
                         verifying, content, disk, phase, startVerification, events, pc>>
          /\ VerdictsKept
      BY <1>1 DEF vars, shared, worker, caller, VerdictsKept
    <2>3. VerdictsInv' /\ KnownInv' /\ VerifiedOnDisk'
      BY <1>1, <2>2, QuietStep DEF DiskInv
    <2>4. FirstInv' /\ ListsInv'
      BY <1>1, <2>2 DEF DiskInv, FirstInv, ListsInv
    <2> QED
      BY <2>1, <2>3, <2>4 DEF DiskInv
  <1>2. ASSUME DiskInv, Worker PROVE DiskInv'
    <2>1. CASE GenerateFiles
      BY <1>2, <2>1, GenerateOnDisk
    <2>2. CASE WriteBlock \/ Flush
      BY <1>2, <2>2, WriteOnDisk
    <2>3. CASE TakeVerifications
      BY <1>2, <2>3, TakeVerificationsOnDisk
    <2>4. CASE VerifyAll
      BY <1>2, <2>4, VerifyAllOnDisk
    <2>5. CASE VerifySinglePiece
      BY <1>2, <2>5, VerifySingleOnDisk
    <2>6. CASE ReadBlock
      BY <1>2, <2>6, ReadOnDisk
    <2>7. CASE \/ Check \/ Wait \/ TakeReads \/ TakeWrites \/ EndWrites \/ SkipVerification
               \/ EndVerification \/ Loop \/ LeaveLoop \/ EndThread
      BY <1>2, <2>7, WorkerListsOnDisk
    <2> QED
      BY <1>2, <2>1, <2>2, <2>3, <2>4, <2>5, <2>6, <2>7 DEF Worker
  <1> QED
    BY <1>1, <1>2, CallerOnDisk, DispatchOnDisk DEF Next

(* What was verified, and what the caller holds for complete, is on disk   *)
(* and out of reach of every write, whatever the threads interleave.       *)
THEOREM VerifiedStaysOnDisk == Spec => []VerifiedOnDisk
  <1>1. DiskInv => VerifiedOnDisk
    BY DEF DiskInv
  <1> QED
    BY <1>1, InitOnDisk, StepOnDisk, PTL DEF Spec
=============================================================================
