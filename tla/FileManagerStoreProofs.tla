----------------------- MODULE FileManagerStoreProofs -----------------------
(***************************************************************************)
(* The file manager implements the file store of FileStore.tla, for every  *)
(* number of pieces and blocks and every bound; and what the runs check of *)
(* its answers: one for each request, and a true one while nothing failed. *)
(***************************************************************************)
EXTENDS FileManagerProofs

-----------------------------------------------------------------------------
(* The invariant.  DiskInv (FileManagerProofs) says where the requests and *)
(* the verdicts are; the parts below say what they are about.              *)

Healthy == ioErrors = 0 /\ ~quit

ReadsOf(id)   == {r \in ReadRequest : r.id = id}
AnswersTo(id) == {DataRead(r, v) : r \in ReadsOf(id), v \in BOOLEAN}

(* Before the first verification is reported nothing was written: the file *)
(* is as it was found, or new and empty, and the report is still to come.  *)
BegunInv ==
    /\ pc = "generateFiles" => phase # "ready" /\ events = <<>>
    /\ AtMostOnce(events, {VerificationDone})
    /\ VerificationDone \in ToSet(events) => phase # "ready"
    /\ phase # "ready" =>
          /\ content = [p \in Pieces |-> Uniform("none")]
          /\ newFile => disk = [p \in Pieces |-> Uniform("none")]
          /\ VerificationDone \notin ToSet(events) => verifiedPieces = {}
          /\ VerificationDone \in ToSet(events) /\ Healthy =>
                verifiedPieces = {p \in Pieces : Intact(p)}

(* A read is in one list or in the queue of answers, once, and is of a     *)
(* complete piece.                                                         *)
ReadsInv ==
    /\ pc # "read" => newReadRequests = <<>>
    /\ \A r \in ToSet(readRequests) \cup ToSet(newReadRequests) : r.pieceIndex \in completed
    /\ \A r \in ReadRequest, v \in BOOLEAN :
          DataRead(r, v) \in ToSet(events) => r.pieceIndex \in completed
    /\ \A id \in ReadIds :
          /\ AtMostOnce(readRequests, ReadsOf(id))
          /\ AtMostOnce(newReadRequests, ReadsOf(id))
          /\ AtMostOnce(events, AnswersTo(id))
          /\ ToSet(readRequests) \cap ReadsOf(id) # {} =>
                /\ ToSet(newReadRequests) \cap ReadsOf(id) = {}
                /\ ToSet(events) \cap AnswersTo(id) = {}
          /\ ToSet(newReadRequests) \cap ReadsOf(id) # {} =>
                ToSet(events) \cap AnswersTo(id) = {}
          /\ id \in readIds <=> \/ ToSet(readRequests) \cap ReadsOf(id) # {}
                                \/ ToSet(newReadRequests) \cap ReadsOf(id) # {}
                                \/ ToSet(events) \cap AnswersTo(id) # {}
          /\ id \in readIds => id < readId

(* The verification of a piece that the caller waits for is under way.     *)
AskedInv ==
    \A p \in verifying : p \in Named \/ ToSet(events) \cap Verdicts(p) # {}

(* A write that waits is what the caller wrote last to that block, and is  *)
(* of no piece whose verdict is out.                                       *)
WritesInv ==
    /\ \A w \in Writes : content[w.pieceIndex][w.offset] = w.data
    /\ \A p \in Pieces : ToSet(events) \cap Verdicts(p) # {} =>
          \A w \in Writes : w.pieceIndex # p

(* While nothing failed: what the caller wrote waits or is on disk, and    *)
(* the answers under way are true.                                         *)
TrueInv ==
    Healthy =>
      /\ \A p \in Pieces, b \in Blocks :
            \/ content[p][b] \in {"none", disk[p][b]}
            \/ \E w \in Writes : w.pieceIndex = p /\ w.offset = b
      /\ \A p \in Pieces :
            /\ PieceVerified(p, TRUE) \in ToSet(events) => content[p] = Uniform("good")
            /\ PieceVerified(p, FALSE) \in ToSet(events) => content[p] # Uniform("good")
      /\ \A r \in ReadRequest : DataRead(r, FALSE) \notin ToSet(events)

StoreInv == DiskInv /\ BegunInv /\ ReadsInv /\ AskedInv /\ WritesInv /\ TrueInv

-----------------------------------------------------------------------------
(* What a step does to the GUI thread's queue.  A set of events that the   *)
(* step does not touch has the same members in the queue, none of them     *)
(* more often.                                                             *)

Noise == {WakeUpCall, ErrorEvent}

Untouched(A) ==
    /\ AtMostOnce(events, A) => AtMostOnce(events', A)
    /\ ToSet(events') \cap A = ToSet(events) \cap A

(* The events that report something, and what they say.                    *)
Reports == {e \in Event : e.kind \in {"dataRead", "pieceVerified"}}

(* The step posts nothing, the call of wakeUp or error().                  *)
Silent == events' \in {events, Append(events, WakeUpCall), Append(events, ErrorEvent)}

(* The step appends e, after error() where something failed.               *)
Emits(e) == \E s \in {events, Append(events, ErrorEvent)} : events' = Append(s, e)

LEMMA AppendUntouched ==
    ASSUME NEW s \in Seq(Event), NEW e \in Event, NEW A, e \notin A
    PROVE  /\ AtMostOnce(s, A) => AtMostOnce(Append(s, e), A)
           /\ ToSet(Append(s, e)) \cap A = ToSet(s) \cap A
  <1>1. AtMostOnce(s, A) => AtMostOnce(Append(s, e), A)
    BY OnceAppended
  <1>2. ToSet(Append(s, e)) = ToSet(s) \cup {e}
    BY AppendMembers
  <1> QED
    BY <1>1, <1>2

LEMMA SilentUntouched ==
    ASSUME TypeOK, Silent
    PROVE  /\ \A A : A \cap Noise = {} => Untouched(A)
           /\ ToSet(events') \subseteq ToSet(events) \cup Noise
  <1>1. /\ events \in Seq(Event) /\ WakeUpCall \in Event /\ ErrorEvent \in Event
    BY EventTypes DEF TypeOK
  <1>2. ASSUME NEW A, A \cap Noise = {} PROVE Untouched(A)
    <2>1. WakeUpCall \notin A /\ ErrorEvent \notin A
      BY <1>2 DEF Noise
    <2>2. CASE events' = events
      BY <2>2 DEF Untouched
    <2>3. CASE events' = Append(events, WakeUpCall)
      BY <1>1, <2>1, <2>3, AppendUntouched DEF Untouched
    <2>4. CASE events' = Append(events, ErrorEvent)
      BY <1>1, <2>1, <2>4, AppendUntouched DEF Untouched
    <2> QED
      BY <2>2, <2>3, <2>4 DEF Silent
  <1>3. /\ ToSet(Append(events, WakeUpCall)) = ToSet(events) \cup {WakeUpCall}
        /\ ToSet(Append(events, ErrorEvent)) = ToSet(events) \cup {ErrorEvent}
    BY <1>1, AppendMembers
  <1>4. ToSet(events') \subseteq ToSet(events) \cup Noise
    BY <1>3 DEF Silent, Noise
  <1> QED
    BY <1>2, <1>4

LEMMA EmitsOnce ==
    ASSUME TypeOK, NEW e \in Event, Emits(e)
    PROVE  /\ \A A : A \cap Noise = {} /\ e \notin A => Untouched(A)
           /\ \A A : A \cap Noise = {} /\ e \in A =>
                 /\ ToSet(events') \cap A = (ToSet(events) \cap A) \cup {e}
                 /\ AtMostOnce(events, A) /\ ToSet(events) \cap A = {} => AtMostOnce(events', A)
  <1>1. events \in Seq(Event) /\ ErrorEvent \in Event
    BY EventTypes DEF TypeOK
  <1>2. PICK s \in {events, Append(events, ErrorEvent)} : events' = Append(s, e)
    BY DEF Emits
  <1>3. s \in Seq(Event)
    BY <1>1, <1>2, AppendMembers
  <1>4. ASSUME NEW A, A \cap Noise = {}
        PROVE  /\ AtMostOnce(events, A) => AtMostOnce(s, A)
               /\ ToSet(s) \cap A = ToSet(events) \cap A
    <2>1. ErrorEvent \notin A
      BY <1>4 DEF Noise
    <2>2. CASE s = Append(events, ErrorEvent)
      BY <1>1, <2>1, <2>2, AppendUntouched
    <2> QED
      BY <1>2, <2>2
  <1>5. ToSet(events') = ToSet(s) \cup {e}
    BY <1>2, <1>3, AppendMembers
  <1>6. ASSUME NEW A, A \cap Noise = {}, e \notin A PROVE Untouched(A)
    <2>1. AtMostOnce(s, A) => AtMostOnce(events', A)
      BY <1>2, <1>3, <1>6, OnceAppended
    <2> QED
      BY <1>4, <1>5, <1>6, <2>1 DEF Untouched
  <1>7. ASSUME NEW A, A \cap Noise = {}, e \in A
        PROVE  /\ ToSet(events') \cap A = (ToSet(events) \cap A) \cup {e}
               /\ AtMostOnce(events, A) /\ ToSet(events) \cap A = {} => AtMostOnce(events', A)
    <2>1. ToSet(s) \cap A = ToSet(events) \cap A
      BY <1>4, <1>7
    <2>2. ASSUME AtMostOnce(events, A), ToSet(events) \cap A = {} PROVE AtMostOnce(events', A)
      <3>1. AtMostOnce(s, A) /\ ToSet(s) \cap A = {}
        BY <1>4, <1>7, <2>1, <2>2
      <3> QED
        BY <1>2, <1>3, <3>1, OnceAppended
    <2> QED
      BY <1>5, <1>7, <2>1, <2>2
  <1> QED
    BY <1>6, <1>7

(* The head of the queue is taken out.                                     *)
LEMMA TakenOut ==
    ASSUME TypeOK, events # <<>>, events' = Tail(events)
    PROVE  /\ Head(events) \in Event /\ Head(events) \in ToSet(events)
           /\ ToSet(events') \subseteq ToSet(events)
           /\ \A A : Head(events) \notin A => Untouched(A)
           /\ \A A : AtMostOnce(events, A) =>
                 /\ AtMostOnce(events', A)
                 /\ Head(events) \in A => /\ ToSet(events') \cap A = {}
                                          /\ ToSet(events) \cap A = {Head(events)}
  <1>1. events \in Seq(Event)
    BY DEF TypeOK
  <1>2. /\ Head(events) \in Event /\ Head(events) \in ToSet(events)
        /\ ToSet(events') \subseteq ToSet(events)
        /\ \A x \in ToSet(events) : x = Head(events) \/ x \in ToSet(events')
    BY <1>1, TailMembers
  <1>3. ASSUME NEW A, AtMostOnce(events, A)
        PROVE  /\ AtMostOnce(events', A)
               /\ Head(events) \in A => ToSet(events') \cap A = {}
    BY <1>1, <1>3, OnceTail
  <1>4. ASSUME NEW A, Head(events) \notin A PROVE Untouched(A)
    <2>1. ToSet(events') \cap A = ToSet(events) \cap A
      BY <1>2, <1>4
    <2> QED
      BY <1>3, <2>1 DEF Untouched
  <1>5. ASSUME NEW A, AtMostOnce(events, A), Head(events) \in A
        PROVE  ToSet(events) \cap A = {Head(events)}
    BY <1>2, <1>3, <1>5
  <1> QED
    BY <1>2, <1>3, <1>4, <1>5

(* The sets of events that the invariants speak of.                        *)
LEMMA EventSets ==
    /\ \A p : Verdicts(p) \cap Noise = {} /\ VerificationDone \notin Verdicts(p)
    /\ \A id : AnswersTo(id) \cap Noise = {} /\ VerificationDone \notin AnswersTo(id)
    /\ {VerificationDone} \cap Noise = {} /\ Reports \cap Noise = {}
    /\ \A p, id : Verdicts(p) \cap AnswersTo(id) = {}
    /\ \A p, q : p # q => Verdicts(p) \cap Verdicts(q) = {}
    /\ \A i, j : i # j => AnswersTo(i) \cap AnswersTo(j) = {}
    /\ \A r \in ReadRequest, v \in BOOLEAN : DataRead(r, v) \in AnswersTo(r.id)
    /\ \A r \in ReadRequest, v \in BOOLEAN : DataRead(r, v) \in Reports
    /\ \A p \in Pieces, v \in BOOLEAN : PieceVerified(p, v) \in Verdicts(p) \cap Reports
    /\ VerificationDone \notin Reports
    /\ \A e \in Event : e.kind = "dataRead" =>
          e.request \in ReadRequest /\ e.intact \in BOOLEAN /\ e = DataRead(e.request, e.intact)
  <1>1. \A p, v : PieceVerified(p, v).kind = "pieceVerified" /\ PieceVerified(p, v).pieceIndex = p
    BY DEF PieceVerified
  <1>2. \A r, v : /\ DataRead(r, v).kind = "dataRead" /\ DataRead(r, v).request = r
                  /\ DataRead(r, v).intact = v
    BY DEF DataRead
  <1>3. /\ WakeUpCall.kind = "wakeUp" /\ ErrorEvent.kind = "error"
        /\ VerificationDone.kind = "verificationDone"
    BY DEF WakeUpCall, ErrorEvent, VerificationDone
  <1>4. \A p, x : x \in Verdicts(p) => x.kind = "pieceVerified" /\ x.pieceIndex = p
    BY <1>1 DEF Verdicts
  <1>5. \A id, x : x \in AnswersTo(id) => x.kind = "dataRead" /\ x.request.id = id
    BY <1>2 DEF AnswersTo, ReadsOf
  <1>6. \A x \in Reports : x.kind \in {"dataRead", "pieceVerified"}
    BY DEF Reports
  <1>7. \A x \in Noise \cup {VerificationDone} : x.kind \notin {"dataRead", "pieceVerified"}
    BY <1>3 DEF Noise
  <1>8. VerificationDone \notin Noise
    BY <1>3 DEF Noise
  <1>9. \A r \in ReadRequest, v \in BOOLEAN : DataRead(r, v) \in AnswersTo(r.id)
    BY DEF AnswersTo, ReadsOf
  <1>10. \A r \in ReadRequest, v \in BOOLEAN : DataRead(r, v) \in Reports
    BY <1>2, EventTypes DEF Reports
  <1>11. \A p \in Pieces, v \in BOOLEAN : PieceVerified(p, v) \in Verdicts(p) \cap Reports
    <2>1. ASSUME NEW p \in Pieces, NEW v \in BOOLEAN PROVE PieceVerified(p, v) \in Verdicts(p)
      BY DEF Verdicts
    <2> QED
      BY <1>1, <2>1, EventTypes DEF Reports
  <1>12. ASSUME NEW e \in Event, e.kind = "dataRead"
         PROVE  /\ e.request \in ReadRequest /\ e.intact \in BOOLEAN
                /\ e = DataRead(e.request, e.intact)
    <2>1. PICK r \in ReadRequest, v \in BOOLEAN : e = DataRead(r, v)
      BY <1>1, <1>3, <1>12 DEF Event
    <2> QED
      BY <1>2, <2>1
  <1>13. \A p : Verdicts(p) \cap Noise = {} /\ VerificationDone \notin Verdicts(p)
    BY <1>4, <1>7
  <1>14. \A id : AnswersTo(id) \cap Noise = {} /\ VerificationDone \notin AnswersTo(id)
    BY <1>5, <1>7
  <1>15. \A p, id : Verdicts(p) \cap AnswersTo(id) = {}
    BY <1>4, <1>5
  <1>16. \A p, q : p # q => Verdicts(p) \cap Verdicts(q) = {}
    BY <1>4
  <1>17. \A i, j : i # j => AnswersTo(i) \cap AnswersTo(j) = {}
    BY <1>5
  <1>18. Reports \cap Noise = {} /\ VerificationDone \notin Reports
    BY <1>6, <1>7
  <1> QED
    BY <1>8, <1>9, <1>10, <1>11, <1>12, <1>13, <1>14, <1>15, <1>16, <1>17, <1>18

(* What each step posts.                                                   *)
LEMMA SilentSteps ==
    ASSUME Next
    PROVE  Silent \/ Dispatch \/ ReadBlock \/ VerifyAll \/ VerifySinglePiece
  <1> USE DEF Silent, shared, worker, caller
  <1>1. PostWakeUp => Silent
    BY DEF PostWakeUp
  <1>2. WriteHead => Silent
    BY DEF WriteHead
  <1>3. CASE Caller
    BY <1>1, <1>3 DEF Caller, StartDataVerification, Read, Write, VerifyPiece
  <1>4. CASE SetQuit \/ SignalQuit \/ JoinWorker
    BY <1>4 DEF SetQuit, SignalQuit, JoinWorker
  <1>5. CASE GenerateFiles
    BY <1>5 DEF GenerateFiles
  <1>6. CASE WriteBlock \/ Flush
    BY <1>2, <1>6 DEF WriteBlock, Flush
  <1>7. CASE \/ Check \/ Wait \/ TakeReads \/ TakeWrites \/ EndWrites \/ SkipVerification
             \/ TakeVerifications \/ EndVerification \/ Loop \/ LeaveLoop \/ EndThread
    BY <1>7 DEF Check, Wait, TakeReads, TakeWrites, EndWrites, SkipVerification,
                TakeVerifications, EndVerification, Loop, LeaveLoop, EndThread
  <1> QED
    BY <1>3, <1>4, <1>5, <1>6, <1>7 DEF Next, Worker

LEMMA ReadEmits ==
    ASSUME TypeOK, ReadBlock
    PROVE  LET r == Head(newReadRequests) IN
           /\ r \in ReadRequest
           /\ \E v \in BOOLEAN :
                 /\ Emits(DataRead(r, v))
                 /\ v => ~quit /\ Intact(r.pieceIndex)
                 /\ ~v => quit \/ ~Intact(r.pieceIndex) \/ ioErrors' = ioErrors + 1
  <1> DEFINE r == Head(newReadRequests)
  <1>1. r \in ReadRequest
    BY TailMembers DEF ReadBlock, TypeOK
  <1>2. CASE events' = Append(events, DataRead(r, ~quit /\ Intact(r.pieceIndex)))
    <2> DEFINE v == ~quit /\ Intact(r.pieceIndex)
    <2>1. v \in BOOLEAN
      BY DEF Intact
    <2>2. Emits(DataRead(r, v))
      BY <1>2 DEF Emits
    <2> QED
      BY <1>1, <2>1, <2>2
  <1>3. CASE events' = events \o <<ErrorEvent, DataRead(r, FALSE)>> /\ ioErrors' = ioErrors + 1
    <2>1. /\ events \in Seq(Event) /\ ErrorEvent \in Event
          /\ DataRead(r, FALSE) \in Event
      BY <1>1, EventTypes DEF TypeOK
    <2>2. \A x, y \in Event : events \o <<x, y>> = Append(Append(events, x), y)
      BY <2>1, PairAppended
    <2>3. Emits(DataRead(r, FALSE))
      BY <1>3, <2>1, <2>2 DEF Emits
    <2> QED
      BY <1>1, <1>3, <2>3
  <1> QED
    BY <1>2, <1>3 DEF ReadBlock

LEMMA SingleEmits ==
    ASSUME TypeOK, VerifySinglePiece
    PROVE  LET p == Head(newPendingVerificationRequests) IN
           /\ p \in Pieces
           /\ \E v \in BOOLEAN :
                 /\ Emits(PieceVerified(p, v))
                 /\ v => ~quit /\ Intact(p)
                 /\ ~v => quit \/ ~Intact(p) \/ ioErrors' = ioErrors + 1
  <1> DEFINE p == Head(newPendingVerificationRequests)
  <1>1. p \in Pieces
    BY TailMembers DEF VerifySinglePiece, TypeOK
  <1>2. CASE events' = Append(events, PieceVerified(p, ~quit /\ Intact(p)))
    <2> DEFINE v == ~quit /\ Intact(p)
    <2>1. v \in BOOLEAN
      BY DEF Intact
    <2>2. Emits(PieceVerified(p, v))
      BY <1>2 DEF Emits
    <2> QED
      BY <1>1, <2>1, <2>2
  <1>3. CASE events' = events \o <<ErrorEvent, PieceVerified(p, FALSE)>> /\ ioErrors' = ioErrors + 1
    <2>1. /\ events \in Seq(Event) /\ ErrorEvent \in Event
          /\ PieceVerified(p, FALSE) \in Event
      BY <1>1, EventTypes DEF TypeOK
    <2>2. \A x, y \in Event : events \o <<x, y>> = Append(Append(events, x), y)
      BY <2>1, PairAppended
    <2>3. Emits(PieceVerified(p, FALSE))
      BY <1>3, <2>1, <2>2 DEF Emits
    <2> QED
      BY <1>1, <1>3, <2>3
  <1> QED
    BY <1>2, <1>3 DEF VerifySinglePiece

LEMMA AllEmits ==
    ASSUME TypeOK, VerifyAll
    PROVE  Emits(VerificationDone) /\ VerificationDone \in Event
  <1>1. /\ events \in Seq(Event) /\ Append(events, ErrorEvent) \in Seq(Event)
    BY EventTypes, AppendMembers DEF TypeOK
  <1>2. \/ events' = events \o <<VerificationDone>>
        \/ events' = Append(events, ErrorEvent) \o <<VerificationDone>>
    BY DEF VerifyAll
  <1>3. \A s \in {events, Append(events, ErrorEvent)} :
          s \o <<VerificationDone>> = Append(s, VerificationDone)
    BY <1>1
  <1> QED
    BY <1>2, <1>3, EventTypes DEF Emits

-----------------------------------------------------------------------------
(* Every request is in one place.                                          *)

(* A step that leaves the reads alone.                                     *)
LEMMA ReadsQuiet ==
    ASSUME ReadsInv, \A id \in ReadIds : Untouched(AnswersTo(id)),
           UNCHANGED <<readRequests, newReadRequests, readId, readIds>>,
           completed \subseteq completed', newReadRequests # <<>> => pc' = pc
    PROVE  ReadsInv'
  <1>1. \A id : AnswersTo(id)' = AnswersTo(id) /\ ReadsOf(id)' = ReadsOf(id)
    BY DEF AnswersTo, ReadsOf, DataRead, ReadRequest, ReadIds, Pieces
  <1>2. ASSUME NEW r \in ReadRequest, NEW v \in BOOLEAN, DataRead(r, v) \in ToSet(events')
        PROVE  DataRead(r, v) \in ToSet(events)
    <2>1. DataRead(r, v) \in AnswersTo(r.id) /\ r.id \in ReadIds
      BY EventSets, RequestTypes
    <2> QED
      BY <1>2, <2>1 DEF Untouched
  <1>3. \A r \in ReadRequest, v \in BOOLEAN :
          DataRead(r, v) \in ToSet(events') => r.pieceIndex \in completed'
    BY <1>2 DEF ReadsInv
  <1>4. \A r, v : DataRead(r, v)' = DataRead(r, v)
    BY DEF DataRead
  <1>5. pc' # "read" => newReadRequests' = <<>>
    BY DEF ReadsInv
  <1>6. \A r \in ToSet(readRequests') \cup ToSet(newReadRequests') : r.pieceIndex \in completed'
    BY DEF ReadsInv
  <1>7. ASSUME NEW id \in ReadIds
        PROVE  /\ AtMostOnce(readRequests', ReadsOf(id))
               /\ AtMostOnce(newReadRequests', ReadsOf(id))
               /\ AtMostOnce(events', AnswersTo(id))
               /\ ToSet(readRequests') \cap ReadsOf(id) # {} =>
                     /\ ToSet(newReadRequests') \cap ReadsOf(id) = {}
                     /\ ToSet(events') \cap AnswersTo(id) = {}
               /\ ToSet(newReadRequests') \cap ReadsOf(id) # {} =>
                     ToSet(events') \cap AnswersTo(id) = {}
               /\ id \in readIds' <=> \/ ToSet(readRequests') \cap ReadsOf(id) # {}
                                      \/ ToSet(newReadRequests') \cap ReadsOf(id) # {}
                                      \/ ToSet(events') \cap AnswersTo(id) # {}
               /\ id \in readIds' => id < readId'
    BY DEF ReadsInv, Untouched
  <1> QED
    BY <1>1, <1>3, <1>4, <1>5, <1>6, <1>7 DEF ReadsInv

(* The caller asks for a block: the identifier is new.                     *)
LEMMA ReadAsked ==
    ASSUME TypeOK, ReadsInv, NEW p \in Pieces, Read(p)
    PROVE  ReadsInv'
  <1> DEFINE r == [id |-> readId, pieceIndex |-> p]
  <1> USE DEF shared, worker, caller
  <1>1. /\ readId \in ReadIds /\ r \in ReadRequest /\ r.id = readId /\ r.pieceIndex = p
        /\ readRequests \in Seq(ReadRequest) /\ readRequests' = Append(readRequests, r)
        /\ UNCHANGED <<newReadRequests, completed, pc>> /\ p \in completed
        /\ readId' = readId + 1 /\ readIds' = readIds \cup {readId} /\ readId \in Nat
    BY RequestTypes, FMAssumption DEF Read, TypeOK, ReadIds
  <1>2. Silent
    BY DEF Read, PostWakeUp, Silent
  <1>3. \A id \in ReadIds : Untouched(AnswersTo(id))
    BY <1>2, SilentUntouched, EventSets
  <1> HIDE DEF r
  <1>4. ToSet(readRequests') = ToSet(readRequests) \cup {r}
    BY <1>1, AppendMembers
  <1>5. \A id \in ReadIds : r \in ReadsOf(id) <=> id = readId
    BY <1>1 DEF ReadsOf
  <1>6. readId \notin readIds
    BY <1>1 DEF ReadsInv
  <1>7. /\ ToSet(readRequests) \cap ReadsOf(readId) = {}
        /\ ToSet(newReadRequests) \cap ReadsOf(readId) = {}
        /\ ToSet(events) \cap AnswersTo(readId) = {}
    BY <1>1, <1>6 DEF ReadsInv
  <1>8. \A id \in ReadIds : AtMostOnce(readRequests', ReadsOf(id))
    <2>1. \A id \in ReadIds : r \in ReadsOf(id) => ToSet(readRequests) \cap ReadsOf(id) = {}
      BY <1>5, <1>7
    <2>2. \A id \in ReadIds : AtMostOnce(readRequests, ReadsOf(id))
      BY DEF ReadsInv
    <2> QED
      BY <1>1, <2>1, <2>2, OnceAppended
  <1>9. ASSUME NEW id \in ReadIds
        PROVE  /\ AtMostOnce(newReadRequests', ReadsOf(id)) /\ AtMostOnce(events', AnswersTo(id))
               /\ ToSet(readRequests') \cap ReadsOf(id) # {} =>
                     /\ ToSet(newReadRequests') \cap ReadsOf(id) = {}
                     /\ ToSet(events') \cap AnswersTo(id) = {}
               /\ ToSet(newReadRequests') \cap ReadsOf(id) # {} =>
                     ToSet(events') \cap AnswersTo(id) = {}
               /\ id \in readIds' <=> \/ ToSet(readRequests') \cap ReadsOf(id) # {}
                                      \/ ToSet(newReadRequests') \cap ReadsOf(id) # {}
                                      \/ ToSet(events') \cap AnswersTo(id) # {}
               /\ id \in readIds' => id < readId'
    <2>1. /\ AtMostOnce(newReadRequests', ReadsOf(id)) /\ AtMostOnce(events', AnswersTo(id))
          /\ ToSet(events') \cap AnswersTo(id) = ToSet(events) \cap AnswersTo(id)
      BY <1>1, <1>3 DEF ReadsInv, Untouched
    <2>2. CASE id = readId
      <3>1. r \in ToSet(readRequests') \cap ReadsOf(id)
        BY <1>4, <1>5, <2>2
      <3>2. ToSet(newReadRequests') \cap ReadsOf(id) = {} /\ ToSet(events') \cap AnswersTo(id) = {}
        BY <1>1, <1>7, <2>1, <2>2
      <3>3. id \in readIds' /\ id < readId'
        BY <1>1, <2>2
      <3> QED
        BY <2>1, <3>1, <3>2, <3>3
    <2>3. CASE id # readId
      <3>1. ToSet(readRequests') \cap ReadsOf(id) = ToSet(readRequests) \cap ReadsOf(id)
        BY <1>4, <1>5, <2>3
      <3>2. (id \in readIds' <=> id \in readIds) /\ (id \in readIds => id < readId)
        BY <1>1, <2>3 DEF ReadsInv
      <3>3. id \in readIds' => id < readId'
        BY <1>1, <3>2 DEF ReadIds
      <3> QED
        BY <1>1, <2>1, <3>1, <3>2, <3>3 DEF ReadsInv
    <2> QED
      BY <2>2, <2>3
  <1>10. \A q \in ToSet(readRequests') \cup ToSet(newReadRequests') : q.pieceIndex \in completed'
    BY <1>1, <1>4 DEF ReadsInv
  <1>11. ASSUME NEW q \in ReadRequest, NEW v \in BOOLEAN, DataRead(q, v) \in ToSet(events')
         PROVE  q.pieceIndex \in completed'
    <2>1. DataRead(q, v) \in AnswersTo(q.id) /\ q.id \in ReadIds
      BY EventSets, RequestTypes
    <2> QED
      BY <1>1, <1>3, <1>11, <2>1 DEF Untouched, ReadsInv
  <1>12. \A id : AnswersTo(id)' = AnswersTo(id) /\ ReadsOf(id)' = ReadsOf(id)
    BY DEF AnswersTo, ReadsOf, DataRead, ReadRequest, ReadIds, Pieces
  <1>13. \A q, v : DataRead(q, v)' = DataRead(q, v)
    BY DEF DataRead
  <1>14. pc' # "read" => newReadRequests' = <<>>
    BY <1>1 DEF ReadsInv
  <1> QED
    BY <1>8, <1>9, <1>10, <1>11, <1>12, <1>13, <1>14 DEF ReadsInv

(* The worker takes the list.                                              *)
LEMMA ReadsTaken ==
    ASSUME TypeOK, ReadsInv, TakeReads
    PROVE  ReadsInv'
  <1>1. /\ newReadRequests = <<>> /\ newReadRequests' = readRequests /\ readRequests' = <<>>
        /\ pc' = "read" /\ UNCHANGED <<events, completed, readId, readIds>>
    BY DEF TakeReads, ReadsInv, caller
  <1>2. ToSet(<<>>) = {} /\ \A A : AtMostOnce(<<>>, A)
    BY DEF ToSet, AtMostOnce
  <1>3. \A id : AnswersTo(id)' = AnswersTo(id) /\ ReadsOf(id)' = ReadsOf(id)
    BY DEF AnswersTo, ReadsOf, DataRead, ReadRequest, ReadIds, Pieces
  <1>4. \A q, v : DataRead(q, v)' = DataRead(q, v)
    BY DEF DataRead
  <1> QED
    BY <1>1, <1>2, <1>3, <1>4 DEF ReadsInv

(* The worker answers the first read of its list.                          *)
LEMMA ReadAnswered ==
    ASSUME TypeOK, ReadsInv, ReadBlock
    PROVE  ReadsInv'
  <1> DEFINE r == Head(newReadRequests)
  <1>1. r \in ReadRequest /\ \E v \in BOOLEAN : Emits(DataRead(r, v))
    BY ReadEmits
  <1>2. PICK v \in BOOLEAN : Emits(DataRead(r, v))
    BY <1>1
  <1> DEFINE e == DataRead(r, v)
  <1>3. e \in Event /\ e \in AnswersTo(r.id) /\ r.id \in ReadIds
    BY <1>1, EventTypes, EventSets, RequestTypes
  <1>4. /\ newReadRequests # <<>> /\ newReadRequests \in Seq(ReadRequest)
        /\ newReadRequests' = Tail(newReadRequests) /\ pc = "read" /\ pc' = pc
        /\ UNCHANGED <<readRequests, completed, readId, readIds>>
    BY DEF ReadBlock, TypeOK, shared, caller
  <1>5. /\ r \in ToSet(newReadRequests) /\ ToSet(newReadRequests') \subseteq ToSet(newReadRequests)
        /\ \A x \in ToSet(newReadRequests) : x = r \/ x \in ToSet(newReadRequests')
    BY <1>4, TailMembers
  <1>6. \A id \in ReadIds :
          /\ AtMostOnce(newReadRequests', ReadsOf(id))
          /\ r \in ReadsOf(id) => ToSet(newReadRequests') \cap ReadsOf(id) = {}
    BY <1>4, OnceTail DEF ReadsInv
  <1>7. \A id \in ReadIds : r \in ReadsOf(id) <=> id = r.id
    BY <1>1 DEF ReadsOf
  <1>8. \A id \in ReadIds : e \in AnswersTo(id) <=> id = r.id
    BY <1>3, EventSets
  <1>9. /\ ToSet(readRequests) \cap ReadsOf(r.id) = {} /\ ToSet(events) \cap AnswersTo(r.id) = {}
        /\ r.id \in readIds
    <2>1. ToSet(newReadRequests) \cap ReadsOf(r.id) # {}
      BY <1>3, <1>5, <1>7
    <2> QED
      BY <1>3, <2>1 DEF ReadsInv
  <1>10. \A A : A \cap Noise = {} /\ e \notin A => Untouched(A)
    BY <1>2, <1>3, EmitsOnce
  <1>11. /\ ToSet(events') \cap AnswersTo(r.id) = {e} /\ AtMostOnce(events', AnswersTo(r.id))
    <2>1. AnswersTo(r.id) \cap Noise = {} /\ AtMostOnce(events, AnswersTo(r.id))
      BY <1>3, EventSets DEF ReadsInv
    <2>2. /\ ToSet(events') \cap AnswersTo(r.id) = (ToSet(events) \cap AnswersTo(r.id)) \cup {e}
          /\ AtMostOnce(events, AnswersTo(r.id)) /\ ToSet(events) \cap AnswersTo(r.id) = {} =>
                AtMostOnce(events', AnswersTo(r.id))
      BY <1>2, <1>3, <2>1, EmitsOnce
    <2> QED
      BY <1>9, <2>1, <2>2
  <1> HIDE DEF r, e
  <1>12. ASSUME NEW id \in ReadIds
         PROVE  /\ AtMostOnce(readRequests', ReadsOf(id))
                /\ AtMostOnce(newReadRequests', ReadsOf(id))
                /\ AtMostOnce(events', AnswersTo(id))
                /\ ToSet(readRequests') \cap ReadsOf(id) # {} =>
                      /\ ToSet(newReadRequests') \cap ReadsOf(id) = {}
                      /\ ToSet(events') \cap AnswersTo(id) = {}
                /\ ToSet(newReadRequests') \cap ReadsOf(id) # {} =>
                      ToSet(events') \cap AnswersTo(id) = {}
                /\ id \in readIds' <=> \/ ToSet(readRequests') \cap ReadsOf(id) # {}
                                       \/ ToSet(newReadRequests') \cap ReadsOf(id) # {}
                                       \/ ToSet(events') \cap AnswersTo(id) # {}
                /\ id \in readIds' => id < readId'
    <2>1. CASE id = r.id
      <3>1. ToSet(newReadRequests') \cap ReadsOf(id) = {}
        BY <1>6, <1>7, <2>1
      <3> QED
        BY <1>4, <1>6, <1>9, <1>11, <2>1, <3>1 DEF ReadsInv
    <2>2. CASE id # r.id
      <3>1. ToSet(newReadRequests') \cap ReadsOf(id) = ToSet(newReadRequests) \cap ReadsOf(id)
        BY <1>5, <1>7, <2>2
      <3>2. Untouched(AnswersTo(id))
        BY <1>8, <1>10, <2>2, EventSets
      <3> QED
        BY <1>4, <1>6, <3>1, <3>2 DEF ReadsInv, Untouched
    <2> QED
      BY <2>1, <2>2
  <1>13. \A q \in ToSet(readRequests') \cup ToSet(newReadRequests') : q.pieceIndex \in completed'
    BY <1>4, <1>5 DEF ReadsInv
  <1>14. ASSUME NEW q \in ReadRequest, NEW w \in BOOLEAN, DataRead(q, w) \in ToSet(events')
         PROVE  q.pieceIndex \in completed'
    <2>1. DataRead(q, w) \in AnswersTo(q.id) /\ q.id \in ReadIds
      BY EventSets, RequestTypes
    <2>2. CASE q.id = r.id
      <3>1. DataRead(q, w) = e
        BY <1>11, <1>14, <2>1, <2>2
      <3>2. q = r
        <4>1. DataRead(q, w).request = q /\ e.request = r
          BY DEF DataRead, e
        <4> QED
          BY <3>1, <4>1
      <3> QED
        BY <1>4, <1>5, <3>2 DEF ReadsInv
    <2>3. CASE q.id # r.id
      <3>1. Untouched(AnswersTo(q.id))
        BY <1>8, <1>10, <2>1, <2>3, EventSets
      <3> QED
        BY <1>4, <1>14, <2>1, <3>1 DEF Untouched, ReadsInv
    <2> QED
      BY <2>2, <2>3
  <1>15. \A id : AnswersTo(id)' = AnswersTo(id) /\ ReadsOf(id)' = ReadsOf(id)
    BY DEF AnswersTo, ReadsOf, DataRead, ReadRequest, ReadIds, Pieces
  <1>16. \A q, w : DataRead(q, w)' = DataRead(q, w)
    BY DEF DataRead
  <1> QED
    BY <1>4, <1>12, <1>13, <1>14, <1>15, <1>16 DEF ReadsInv

(* The caller takes an event out of its queue.                             *)
LEMMA ReadsDispatched ==
    ASSUME TypeOK, ReadsInv, KnownInv, Dispatch
    PROVE  ReadsInv'
  <1> DEFINE e == Head(events)
  <1> USE DEF shared, worker, caller
  <1>1. /\ events # <<>> /\ events' = Tail(events)
        /\ UNCHANGED <<readRequests, newReadRequests, readId>>
    BY DEF Dispatch
  <1>2. /\ e \in Event /\ e \in ToSet(events) /\ ToSet(events') \subseteq ToSet(events)
        /\ \A A : e \notin A => Untouched(A)
        /\ \A A : AtMostOnce(events, A) =>
              /\ AtMostOnce(events', A)
              /\ e \in A => ToSet(events') \cap A = {} /\ ToSet(events) \cap A = {e}
    BY <1>1, TakenOut
  <1>0. \/ e.kind = "wakeUp" /\ WakeUp
        \/ e.kind = "verificationDone" /\ OnVerificationDone
        \/ e.kind = "pieceVerified" /\ OnPieceVerified(e)
        \/ e.kind = "dataRead" /\ OnDataRead(e)
        \/ e.kind = "error" /\ OnError
    BY DEF Dispatch
  <1> HIDE DEF e
  <1>3. CASE e.kind # "dataRead"
    <2>1. /\ readIds' = readIds /\ completed \subseteq completed'
          /\ pc' = pc \/ pc = "asleep"
      BY <1>0, <1>3 DEF WakeUp, WakeOne, OnVerificationDone, OnPieceVerified, OnError, KnownInv
    <2>2. \A id : e \notin AnswersTo(id)
      BY <1>3 DEF AnswersTo, DataRead
    <2>3. \A id \in ReadIds : Untouched(AnswersTo(id))
      BY <1>2, <2>2
    <2>4. newReadRequests # <<>> => pc' = pc
      BY <2>1 DEF ReadsInv
    <2> QED
      BY <1>1, <2>1, <2>3, <2>4, ReadsQuiet
  <1>4. CASE e.kind = "dataRead" /\ OnDataRead(e)
    <2> DEFINE r == e.request
    <2>1. r \in ReadRequest /\ e \in AnswersTo(r.id) /\ r.id \in ReadIds
      BY <1>2, <1>4, EventSets, RequestTypes
    <2>2. readIds' = readIds \ {r.id} /\ UNCHANGED <<pc, completed>>
      BY <1>4 DEF OnDataRead
    <2>3. \A id \in ReadIds : e \in AnswersTo(id) <=> id = r.id
      BY <2>1, EventSets
    <2> HIDE DEF r
    <2>4. ASSUME NEW id \in ReadIds
          PROVE  /\ AtMostOnce(readRequests', ReadsOf(id))
                 /\ AtMostOnce(newReadRequests', ReadsOf(id))
                 /\ AtMostOnce(events', AnswersTo(id))
                 /\ ToSet(readRequests') \cap ReadsOf(id) # {} =>
                       /\ ToSet(newReadRequests') \cap ReadsOf(id) = {}
                       /\ ToSet(events') \cap AnswersTo(id) = {}
                 /\ ToSet(newReadRequests') \cap ReadsOf(id) # {} =>
                       ToSet(events') \cap AnswersTo(id) = {}
                 /\ id \in readIds' <=> \/ ToSet(readRequests') \cap ReadsOf(id) # {}
                                        \/ ToSet(newReadRequests') \cap ReadsOf(id) # {}
                                        \/ ToSet(events') \cap AnswersTo(id) # {}
                 /\ id \in readIds' => id < readId'
      <3>1. CASE id = r.id
        <4>1. /\ AtMostOnce(events', AnswersTo(id)) /\ ToSet(events') \cap AnswersTo(id) = {}
              /\ ToSet(events) \cap AnswersTo(id) # {}
          BY <1>2, <2>3, <3>1 DEF ReadsInv
        <4> QED
          BY <1>1, <2>2, <3>1, <4>1 DEF ReadsInv
      <3>2. CASE id # r.id
        <4>1. Untouched(AnswersTo(id))
          BY <1>2, <2>3, <3>2
        <4> QED
          BY <1>1, <2>2, <3>2, <4>1 DEF ReadsInv, Untouched
      <3> QED
        BY <3>1, <3>2
    <2>5. /\ \A q \in ToSet(readRequests') \cup ToSet(newReadRequests') : q.pieceIndex \in completed'
          /\ \A q \in ReadRequest, v \in BOOLEAN :
                DataRead(q, v) \in ToSet(events') => q.pieceIndex \in completed'
          /\ pc' # "read" => newReadRequests' = <<>>
      BY <1>1, <1>2, <2>2 DEF ReadsInv
    <2>6. \A id : AnswersTo(id)' = AnswersTo(id) /\ ReadsOf(id)' = ReadsOf(id)
      BY DEF AnswersTo, ReadsOf, DataRead, ReadRequest, ReadIds, Pieces
    <2>7. \A q, v : DataRead(q, v)' = DataRead(q, v)
      BY DEF DataRead
    <2> QED
      BY <2>4, <2>5, <2>6, <2>7 DEF ReadsInv
  <1> QED
    BY <1>0, <1>3, <1>4

LEMMA ReadsStep ==
    ASSUME TypeOK, ReadsInv, KnownInv, Next
    PROVE  ReadsInv'
  <1> USE DEF shared, worker, caller
  <1>1. Silent => \A id \in ReadIds : Untouched(AnswersTo(id))
    BY SilentUntouched, EventSets
  <1>2. CASE Caller
    <2>1. CASE StartDataVerification
      <3>1. Silent /\ UNCHANGED <<readRequests, newReadRequests, readId, readIds, completed>>
            /\ (pc' = pc \/ pc = "asleep")
        BY <2>1 DEF StartDataVerification, WakeOne, Silent
      <3> QED
        BY <1>1, <3>1, ReadsQuiet DEF ReadsInv
    <2>2. ASSUME NEW p \in Pieces, NEW b \in Blocks, NEW d \in {"good", "bad"}, Write(p, b, d)
          PROVE  ReadsInv'
      <3>1. Silent /\ UNCHANGED <<readRequests, newReadRequests, readId, readIds, completed, pc>>
        BY <2>2 DEF Write, PostWakeUp, Silent
      <3> QED
        BY <1>1, <3>1, ReadsQuiet
    <2>3. ASSUME NEW p \in Pieces, VerifyPiece(p) PROVE ReadsInv'
      <3>1. Silent /\ UNCHANGED <<readRequests, newReadRequests, readId, readIds, completed, pc>>
        BY <2>3 DEF VerifyPiece, PostWakeUp, Silent
      <3> QED
        BY <1>1, <3>1, ReadsQuiet
    <2> QED
      BY <1>2, <2>1, <2>2, <2>3, ReadAsked DEF Caller
  <1>3. CASE SetQuit \/ SignalQuit \/ JoinWorker
    <2>1. Silent /\ UNCHANGED <<readRequests, newReadRequests, readId, readIds, completed>>
          /\ (pc' = pc \/ pc = "asleep")
      BY <1>3 DEF SetQuit, SignalQuit, JoinWorker, WakeOne, Silent
    <2> QED
      BY <1>1, <2>1, ReadsQuiet DEF ReadsInv
  <1>4. CASE \/ GenerateFiles \/ Check \/ Wait \/ TakeWrites \/ WriteBlock \/ EndWrites
             \/ SkipVerification \/ TakeVerifications \/ EndVerification \/ Loop
             \/ LeaveLoop \/ Flush \/ EndThread
    <2>1. UNCHANGED <<readRequests, newReadRequests, readId, readIds, completed>>
          /\ (pc # "read" \/ newReadRequests = <<>>)
      BY <1>4 DEF GenerateFiles, Check, Wait, TakeWrites, WriteBlock, EndWrites,
                  SkipVerification, TakeVerifications, EndVerification, Loop, LeaveLoop,
                  Flush, EndThread
    <2>2. Silent
      BY <1>4 DEF GenerateFiles, Check, Wait, TakeWrites, WriteBlock, EndWrites,
                  SkipVerification, TakeVerifications, EndVerification, Loop, LeaveLoop,
                  Flush, EndThread, WriteHead, Silent
    <2> QED
      BY <1>1, <2>1, <2>2, ReadsQuiet DEF ReadsInv
  <1>5. CASE VerifyAll
    <2>1. \A id \in ReadIds : Untouched(AnswersTo(id))
      BY <1>5, AllEmits, EmitsOnce, EventSets
    <2>2. UNCHANGED <<readRequests, newReadRequests, readId, readIds, completed>> /\ pc = "verify"
      BY <1>5 DEF VerifyAll
    <2> QED
      BY <2>1, <2>2, ReadsQuiet DEF ReadsInv
  <1>6. CASE VerifySinglePiece
    <2>1. PICK p \in Pieces, v \in BOOLEAN : Emits(PieceVerified(p, v))
      BY <1>6, SingleEmits
    <2>2. PieceVerified(p, v) \in Event /\ PieceVerified(p, v) \in Verdicts(p)
      BY EventTypes, EventSets
    <2>3. \A id : PieceVerified(p, v) \notin AnswersTo(id)
      BY <2>2, EventSets
    <2>4. \A id \in ReadIds : Untouched(AnswersTo(id))
      BY <2>1, <2>2, <2>3, EmitsOnce, EventSets
    <2>5. UNCHANGED <<readRequests, newReadRequests, readId, readIds, completed, pc>>
      BY <1>6 DEF VerifySinglePiece
    <2> QED
      BY <2>4, <2>5, ReadsQuiet
  <1> QED
    BY <1>2, <1>3, <1>4, <1>5, <1>6, ReadsTaken, ReadAnswered, ReadsDispatched DEF Next, Worker

(* The same for the verifications: with DiskInv, which says that each is   *)
(* in at most one place.                                                   *)
LEMMA AskedStep ==
    ASSUME DiskInv, AskedInv, Next
    PROVE  AskedInv'
  <1> USE DEF shared, worker, caller
  <1>0. TypeOK /\ VerdictsInv /\ ListsInv /\ verifying \subseteq Pieces
    BY DEF DiskInv, TypeOK
  <1>a. \A p : Verdicts(p)' = Verdicts(p)
    BY DEF Verdicts, PieceVerified
  <1>b. ASSUME UNCHANGED <<pendingVerificationRequests, newPendingVerificationRequests, verifying>>,
               \A p \in Pieces : Untouched(Verdicts(p))
        PROVE  AskedInv'
    BY <1>0, <1>a, <1>b DEF AskedInv, Named, Untouched
  <1>c. Silent => \A p \in Pieces : Untouched(Verdicts(p))
    BY <1>0, SilentUntouched, EventSets
  <1>1. ASSUME NEW p \in Pieces, VerifyPiece(p) PROVE AskedInv'
    <2>1. /\ pendingVerificationRequests \in Seq(Pieces)
          /\ pendingVerificationRequests' = Append(pendingVerificationRequests, p)
          /\ newPendingVerificationRequests' = newPendingVerificationRequests
          /\ verifying' = verifying \cup {p} /\ Silent
      BY <1>0, <1>1 DEF VerifyPiece, TypeOK, PostWakeUp, Silent
    <2>2. ToSet(pendingVerificationRequests') = ToSet(pendingVerificationRequests) \cup {p}
      BY <2>1, AppendMembers
    <2>3. Named' = Named \cup {p}
      BY <2>1, <2>2 DEF Named
    <2> QED
      BY <1>0, <1>a, <1>c, <2>1, <2>3 DEF AskedInv, Untouched
  <1>2. CASE Dispatch
    <2> DEFINE e == Head(events)
    <2>1. /\ events # <<>> /\ events' = Tail(events)
          /\ UNCHANGED <<pendingVerificationRequests, newPendingVerificationRequests>>
      BY <1>2 DEF Dispatch
    <2>2. e \in Event /\ \A A : e \notin A => Untouched(A)
      BY <1>0, <2>1, TakenOut
    <2>3. CASE e.kind # "pieceVerified"
      <3>1. verifying' = verifying
        BY <1>2, <2>3 DEF Dispatch, WakeUp, OnVerificationDone, OnDataRead, OnError
      <3>2. \A p \in Pieces : e \notin Verdicts(p)
        BY <2>2, <2>3, NoVerdicts
      <3> QED
        BY <1>b, <2>1, <2>2, <3>1, <3>2
    <2>4. CASE e.kind = "pieceVerified"
      <3>1. e.pieceIndex \in Pieces /\ verifying' = verifying \ {e.pieceIndex}
        BY <1>2, <2>2, <2>4, EventTypes DEF Dispatch, OnPieceVerified
      <3>2. e = PieceVerified(e.pieceIndex, e.verified)
        BY <2>2, <2>4, EventsDiffer
      <3>3. \A p \in Pieces \ {e.pieceIndex} : e \notin Verdicts(p)
        BY <3>2, NoVerdicts
      <3>4. \A p \in verifying' : Untouched(Verdicts(p))
        BY <1>0, <2>2, <3>1, <3>3
      <3> QED
        BY <1>0, <1>a, <2>1, <3>1, <3>4 DEF AskedInv, Named, Untouched
    <2> QED
      BY <2>3, <2>4
  <1>3. CASE TakeVerifications
    <2>1. newPendingVerificationRequests = <<>> /\ Silent /\ verifying' = verifying
          /\ newPendingVerificationRequests' = pendingVerificationRequests
      BY <1>0, <1>3 DEF TakeVerifications, ListsInv, Silent
    <2>2. Named \subseteq Named'
      BY <2>1 DEF Named, ToSet
    <2> QED
      BY <1>0, <1>a, <1>c, <2>1, <2>2 DEF AskedInv, Untouched
  <1>4. CASE VerifySinglePiece
    <2> DEFINE q == Head(newPendingVerificationRequests)
    <2>1. q \in Pieces /\ \E v \in BOOLEAN : Emits(PieceVerified(q, v))
      BY <1>0, <1>4, SingleEmits
    <2>2. PICK v \in BOOLEAN : Emits(PieceVerified(q, v))
      BY <2>1
    <2>3. PieceVerified(q, v) \in Event /\ PieceVerified(q, v) \in Verdicts(q)
      BY <2>1, EventTypes, EventSets
    <2>4. /\ UNCHANGED <<pendingVerificationRequests, verifying>>
          /\ newPendingVerificationRequests \in Seq(Pieces) /\ newPendingVerificationRequests # <<>>
          /\ newPendingVerificationRequests' = Tail(newPendingVerificationRequests)
      BY <1>0, <1>4 DEF VerifySinglePiece, TypeOK
    <2>5. \A p \in ToSet(newPendingVerificationRequests) :
            p = q \/ p \in ToSet(newPendingVerificationRequests')
      BY <2>4, TailMembers
    <2>6. ToSet(events') \cap Verdicts(q) # {}
      BY <1>0, <2>1, <2>2, <2>3, EmitsOnce, EventSets
    <2>7. \A p \in Pieces \ {q} : Untouched(Verdicts(p))
      <3>1. \A p \in Pieces \ {q} : PieceVerified(q, v) \notin Verdicts(p)
        BY <2>3, EventSets
      <3> QED
        BY <1>0, <2>2, <2>3, <3>1, EmitsOnce, EventSets
    <2>8. Named \subseteq Named' \cup {q}
      BY <2>4, <2>5 DEF Named
    <2> HIDE DEF q
    <2> QED
      BY <1>0, <1>a, <2>4, <2>6, <2>7, <2>8 DEF AskedInv, Untouched
  <1>5. CASE VerifyAll
    <2>1. \A p \in Pieces : Untouched(Verdicts(p))
      BY <1>0, <1>5, AllEmits, EmitsOnce, EventSets
    <2> QED
      BY <1>b, <1>5, <2>1 DEF VerifyAll
  <1>6. CASE ReadBlock
    <2>1. PICK r \in ReadRequest, v \in BOOLEAN : Emits(DataRead(r, v))
      BY <1>0, <1>6, ReadEmits
    <2>2. DataRead(r, v) \in Event /\ \A p : DataRead(r, v) \notin Verdicts(p)
      BY EventTypes, NoVerdicts
    <2>3. \A p \in Pieces : Untouched(Verdicts(p))
      BY <1>0, <2>1, <2>2, EmitsOnce, EventSets
    <2> QED
      BY <1>b, <1>6, <2>3 DEF ReadBlock
  <1>7. CASE ~\/ \E p \in Pieces : VerifyPiece(p)
              \/ Dispatch \/ TakeVerifications \/ VerifySinglePiece \/ VerifyAll \/ ReadBlock
    <2>1. UNCHANGED <<pendingVerificationRequests, newPendingVerificationRequests, verifying>>
      BY <1>7 DEF Next, Caller, StartDataVerification, Read, Write, SetQuit, SignalQuit,
              JoinWorker, Worker, GenerateFiles, Check, Wait, TakeReads, TakeWrites,
              WriteBlock, EndWrites, SkipVerification, EndVerification, Loop, LeaveLoop,
              Flush, EndThread
    <2> QED
      BY <1>b, <1>c, <1>7, <2>1, SilentSteps
  <1> QED
    BY <1>1, <1>2, <1>3, <1>4, <1>5, <1>6, <1>7

(* How often members of a set stand in a queue that holds one at most.     *)
LEMMA Counted ==
    ASSUME NEW S, NEW s \in Seq(S), NEW A, AtMostOnce(s, A)
    PROVE  Cardinality({i \in DOMAIN s : s[i] \in A}) = IF ToSet(s) \cap A = {} THEN 0 ELSE 1
  <1> DEFINE I == {i \in DOMAIN s : s[i] \in A}
  <1>1. CASE ToSet(s) \cap A = {}
    <2>1. I = {}
      BY <1>1 DEF ToSet
    <2> QED
      BY <1>1, <2>1, FS_EmptySet
  <1>2. CASE ToSet(s) \cap A # {}
    <2>1. PICK i \in DOMAIN s : s[i] \in A
      BY <1>2 DEF ToSet
    <2>2. I = {i}
      BY <2>1 DEF AtMostOnce
    <2>3. Cardinality({i}) = 1
      BY FS_Singleton
    <2> QED
      BY <1>2, <2>2, <2>3
  <1> QED
    BY <1>1, <1>2

LEMMA AnswersCounted ==
    ASSUME DiskInv, ReadsInv, AskedInv
    PROVE  OneAnswerEach
  <1>0. TypeOK /\ VerdictsInv /\ ListsInv
    BY DEF DiskInv
  <1>1. ASSUME NEW p \in Pieces
        PROVE  VerdictsUnderWay(p) = IF p \in verifying THEN 1 ELSE 0
    <2> DEFINE a == ToSet(pendingVerificationRequests)
               b == ToSet(newPendingVerificationRequests)
               t == PieceVerified(p, TRUE)
               f == PieceVerified(p, FALSE)
    <2>1. ASSUME NEW S, NEW s \in Seq(S), NEW x, AtMostOnce(s, {x})
          PROVE  Occurrences(s, x) = IF x \in ToSet(s) THEN 1 ELSE 0
      <3>1. {i \in DOMAIN s : s[i] \in {x}} = {i \in DOMAIN s : s[i] = x}
        OBVIOUS
      <3>2. ToSet(s) \cap {x} = {} <=> x \notin ToSet(s)
        OBVIOUS
      <3>3. Cardinality({i \in DOMAIN s : s[i] \in {x}}) = IF ToSet(s) \cap {x} = {} THEN 0 ELSE 1
        BY <2>1, Counted
      <3> QED
        BY <3>1, <3>2, <3>3 DEF Occurrences
    <2>2. /\ AtMostOnce(pendingVerificationRequests, {p})
          /\ AtMostOnce(newPendingVerificationRequests, {p})
          /\ AtMostOnce(events, Verdicts(p))
      BY <1>0 DEF VerdictsInv
    <2>3. AtMostOnce(events, {t}) /\ AtMostOnce(events, {f})
      BY <2>2 DEF AtMostOnce, Verdicts
    <2>4. t # f
      BY VerdictsDiffer
    <2> HIDE DEF t, f
    <2>5. ~(t \in ToSet(events) /\ f \in ToSet(events))
      <3> SUFFICES ASSUME t \in ToSet(events), f \in ToSet(events) PROVE FALSE
        OBVIOUS
      <3>1. PICK i \in DOMAIN events : events[i] = t
        BY DEF ToSet
      <3>2. PICK j \in DOMAIN events : events[j] = f
        BY DEF ToSet
      <3> QED
        BY <2>2, <2>4, <3>1, <3>2 DEF AtMostOnce, Verdicts, t, f
    <2>6. /\ Occurrences(pendingVerificationRequests, p) = IF p \in a THEN 1 ELSE 0
          /\ Occurrences(newPendingVerificationRequests, p) = IF p \in b THEN 1 ELSE 0
          /\ Occurrences(events, t) = IF t \in ToSet(events) THEN 1 ELSE 0
          /\ Occurrences(events, f) = IF f \in ToSet(events) THEN 1 ELSE 0
      BY <1>0, <2>1, <2>2, <2>3 DEF TypeOK
    <2>7. ~(p \in a /\ p \in b)
      BY <1>0 DEF ListsInv, ToSet
    <2>8. p \in a \cup b => p \in verifying /\ t \notin ToSet(events) /\ f \notin ToSet(events)
      BY <1>0 DEF VerdictsInv, Named, Verdicts, t, f
    <2>9. t \in ToSet(events) \/ f \in ToSet(events) => p \in verifying
      BY <1>0 DEF VerdictsInv, Verdicts, t, f
    <2>10. p \in verifying => p \in a \cup b \/ t \in ToSet(events) \/ f \in ToSet(events)
      BY DEF AskedInv, Named, Verdicts, t, f
    <2> HIDE DEF a, b
    <2>11. VerdictsUnderWay(p) = (IF p \in a THEN 1 ELSE 0) + (IF p \in b THEN 1 ELSE 0)
                                   + (IF t \in ToSet(events) THEN 1 ELSE 0)
                                   + (IF f \in ToSet(events) THEN 1 ELSE 0)
      BY <2>6 DEF VerdictsUnderWay, t, f
    <2> QED
      BY <2>5, <2>7, <2>8, <2>9, <2>10, <2>11
  <1>2. ASSUME NEW id \in ReadIds
        PROVE  AnswersUnderWay(id) = IF id \in readIds THEN 1 ELSE 0
    <2> DEFINE a == ToSet(readRequests) \cap ReadsOf(id)
               b == ToSet(newReadRequests) \cap ReadsOf(id)
               c == ToSet(events) \cap AnswersTo(id)
    <2>1. ASSUME NEW s \in Seq(ReadRequest)
          PROVE  {i \in DOMAIN s : s[i].id = id} = {i \in DOMAIN s : s[i] \in ReadsOf(id)}
      <3>1. \A i \in DOMAIN s : s[i] \in ReadRequest
        OBVIOUS
      <3> QED
        BY <3>1 DEF ReadsOf
    <2>2. {i \in DOMAIN events : events[i].kind = "dataRead" /\ events[i].request.id = id}
            = {i \in DOMAIN events : events[i] \in AnswersTo(id)}
      <3>1. \A i \in DOMAIN events : events[i] \in Event
        BY <1>0 DEF TypeOK
      <3>2. \A e \in Event : e.kind = "dataRead" /\ e.request.id = id => e \in AnswersTo(id)
        BY EventSets
      <3>3. \A e \in AnswersTo(id) : e.kind = "dataRead" /\ e.request.id = id
        BY DEF AnswersTo, ReadsOf, DataRead
      <3> QED
        BY <3>1, <3>2, <3>3
    <2>3. /\ Cardinality({i \in DOMAIN readRequests : readRequests[i].id = id})
               = IF a = {} THEN 0 ELSE 1
          /\ Cardinality({i \in DOMAIN newReadRequests : newReadRequests[i].id = id})
               = IF b = {} THEN 0 ELSE 1
          /\ Cardinality({i \in DOMAIN events : /\ events[i].kind = "dataRead"
                                                /\ events[i].request.id = id})
               = IF c = {} THEN 0 ELSE 1
      <3>1. /\ readRequests \in Seq(ReadRequest) /\ newReadRequests \in Seq(ReadRequest)
            /\ events \in Seq(Event)
            /\ AtMostOnce(readRequests, ReadsOf(id)) /\ AtMostOnce(newReadRequests, ReadsOf(id))
            /\ AtMostOnce(events, AnswersTo(id))
        BY <1>0 DEF TypeOK, ReadsInv
      <3> QED
        BY <2>1, <2>2, <3>1, Counted
    <2>4. /\ a # {} => b = {} /\ c = {}
          /\ b # {} => c = {}
          /\ id \in readIds <=> a # {} \/ b # {} \/ c # {}
      BY DEF ReadsInv
    <2> HIDE DEF a, b, c
    <2>5. AnswersUnderWay(id) = (IF a = {} THEN 0 ELSE 1) + (IF b = {} THEN 0 ELSE 1)
                                  + (IF c = {} THEN 0 ELSE 1)
      BY <2>3 DEF AnswersUnderWay
    <2> QED
      BY <2>4, <2>5
  <1> QED
    BY <1>1, <1>2 DEF OneAnswerEach

-----------------------------------------------------------------------------
(* The file and what the caller wrote.                                     *)

(* A failure is never forgotten.                                           *)
LEMMA FailuresKept ==
    ASSUME TypeOK, Next
    PROVE  ioErrors \in Nat /\ ioErrors' \in Nat /\ ioErrors' >= ioErrors /\ (quit => quit')
  <1> USE DEF shared, worker, caller
  <1>1. ioErrors \in Nat
    BY FMAssumption DEF TypeOK
  <1>2. CASE VerifyAll
    <2>1. PICK unreadable \in SUBSET Pieces : ioErrors' = ioErrors + Cardinality(unreadable)
      BY <1>2 DEF VerifyAll
    <2>2. IsFiniteSet(unreadable)
      <3>1. IsFiniteSet(Pieces)
        BY FMAssumption, FS_Interval DEF Pieces
      <3> QED
        BY <3>1, FS_Subset
    <2>3. Cardinality(unreadable) \in Nat
      BY <2>2, FS_CardinalityType
    <2> QED
      BY <1>1, <1>2, <2>1, <2>3 DEF VerifyAll
  <1>3. CASE ~VerifyAll
    <2>1. ioErrors' \in {ioErrors, ioErrors + 1}
      BY <1>3 DEF Next, Caller, StartDataVerification, Read, Write, VerifyPiece, Dispatch, SetQuit,
              SignalQuit, JoinWorker, Worker, GenerateFiles, Check, Wait, TakeReads, ReadBlock,
              TakeWrites, WriteBlock, EndWrites, SkipVerification, TakeVerifications,
              VerifySinglePiece, EndVerification, Loop, LeaveLoop, Flush, EndThread, WriteHead
    <2>2. quit => quit'
      BY <1>3 DEF Next, Caller, StartDataVerification, Read, Write, VerifyPiece, Dispatch, SetQuit,
              SignalQuit, JoinWorker, Worker, GenerateFiles, Check, Wait, TakeReads, ReadBlock,
              TakeWrites, WriteBlock, EndWrites, SkipVerification, TakeVerifications,
              VerifySinglePiece, EndVerification, Loop, LeaveLoop, Flush, EndThread, WriteHead
    <2> QED
      BY <1>1, <2>1, <2>2
  <1> QED
    BY <1>2, <1>3

(* The report of the first verification is posted by VerifyAll, and taken  *)
(* out by the caller; until then nothing is written or named.              *)
LEMMA BegunEvents ==
    ASSUME DiskInv, BegunInv, Next
    PROVE  /\ AtMostOnce(events', {VerificationDone})
           /\ VerificationDone \in ToSet(events') => phase' # "ready"
           /\ pc' = "generateFiles" => phase' # "ready" /\ events' = <<>>
           /\ ~VerifyAll /\ phase' # "ready" =>
                 (VerificationDone \in ToSet(events') <=> VerificationDone \in ToSet(events))
           /\ phase' # "ready" => phase # "ready"
  <1> USE DEF shared, worker, caller
  <1>0. TypeOK /\ FirstInv /\ KnownInv
    BY DEF DiskInv
  <1>a. {VerificationDone} \cap Noise = {}
    BY EventSets
  <1>b. Untouched({VerificationDone}) =>
          /\ AtMostOnce(events', {VerificationDone})
          /\ VerificationDone \in ToSet(events') <=> VerificationDone \in ToSet(events)
    BY DEF Untouched, BegunInv
  <1>1. CASE Dispatch
    <2> DEFINE e == Head(events)
    <2>1. /\ events # <<>> /\ events' = Tail(events)
      BY <1>1 DEF Dispatch
    <2>2. /\ e \in Event
          /\ \A A : e \notin A => Untouched(A)
          /\ \A A : AtMostOnce(events, A) =>
                /\ AtMostOnce(events', A)
                /\ e \in A => ToSet(events') \cap A = {}
      BY <1>0, <2>1, TakenOut
    <2>3. CASE e.kind = "verificationDone"
      <3>1. e = VerificationDone
        BY <2>2, <2>3, NoVerdicts
      <3>2. phase' = "ready" /\ pc' = pc
        BY <1>1, <2>3 DEF Dispatch, OnVerificationDone
      <3>3. AtMostOnce(events', {VerificationDone}) /\ VerificationDone \notin ToSet(events')
        BY <2>2, <3>1 DEF BegunInv
      <3> QED
        BY <2>1, <3>2, <3>3 DEF BegunInv
    <2>4. CASE e.kind # "verificationDone"
      <3>1. e # VerificationDone
        BY <2>4 DEF VerificationDone
      <3>2. phase' = phase /\ (pc' = pc \/ (pc = "asleep" /\ pc' = "woken"))
        <4>1. \/ WakeUp \/ OnPieceVerified(e) \/ OnDataRead(e) \/ OnError
          BY <1>1, <2>4 DEF Dispatch
        <4> HIDE DEF e
        <4> QED
          BY <4>1 DEF WakeUp, WakeOne, OnPieceVerified, OnDataRead, OnError
      <3>3. Untouched({VerificationDone})
        BY <2>2, <3>1
      <3> QED
        BY <1>b, <2>1, <3>2, <3>3 DEF BegunInv
    <2> QED
      BY <2>3, <2>4
  <1>2. CASE VerifyAll
    <2>1. phase = "preparing" /\ VerificationDone \notin ToSet(events) /\ phase' = phase
          /\ pc' # "generateFiles"
      BY <1>0, <1>2 DEF VerifyAll, FirstInv
    <2>2. /\ VerificationDone \in Event /\ Emits(VerificationDone)
          /\ AtMostOnce(events, {VerificationDone}) /\ ToSet(events) \cap {VerificationDone} = {}
      BY <1>0, <1>2, <2>1, AllEmits DEF BegunInv
    <2>3. AtMostOnce(events', {VerificationDone})
      BY <1>0, <1>a, <2>2, EmitsOnce
    <2> QED
      BY <1>2, <2>1, <2>3
  <1>3. CASE ~Dispatch /\ ~VerifyAll
    <2>1. Untouched({VerificationDone})
      <3>1. CASE ReadBlock
        <4>1. PICK r \in ReadRequest, v \in BOOLEAN : Emits(DataRead(r, v))
          BY <1>0, <3>1, ReadEmits
        <4>2. DataRead(r, v) \in Event /\ DataRead(r, v) # VerificationDone
          BY EventTypes, EventsDiffer
        <4> QED
          BY <1>0, <1>a, <4>1, <4>2, EmitsOnce
      <3>2. CASE VerifySinglePiece
        <4>1. PICK p \in Pieces, v \in BOOLEAN : Emits(PieceVerified(p, v))
          BY <1>0, <3>2, SingleEmits
        <4>2. PieceVerified(p, v) \in Event /\ PieceVerified(p, v) # VerificationDone
          BY EventTypes, EventsDiffer
        <4> QED
          BY <1>0, <1>a, <4>1, <4>2, EmitsOnce
      <3> QED
        BY <1>0, <1>a, <1>3, <3>1, <3>2, SilentSteps, SilentUntouched
    <2>2. phase' = phase \/ (phase = "start" /\ phase' = "preparing" /\ events' = events)
      BY <1>3 DEF Next, Caller, StartDataVerification, Read, Write, VerifyPiece, SetQuit,
              SignalQuit, JoinWorker, Worker, GenerateFiles, Check, Wait, TakeReads, ReadBlock,
              TakeWrites, WriteBlock, EndWrites, SkipVerification, TakeVerifications,
              VerifySinglePiece, EndVerification, Loop, LeaveLoop, Flush, EndThread
    <2>3. pc' = "generateFiles" => pc = "generateFiles" /\ ~Worker
      BY <1>3 DEF Next, Caller, StartDataVerification, Read, Write, VerifyPiece, SetQuit,
              SignalQuit, JoinWorker, Worker, GenerateFiles, Check, Wait, TakeReads, ReadBlock,
              TakeWrites, WriteBlock, EndWrites, SkipVerification, TakeVerifications,
              VerifySinglePiece, EndVerification, Loop, LeaveLoop, Flush, EndThread, WakeOne
    <2>4. phase # "ready" /\ ~Worker => events' = events
      <3>1. completed = {} \/ phase = "ready"
        BY <1>0 DEF FirstInv
      <3> QED
        BY <1>3, <3>1 DEF Next, Caller, StartDataVerification, Read, Write, VerifyPiece, SetQuit,
              SignalQuit, JoinWorker
    <2> QED
      BY <1>b, <2>1, <2>2, <2>3, <2>4 DEF BegunInv
  <1> QED
    BY <1>1, <1>2, <1>3

LEMMA BegunStep ==
    ASSUME DiskInv, BegunInv, Next
    PROVE  BegunInv'
  <1> USE DEF shared, worker, caller
  <1>0. TypeOK /\ FirstInv /\ VerdictsInv /\ KnownInv /\ ListsInv
    BY DEF DiskInv
  <1>1. Healthy' => Healthy
    BY <1>0, FailuresKept DEF Healthy
  <1>2. ASSUME phase' # "ready"
        PROVE  /\ content' = [p \in Pieces |-> Uniform("none")]
               /\ newFile' => disk' = [p \in Pieces |-> Uniform("none")]
               /\ VerificationDone \notin ToSet(events') => verifiedPieces' = {}
               /\ VerificationDone \in ToSet(events') /\ Healthy' =>
                     verifiedPieces' = {p \in Pieces : disk'[p] = Uniform("good")}
    <2>1. phase # "ready"
      BY <1>2, BegunEvents
    <2>2. /\ content = [p \in Pieces |-> Uniform("none")]
          /\ newFile => disk = [p \in Pieces |-> Uniform("none")]
          /\ VerificationDone \notin ToSet(events) => verifiedPieces = {}
          /\ VerificationDone \in ToSet(events) /\ Healthy =>
                verifiedPieces = {p \in Pieces : Intact(p)}
          /\ newWriteRequests = <<>> /\ newPendingVerificationRequests = <<>>
      BY <1>0, <2>1 DEF BegunInv, FirstInv
    <2>3. content' = content
      <3>1. CASE Dispatch
        <4>1. CASE Head(events).kind = "pieceVerified"
          <5>1. /\ Head(events) \in Event /\ Head(events) \in ToSet(events)
            BY <1>0, <3>1, TailMembers DEF Dispatch, TypeOK
          <5>2. /\ Head(events).pieceIndex \in Pieces
                /\ Head(events) \in Verdicts(Head(events).pieceIndex)
            BY <4>1, <5>1, EventTypes, EventsDiffer, EventSets
          <5> QED
            BY <1>0, <2>1, <5>1, <5>2 DEF VerdictsInv, FirstInv
        <4> QED
          BY <3>1, <4>1 DEF Dispatch, WakeUp, OnVerificationDone, OnDataRead, OnError
      <3>2. CASE ~Dispatch
        BY <2>1, <3>2 DEF Next, Caller, StartDataVerification, Read, Write, VerifyPiece, SetQuit,
              SignalQuit, JoinWorker, Worker, GenerateFiles, Check, Wait, TakeReads, ReadBlock,
              TakeWrites, WriteBlock, EndWrites, SkipVerification, TakeVerifications, VerifyAll,
              VerifySinglePiece, EndVerification, Loop, LeaveLoop, Flush, EndThread
      <3> QED
        BY <3>1, <3>2
    <2>4. CASE GenerateFiles
      <3>1. events = <<>> /\ UNCHANGED verifiedPieces
        BY <2>4 DEF GenerateFiles, BegunInv
      <3>2. VerificationDone \notin ToSet(events)
        BY <3>1 DEF ToSet
      <3>3. VerificationDone \notin ToSet(events')
        BY <1>2, <2>4, <3>2, BegunEvents DEF GenerateFiles, VerifyAll
      <3>4. newFile' => disk' = [p \in Pieces |-> Uniform("none")]
        BY <2>2, <2>4 DEF GenerateFiles
      <3> QED
        BY <2>2, <2>3, <3>1, <3>2, <3>3, <3>4
    <2>5. CASE VerifyAll
      <3>1. VerificationDone \notin ToSet(events) /\ verifiedPieces = {}
        BY <1>0, <2>2, <2>5 DEF VerifyAll, FirstInv
      <3>2. VerificationDone \in ToSet(events')
        <4>1. VerificationDone \in Event /\ Emits(VerificationDone)
              /\ {VerificationDone} \cap Noise = {}
          BY <1>0, <2>5, AllEmits, EventSets
        <4>2. ToSet(events') \cap {VerificationDone}
                = (ToSet(events) \cap {VerificationDone}) \cup {VerificationDone}
          BY <1>0, <4>1, EmitsOnce
        <4> QED
          BY <4>2
      <3>3. UNCHANGED <<newFile, disk, quit>>
        BY <2>5 DEF VerifyAll
      <3>4. ASSUME Healthy' PROVE verifiedPieces' = {p \in Pieces : disk[p] = Uniform("good")}
        <4>1. PICK unreadable \in SUBSET Pieces :
                /\ ioErrors' = ioErrors + Cardinality(unreadable)
                /\ verifiedPieces' = IF newFile \/ quit \/ verifiedPieces # {} THEN verifiedPieces
                                     ELSE {p \in Pieces \ unreadable : Intact(p)}
          BY <2>5 DEF VerifyAll
        <4>2. IsFiniteSet(unreadable)
          <5>1. IsFiniteSet(Pieces)
            BY FMAssumption, FS_Interval DEF Pieces
          <5> QED
            BY <5>1, FS_Subset
        <4>3. unreadable = {}
          <5>1. Cardinality(unreadable) \in Nat /\ ioErrors = 0 /\ ioErrors' = 0
            BY <1>1, <3>4, <4>2, FS_CardinalityType DEF Healthy
          <5>2. Cardinality(unreadable) = 0
            BY <4>1, <5>1
          <5> QED
            BY <4>2, <5>2, FS_EmptySet
        <4>4. CASE newFile
          <5>1. 0 \in Blocks
            BY FMAssumption DEF Blocks
          <5>2. Uniform("none") # Uniform("good")
            <6>1. Uniform("none")[0] = "none" /\ Uniform("good")[0] = "good"
              BY <5>1 DEF Uniform
            <6> QED
              BY <6>1
          <5>3. {p \in Pieces : disk[p] = Uniform("good")} = {}
            BY <2>2, <4>4, <5>2
          <5> QED
            BY <3>1, <4>1, <4>4, <5>3
        <4>5. CASE ~newFile
          <5>1. ~quit
            BY <1>1, <3>4 DEF Healthy
          <5> QED
            BY <3>1, <4>1, <4>3, <4>5, <5>1 DEF Intact
        <4> QED
          BY <4>4, <4>5
      <3> QED
        BY <2>2, <2>3, <3>2, <3>3, <3>4
    <2>6. CASE ~GenerateFiles /\ ~VerifyAll
      <3>1. UNCHANGED <<newFile, disk, verifiedPieces>>
        BY <2>2, <2>6 DEF Next, Caller, StartDataVerification, Read, Write, VerifyPiece, Dispatch,
              SetQuit, SignalQuit, JoinWorker, Worker, Check, Wait, TakeReads, ReadBlock,
              TakeWrites, WriteBlock, EndWrites, SkipVerification, TakeVerifications,
              VerifySinglePiece, EndVerification, Loop, LeaveLoop, Flush, EndThread, WriteHead
      <3>2. VerificationDone \in ToSet(events') <=> VerificationDone \in ToSet(events)
        BY <1>2, <2>6, BegunEvents
      <3> QED
        BY <1>1, <2>2, <2>3, <3>1, <3>2 DEF Intact
    <2> QED
      BY <2>4, <2>5, <2>6
  <1>3. Uniform("none")' = Uniform("none") /\ Uniform("good")' = Uniform("good") /\ Pieces' = Pieces
        /\ VerificationDone' = VerificationDone
    BY DEF Uniform, Pieces, VerificationDone, Blocks
  <1> QED
    BY <1>2, <1>3, BegunEvents DEF BegunInv, Intact

(* Which reports a step adds: those of ReadBlock and VerifySinglePiece.    *)
LEMMA ReportsOfStep ==
    ASSUME TypeOK, Next
    PROVE  /\ ~ReadBlock /\ ~VerifySinglePiece => ToSet(events') \cap Reports \subseteq ToSet(events)
           /\ ~Dispatch /\ ~ReadBlock /\ ~VerifySinglePiece => Untouched(Reports)
           /\ ~VerifySinglePiece =>
                 \A p \in Pieces : ToSet(events') \cap Verdicts(p) \subseteq ToSet(events)
           /\ ~ReadBlock =>
                 \A r \in ReadRequest, v \in BOOLEAN :
                    DataRead(r, v) \in ToSet(events') => DataRead(r, v) \in ToSet(events)
  <1>1. \A p \in Pieces : Verdicts(p) \subseteq Reports
    <2>1. ASSUME NEW p \in Pieces
          PROVE  PieceVerified(p, TRUE) \in Reports /\ PieceVerified(p, FALSE) \in Reports
      BY EventSets
    <2> QED
      BY <2>1 DEF Verdicts
  <1>2. ~Dispatch /\ ~ReadBlock /\ ~VerifySinglePiece => Untouched(Reports)
    BY SilentSteps, SilentUntouched, AllEmits, EmitsOnce, EventSets
  <1>3. CASE Dispatch
    <2>1. ToSet(events') \subseteq ToSet(events)
      BY <1>3, TakenOut DEF Dispatch
    <2> QED
      BY <1>2, <2>1
  <1>4. CASE ReadBlock
    <2>1. PICK r \in ReadRequest, v \in BOOLEAN : Emits(DataRead(r, v))
      BY <1>4, ReadEmits
    <2>2. DataRead(r, v) \in Event /\ \A p : DataRead(r, v) \notin Verdicts(p)
      BY EventTypes, NoVerdicts
    <2>3. \A p \in Pieces : Untouched(Verdicts(p))
      BY <2>1, <2>2, EmitsOnce, EventSets
    <2>4. \A p \in Pieces : ToSet(events') \cap Verdicts(p) \subseteq ToSet(events)
      BY <2>3 DEF Untouched
    <2> QED
      BY <1>4, <2>4
  <1>5. CASE VerifySinglePiece
    <2>1. PICK p \in Pieces, v \in BOOLEAN : Emits(PieceVerified(p, v))
      BY <1>5, SingleEmits
    <2>2. PieceVerified(p, v) \in Event /\ PieceVerified(p, v) \in Verdicts(p)
      BY EventTypes, EventSets
    <2>3. \A id : Untouched(AnswersTo(id))
      BY <2>1, <2>2, EmitsOnce, EventSets
    <2>4. \A r \in ReadRequest, w \in BOOLEAN :
            DataRead(r, w) \in ToSet(events') => DataRead(r, w) \in ToSet(events)
      BY <2>3, EventSets DEF Untouched
    <2> QED
      BY <1>5, <2>4
  <1>6. CASE ~Dispatch /\ ~ReadBlock /\ ~VerifySinglePiece
    <2>1. ToSet(events') \cap Reports \subseteq ToSet(events)
      BY <1>2, <1>6 DEF Untouched
    <2>2. \A r \in ReadRequest, v \in BOOLEAN : DataRead(r, v) \in Reports
      BY EventSets
    <2> QED
      BY <1>1, <1>2, <1>6, <2>1, <2>2
  <1> QED
    BY <1>3, <1>4, <1>5, <1>6

(* The first write of the worker's list is carried out, or fails.          *)
LEMMA HeadWritten ==
    ASSUME TypeOK, WriteHead, writeRequests' = writeRequests
    PROVE  LET w == Head(newWriteRequests) IN
           /\ w \in WriteRequest /\ w \in Writes
           /\ Writes' \subseteq Writes /\ Writes \subseteq Writes' \cup {w}
           /\ disk' = Written(w) \/ (disk' = disk /\ ~quit /\ ioErrors' = ioErrors + 1)
  <1>1. /\ newWriteRequests # <<>> /\ newWriteRequests \in Seq(WriteRequest)
        /\ newWriteRequests' = Tail(newWriteRequests)
    BY DEF WriteHead, TypeOK
  <1> DEFINE w == Head(newWriteRequests)
  <1>2. /\ w \in WriteRequest /\ w \in ToSet(newWriteRequests)
        /\ ToSet(newWriteRequests') \subseteq ToSet(newWriteRequests)
        /\ \A x \in ToSet(newWriteRequests) : x = w \/ x \in ToSet(newWriteRequests')
    BY <1>1, TailMembers
  <1>3. disk' = Written(w) \/ (disk' = disk /\ ~quit /\ ioErrors' = ioErrors + 1)
    BY DEF WriteHead
  <1> HIDE DEF w
  <1>4. w \in WriteRequest /\ w \in Writes /\ Writes' \subseteq Writes /\ Writes \subseteq Writes' \cup {w}
    BY <1>2 DEF Writes
  <1> QED
    BY <1>3, <1>4 DEF w

(* The steps that add no write.                                            *)
LEMMA WritesOfStep ==
    ASSUME DiskInv, Next
    PROVE  /\ (\A p \in Pieces, b \in Blocks, d \in {"good", "bad"} : ~Write(p, b, d)) =>
                 Writes' \subseteq Writes
           /\ \/ Writes' = Writes \/ WriteBlock \/ Flush \/ (EndWrites /\ quit)
              \/ \E p \in Pieces, b \in Blocks, d \in {"good", "bad"} : Write(p, b, d)
  <1> USE DEF shared, worker, caller
  <1>0. TypeOK /\ ListsInv
    BY DEF DiskInv
  <1>1. ToSet(<<>>) = {}
    BY DEF ToSet
  <1>2. CASE WriteBlock \/ Flush
    <2>1. WriteHead /\ writeRequests' = writeRequests
      BY <1>2 DEF WriteBlock, Flush
    <2> QED
      BY <1>0, <1>2, <2>1, HeadWritten
  <1>3. CASE TakeWrites \/ LeaveLoop
    <2>1. newWriteRequests = <<>> /\ newWriteRequests' = writeRequests /\ writeRequests' = <<>>
      BY <1>0, <1>3 DEF TakeWrites, LeaveLoop, ListsInv
    <2>2. Writes' = Writes
      BY <1>1, <2>1 DEF Writes
    <2> QED
      BY <2>2
  <1>4. CASE EndWrites
    <2>1. Writes' \subseteq Writes /\ (quit \/ Writes' = Writes)
      BY <1>1, <1>4 DEF EndWrites, Writes
    <2> QED
      BY <1>4, <2>1
  <1>5. CASE ~\/ WriteBlock \/ Flush \/ TakeWrites \/ LeaveLoop \/ EndWrites
              \/ \E p \in Pieces, b \in Blocks, d \in {"good", "bad"} : Write(p, b, d)
    <2>1. UNCHANGED <<writeRequests, newWriteRequests>>
      BY <1>5 DEF Next, Caller, StartDataVerification, Read, VerifyPiece, Dispatch, SetQuit,
              SignalQuit, JoinWorker, Worker, GenerateFiles, Check, Wait, TakeReads, ReadBlock,
              SkipVerification, TakeVerifications, VerifyAll, VerifySinglePiece, EndVerification,
              Loop, EndThread
    <2> QED
      BY <2>1 DEF Writes
  <1>6. CASE \E p \in Pieces, b \in Blocks, d \in {"good", "bad"} : Write(p, b, d)
    BY <1>6
  <1> QED
    BY <1>2, <1>3, <1>4, <1>5, <1>6

(* What a step does to what the caller wrote: a block more, or a rejected  *)
(* piece less.                                                             *)
LEMMA ContentOfStep ==
    ASSUME TypeOK, Next
    PROVE  \/ content' = content
           \/ \E p \in Pieces, b \in Blocks, d \in {"good", "bad"} : Write(p, b, d)
           \/ \E p \in Pieces :
                 /\ Dispatch /\ Head(events) = PieceVerified(p, FALSE)
                 /\ PieceVerified(p, FALSE) \in ToSet(events)
                 /\ content' = [content EXCEPT ![p] = Uniform("none")]
  <1> USE DEF shared, worker, caller
  <1>1. CASE Dispatch
    <2> DEFINE e == Head(events)
    <2>1. e \in Event /\ e \in ToSet(events)
      BY <1>1, TailMembers DEF Dispatch, TypeOK
    <2>2. \/ e.kind = "pieceVerified" /\ OnPieceVerified(e)
          \/ WakeUp \/ OnVerificationDone \/ OnDataRead(e) \/ OnError
      BY <1>1 DEF Dispatch
    <2> HIDE DEF e
    <2>3. CASE WakeUp \/ OnVerificationDone \/ OnDataRead(e) \/ OnError
      BY <2>3 DEF WakeUp, OnVerificationDone, OnDataRead, OnError
    <2>4. CASE e.kind = "pieceVerified" /\ OnPieceVerified(e)
      <3>1. /\ e.pieceIndex \in Pieces /\ e.verified \in BOOLEAN
            /\ e = PieceVerified(e.pieceIndex, e.verified)
        BY <2>1, <2>4, EventTypes, EventsDiffer
      <3>2. CASE e.verified
        BY <2>4, <3>2 DEF OnPieceVerified
      <3>3. CASE e.verified = FALSE
        <4>1. Head(events) = PieceVerified(e.pieceIndex, FALSE) /\ Dispatch
          BY <1>1, <3>1, <3>3 DEF e
        <4>2. PieceVerified(e.pieceIndex, FALSE) \in ToSet(events)
          BY <2>1, <4>1 DEF e
        <4>3. content' = [content EXCEPT ![e.pieceIndex] = Uniform("none")]
          BY <2>4, <3>3 DEF OnPieceVerified
        <4> QED
          BY <3>1, <4>1, <4>2, <4>3
      <3> QED
        BY <3>1, <3>2, <3>3
    <2> QED
      BY <2>2, <2>3, <2>4
  <1>2. CASE ~Dispatch
    BY <1>2 DEF Next, Caller, StartDataVerification, Read, VerifyPiece, SetQuit,
              SignalQuit, JoinWorker, Worker, GenerateFiles, Check, Wait, TakeReads, ReadBlock,
              TakeWrites, WriteBlock, EndWrites, LeaveLoop, Flush,
              SkipVerification, TakeVerifications, VerifyAll, VerifySinglePiece, EndVerification,
              Loop, EndThread
  <1> QED
    BY <1>1, <1>2

(* Two pieces, or two blocks, of what the caller wrote.                    *)
LEMMA OneBlockChanged ==
    ASSUME NEW c \in [Pieces -> [Blocks -> Data]], NEW p \in Pieces, NEW b \in Blocks, NEW d
    PROVE  /\ \A q \in Pieces, a \in Blocks :
                 [c EXCEPT ![p][b] = d][q][a] = IF q = p /\ a = b THEN d ELSE c[q][a]
           /\ \A q \in Pieces \ {p} : [c EXCEPT ![p][b] = d][q] = c[q]
  OBVIOUS

LEMMA WritesStep ==
    ASSUME DiskInv, WritesInv, Next
    PROVE  WritesInv'
  <1> USE DEF shared, worker, caller
  <1>0. /\ TypeOK /\ VerdictsInv /\ ListsInv
        /\ content \in [Pieces -> [Blocks -> Data]] /\ Writes \subseteq WriteRequest
    <2>1. /\ writeRequests \in Seq(WriteRequest) /\ newWriteRequests \in Seq(WriteRequest)
          /\ content \in [Pieces -> [Blocks -> Data]]
      BY DEF DiskInv, TypeOK
    <2>2. \A s \in Seq(WriteRequest) : ToSet(s) \subseteq WriteRequest
      BY DEF ToSet
    <2> QED
      BY <2>1, <2>2 DEF DiskInv, Writes
  <1>a. \A p : Verdicts(p)' = Verdicts(p)
    BY DEF Verdicts, PieceVerified
  <1>1. ASSUME NEW p \in Pieces, NEW b \in Blocks, NEW d \in {"good", "bad"}, Write(p, b, d)
        PROVE  WritesInv'
    <2> DEFINE w == [pieceIndex |-> p, offset |-> b, data |-> d]
    <2>1. /\ content' = [content EXCEPT ![p][b] = d] /\ content[p][b] = "none"
          /\ writeRequests \in Seq(WriteRequest) /\ writeRequests' = Append(writeRequests, w)
          /\ newWriteRequests' = newWriteRequests /\ Silent
      BY <1>0, <1>1 DEF Write, TypeOK, PostWakeUp, Silent
    <2>2. w \in WriteRequest /\ w.pieceIndex = p /\ w.offset = b /\ w.data = d
      BY RequestTypes
    <2> HIDE DEF w
    <2>3. Writes' = Writes \cup {w}
      BY <2>1, <2>2, AppendMembers DEF Writes
    <2>4. \A x \in Writes : /\ x.pieceIndex \in Pieces /\ x.offset \in Blocks
                            /\ content[x.pieceIndex][x.offset] = x.data /\ x.data # "none"
      BY <1>0, RequestTypes DEF WritesInv
    <2>5. \A x \in Writes : ~(x.pieceIndex = p /\ x.offset = b)
      BY <2>1, <2>4
    <2>6. \A x \in Writes : content'[x.pieceIndex][x.offset] = x.data
      BY <1>0, <2>1, <2>4, <2>5, OneBlockChanged
    <2>7. content'[p][b] = d
      BY <1>0, <2>1, OneBlockChanged
    <2>8. \A q \in Pieces : ToSet(events') \cap Verdicts(q) = ToSet(events) \cap Verdicts(q)
      BY <1>0, <2>1, SilentUntouched, EventSets DEF Untouched
    <2>9. \A q \in Pieces : ToSet(events) \cap Verdicts(q) # {} => q # p
      BY <1>0, <2>1 DEF VerdictsInv
    <2> QED
      BY <1>a, <2>2, <2>3, <2>6, <2>7, <2>8, <2>9 DEF WritesInv
  <1>2. CASE VerifySinglePiece
    <2>1. /\ writeRequests = <<>> /\ newWriteRequests = <<>>
          /\ UNCHANGED <<writeRequests, newWriteRequests>>
      BY <1>0, <1>2 DEF VerifySinglePiece, ListsInv
    <2>2. Writes' = {}
      BY <2>1 DEF Writes, ToSet
    <2> QED
      BY <2>2 DEF WritesInv
  <1>3. CASE /\ ~VerifySinglePiece
             /\ \A p \in Pieces, b \in Blocks, d \in {"good", "bad"} : ~Write(p, b, d)
    <2>1. Writes' \subseteq Writes
      BY <1>3, WritesOfStep
    <2>2. \A p \in Pieces : ToSet(events') \cap Verdicts(p) \subseteq ToSet(events)
      BY <1>0, <1>3, ReportsOfStep
    <2>3. \A w \in Writes : content'[w.pieceIndex][w.offset] = w.data
      <3>1. CASE content' = content
        BY <3>1 DEF WritesInv
      <3>2. ASSUME NEW p \in Pieces, PieceVerified(p, FALSE) \in ToSet(events),
                   content' = [content EXCEPT ![p] = Uniform("none")]
            PROVE  \A w \in Writes : content'[w.pieceIndex][w.offset] = w.data
        <4>1. \A w \in Writes : w.pieceIndex # p /\ w.pieceIndex \in Pieces
          BY <1>0, <3>2, RequestTypes DEF WritesInv, Verdicts
        <4> QED
          BY <1>0, <3>2, <4>1 DEF WritesInv
      <3> QED
        BY <1>0, <1>3, <3>1, <3>2, ContentOfStep
    <2> QED
      BY <1>a, <2>1, <2>2, <2>3 DEF WritesInv
  <1> QED
    BY <1>1, <1>2, <1>3

(* While nothing has failed a block is where TrueInv says it is.           *)
Placed(p, b) ==
    \/ content[p][b] \in {"none", disk[p][b]}
    \/ \E w \in Writes : w.pieceIndex = p /\ w.offset = b

LEMMA PlacedStep ==
    ASSUME DiskInv, BegunInv, WritesInv, TrueInv, Next, Healthy'
    PROVE  \A p \in Pieces, b \in Blocks : Placed(p, b)'
  <1> USE DEF shared, worker, caller
  <1>0. /\ TypeOK /\ Healthy /\ ListsInv /\ content \in [Pieces -> [Blocks -> Data]]
        /\ disk \in [Pieces -> [Blocks -> Data]] /\ ioErrors' = ioErrors /\ ~quit
        /\ ioErrors \in Nat
    <2>1. TypeOK /\ ListsInv
      BY DEF DiskInv
    <2> QED
      BY <2>1, FailuresKept DEF Healthy, TypeOK
  <1>1. \A p \in Pieces, b \in Blocks : Placed(p, b)
    BY <1>0 DEF TrueInv, Placed
  <1>2. ASSUME NEW p \in Pieces, NEW b \in Blocks, NEW d \in {"good", "bad"}, Write(p, b, d)
        PROVE  \A q \in Pieces, a \in Blocks : Placed(q, a)'
    <2> DEFINE w == [pieceIndex |-> p, offset |-> b, data |-> d]
    <2>1. /\ content' = [content EXCEPT ![p][b] = d] /\ disk' = disk
          /\ writeRequests \in Seq(WriteRequest) /\ writeRequests' = Append(writeRequests, w)
          /\ newWriteRequests' = newWriteRequests
      BY <1>0, <1>2 DEF Write, TypeOK
    <2>2. w \in WriteRequest /\ w.pieceIndex = p /\ w.offset = b
      BY RequestTypes
    <2> HIDE DEF w
    <2>3. Writes' = Writes \cup {w}
      BY <2>1, <2>2, AppendMembers DEF Writes
    <2>4. \A q \in Pieces, a \in Blocks : content'[q][a] = IF q = p /\ a = b THEN d ELSE content[q][a]
      BY <1>0, <2>1, OneBlockChanged
    <2>5. \A q \in Pieces, a \in Blocks :
            \/ content'[q][a] \in {"none", disk'[q][a]}
            \/ \E x \in Writes' : x.pieceIndex = q /\ x.offset = a
      BY <1>1, <2>1, <2>2, <2>3, <2>4 DEF Placed
    <2> QED
      BY <2>5 DEF Placed
  <1>3. CASE WriteBlock \/ Flush
    <2> DEFINE w == Head(newWriteRequests)
    <2>1. UNCHANGED <<content, writeRequests>> /\ WriteHead
      BY <1>3 DEF WriteBlock, Flush
    <2>2. /\ w \in WriteRequest /\ w \in Writes
          /\ Writes \subseteq Writes' \cup {w}
          /\ disk' = Written(w) \/ ioErrors' = ioErrors + 1
      BY <1>0, <2>1, HeadWritten
    <2> HIDE DEF w
    <2>3. /\ w.pieceIndex \in Pieces /\ w.offset \in Blocks
          /\ content[w.pieceIndex][w.offset] = w.data
      BY <2>2, RequestTypes DEF WritesInv
    <2>4. disk' = [disk EXCEPT ![w.pieceIndex][w.offset] = w.data]
      BY <1>0, <2>2 DEF Written
    <2>5. \A q \in Pieces, a \in Blocks :
            disk'[q][a] = IF q = w.pieceIndex /\ a = w.offset THEN w.data ELSE disk[q][a]
      BY <1>0, <2>3, <2>4, OneBlockChanged
    <2>6. ASSUME NEW q \in Pieces, NEW a \in Blocks
          PROVE  \/ content'[q][a] \in {"none", disk'[q][a]}
                 \/ \E x \in Writes' : x.pieceIndex = q /\ x.offset = a
      <3>1. CASE q = w.pieceIndex /\ a = w.offset
        <4>1. content'[q][a] = disk'[q][a]
          BY <2>1, <2>3, <2>5, <3>1
        <4> QED
          BY <4>1
      <3>2. CASE ~(q = w.pieceIndex /\ a = w.offset)
        BY <1>1, <2>1, <2>2, <2>5, <3>2 DEF Placed
      <3> QED
        BY <3>1, <3>2
    <2> QED
      BY <2>6 DEF Placed
  <1>4. CASE GenerateFiles
    <2>1. content' = [p \in Pieces |-> Uniform("none")]
      BY <1>4 DEF GenerateFiles, BegunInv
    <2>2. \A p \in Pieces, b \in Blocks : content'[p][b] = "none"
      BY <2>1 DEF Uniform
    <2> QED
      BY <2>2 DEF Placed
  <1>5. CASE /\ ~WriteBlock /\ ~Flush /\ ~GenerateFiles
             /\ \A p \in Pieces, b \in Blocks, d \in {"good", "bad"} : ~Write(p, b, d)
    <2>1. Writes' = Writes
      BY <1>0, <1>5, WritesOfStep
    <2>2. disk' = disk
      BY <1>5 DEF Next, Caller, StartDataVerification, Read, VerifyPiece, Dispatch, SetQuit,
              SignalQuit, JoinWorker, Worker, Check, Wait, TakeReads, ReadBlock, TakeWrites,
              EndWrites, LeaveLoop, SkipVerification, TakeVerifications, VerifyAll,
              VerifySinglePiece, EndVerification, Loop, EndThread
    <2>3. \A p \in Pieces, b \in Blocks : content'[p][b] \in {"none", content[p][b]}
      <3>1. ASSUME NEW q \in Pieces, content' = [content EXCEPT ![q] = Uniform("none")]
            PROVE  \A p \in Pieces, b \in Blocks : content'[p][b] \in {"none", content[p][b]}
        BY <1>0, <3>1 DEF Uniform
      <3> QED
        BY <1>0, <1>5, <3>1, ContentOfStep
    <2> QED
      BY <1>1, <2>1, <2>2, <2>3 DEF Placed
  <1> QED
    BY <1>2, <1>3, <1>4, <1>5

(* A verdict is computed when every write of its piece has been done.      *)
LEMMA TrueVerdict ==
    ASSUME DiskInv, TrueInv, VerifySinglePiece, Healthy'
    PROVE  LET p == Head(newPendingVerificationRequests) IN
           /\ p \in Pieces
           /\ ToSet(events') \cap Verdicts(p) = {PieceVerified(p, content[p] = Uniform("good"))}
           /\ \A q \in Pieces \ {p} : ToSet(events') \cap Verdicts(q) \subseteq ToSet(events)
  <1> DEFINE p == Head(newPendingVerificationRequests)
  <1>0. TypeOK /\ ListsInv /\ VerdictsInv /\ Healthy /\ ioErrors' = ioErrors /\ ioErrors \in Nat
    <2>1. TypeOK /\ ListsInv /\ VerdictsInv /\ Next
      BY DEF DiskInv, Next, Worker
    <2> QED
      BY <2>1, FailuresKept DEF Healthy
  <1>1. p \in Pieces /\ \E v \in BOOLEAN :
                           /\ Emits(PieceVerified(p, v))
                           /\ v => ~quit /\ Intact(p)
                           /\ ~v => quit \/ ~Intact(p) \/ ioErrors' = ioErrors + 1
    BY <1>0, SingleEmits
  <1>2. PICK v \in BOOLEAN : Emits(PieceVerified(p, v)) /\ (v <=> Intact(p))
    BY <1>0, <1>1 DEF Healthy
  <1>3. p \in verifying /\ ToSet(events) \cap Verdicts(p) = {}
    <2>1. p \in ToSet(newPendingVerificationRequests)
      BY <1>0, TailMembers DEF VerifySinglePiece, TypeOK
    <2> QED
      BY <1>0, <2>1 DEF VerdictsInv, Named
  <1> HIDE DEF p
  <1>4. content[p] = disk[p]
    <2>1. Writes = {}
      BY <1>0 DEF VerifySinglePiece, ListsInv, Writes, ToSet
    <2>2. \A b \in Blocks : content[p][b] = disk[p][b]
      BY <1>0, <1>1, <1>3, <2>1 DEF TrueInv, VerdictsInv
    <2>3. content[p] \in [Blocks -> Data] /\ disk[p] \in [Blocks -> Data]
      BY <1>0, <1>1 DEF TypeOK
    <2> QED
      BY <2>2, <2>3
  <1>5. PieceVerified(p, v) = PieceVerified(p, content[p] = Uniform("good"))
    <2>1. v = (content[p] = Uniform("good"))
      BY <1>2, <1>4 DEF Intact
    <2> QED
      BY <2>1
  <1>6. PieceVerified(p, v) \in Event /\ PieceVerified(p, v) \in Verdicts(p)
    BY <1>1, EventTypes, EventSets
  <1>7. ToSet(events') \cap Verdicts(p) = {PieceVerified(p, v)}
    BY <1>0, <1>2, <1>3, <1>6, EmitsOnce, EventSets
  <1>8. \A q \in Pieces \ {p} : ToSet(events') \cap Verdicts(q) \subseteq ToSet(events)
    <2>1. \A q \in Pieces \ {p} : PieceVerified(p, v) \notin Verdicts(q)
      BY <1>6, EventSets
    <2>2. \A q \in Pieces \ {p} : Untouched(Verdicts(q))
      BY <1>0, <1>2, <1>6, <2>1, EmitsOnce, EventSets
    <2> QED
      BY <2>2 DEF Untouched
  <1> QED
    BY <1>1, <1>5, <1>7, <1>8 DEF p

LEMMA TrueStep ==
    ASSUME DiskInv, BegunInv, ReadsInv, WritesInv, TrueInv, Next
    PROVE  TrueInv'
  <1> SUFFICES ASSUME Healthy' PROVE TrueInv'
    BY DEF TrueInv
  <1> USE DEF shared, worker, caller
  <1>0. /\ TypeOK /\ VerdictsInv /\ VerifiedOnDisk /\ Healthy /\ ioErrors' = ioErrors
        /\ ioErrors \in Nat /\ content \in [Pieces -> [Blocks -> Data]]
    <2>1. TypeOK /\ VerdictsInv /\ VerifiedOnDisk
      BY DEF DiskInv
    <2> QED
      BY <2>1, FailuresKept DEF Healthy, TypeOK
  <1>1. \A p \in Pieces :
          /\ PieceVerified(p, TRUE) \in ToSet(events) => content[p] = Uniform("good")
          /\ PieceVerified(p, FALSE) \in ToSet(events) => content[p] # Uniform("good")
    BY <1>0 DEF TrueInv
  <1>2. \A p \in Pieces, v \in BOOLEAN : PieceVerified(p, v) \in Verdicts(p)
    BY EventSets
  <1>3. ASSUME NEW p \in Pieces
        PROVE  /\ PieceVerified(p, TRUE) \in ToSet(events') => content'[p] = Uniform("good")
               /\ PieceVerified(p, FALSE) \in ToSet(events') => content'[p] # Uniform("good")
    <2>1. CASE VerifySinglePiece
      <3> DEFINE q == Head(newPendingVerificationRequests)
      <3>1. /\ content' = content /\ q \in Pieces
            /\ ToSet(events') \cap Verdicts(q) = {PieceVerified(q, content[q] = Uniform("good"))}
            /\ \A x \in Pieces \ {q} : ToSet(events') \cap Verdicts(x) \subseteq ToSet(events)
        BY <2>1, TrueVerdict DEF VerifySinglePiece
      <3> HIDE DEF q
      <3>2. CASE p = q
        <4>1. PieceVerified(q, TRUE) # PieceVerified(q, FALSE)
          BY VerdictsDiffer
        <4>2. CASE content[q] = Uniform("good")
          <5>1. (content[q] = Uniform("good")) = TRUE
            BY <4>2
          <5>2. ToSet(events') \cap Verdicts(q) = {PieceVerified(q, TRUE)}
            BY <3>1, <5>1
          <5> QED
            BY <1>2, <3>1, <3>2, <4>1, <4>2, <5>2
        <4>3. CASE content[q] # Uniform("good")
          <5>1. (content[q] = Uniform("good")) = FALSE
            BY <4>3
          <5>2. ToSet(events') \cap Verdicts(q) = {PieceVerified(q, FALSE)}
            BY <3>1, <5>1
          <5> QED
            BY <1>2, <3>1, <3>2, <4>1, <4>3, <5>2
        <4> QED
          BY <4>2, <4>3
      <3>3. CASE p # q
        BY <1>1, <1>2, <3>1, <3>3
      <3> QED
        BY <3>2, <3>3
    <2>2. CASE ~VerifySinglePiece
      <3>1. ToSet(events') \cap Verdicts(p) \subseteq ToSet(events)
        BY <1>0, <2>2, ReportsOfStep
      <3>2. ToSet(events') \cap Verdicts(p) # {} => content'[p] = content[p]
        <4>1. ASSUME NEW q \in Pieces, NEW b \in Blocks, NEW d \in {"good", "bad"}, Write(q, b, d),
                     ToSet(events') \cap Verdicts(p) # {}
              PROVE  content'[p] = content[p]
          <5>1. p \in verifying /\ content[q][b] = "none"
            BY <1>0, <3>1, <4>1 DEF VerdictsInv, Write
          <5>2. p # q
            BY <1>0, <5>1 DEF VerdictsInv
          <5>3. content' = [content EXCEPT ![q][b] = d]
            BY <4>1 DEF Write
          <5> QED
            BY <1>0, <5>2, <5>3, OneBlockChanged
        <4>2. ASSUME NEW q \in Pieces, Dispatch, Head(events) = PieceVerified(q, FALSE),
                     content' = [content EXCEPT ![q] = Uniform("none")],
                     ToSet(events') \cap Verdicts(p) # {}
              PROVE  content'[p] = content[p]
          <5>1. PieceVerified(q, FALSE) \in Verdicts(q) /\ AtMostOnce(events, Verdicts(q))
            BY <1>0, <1>2 DEF VerdictsInv
          <5>2. ToSet(events') \cap Verdicts(q) = {}
            <6>1. events # <<>> /\ events' = Tail(events)
              BY <4>2 DEF Dispatch
            <6>2. Head(events) \in Verdicts(q)
              BY <4>2, <5>1
            <6> QED
              BY <1>0, <5>1, <6>1, <6>2, TakenOut
          <5>3. p # q
            BY <4>2, <5>2
          <5> QED
            BY <1>0, <4>2, <5>3
        <4> QED
          BY <1>0, <4>1, <4>2, ContentOfStep
      <3> QED
        BY <1>1, <1>2, <3>1, <3>2
    <2> QED
      BY <2>1, <2>2
  <1>4. \A r \in ReadRequest : DataRead(r, FALSE) \notin ToSet(events')
    <2>1. \A r \in ReadRequest : DataRead(r, FALSE) \notin ToSet(events)
      BY <1>0 DEF TrueInv
    <2>2. CASE ReadBlock
      <3> DEFINE q == Head(newReadRequests)
      <3>1. q \in ReadRequest /\ \E v \in BOOLEAN :
                                    /\ Emits(DataRead(q, v))
                                    /\ ~v => quit \/ ~Intact(q.pieceIndex) \/ ioErrors' = ioErrors + 1
        BY <1>0, <2>2, ReadEmits
      <3>2. Intact(q.pieceIndex)
        <4>1. q \in ToSet(newReadRequests)
          BY <1>0, <2>2, TailMembers DEF ReadBlock, TypeOK
        <4>2. q.pieceIndex \in completed
          BY <4>1 DEF ReadsInv
        <4> QED
          BY <1>0, <4>2 DEF VerifiedOnDisk
      <3>3. Emits(DataRead(q, TRUE)) /\ DataRead(q, TRUE) \in Event
        <4>1. PICK v \in BOOLEAN : Emits(DataRead(q, v)) /\ v
          BY <1>0, <3>1, <3>2 DEF Healthy
        <4>2. v = TRUE
          BY <4>1
        <4> QED
          BY <3>1, <4>1, <4>2, EventTypes
      <3> HIDE DEF q
      <3>4. \A r \in ReadRequest : DataRead(r, FALSE) # DataRead(q, TRUE)
        <4>1. \A r : DataRead(r, FALSE).intact = FALSE /\ DataRead(q, TRUE).intact = TRUE
          BY DEF DataRead
        <4> QED
          BY <4>1
      <3>5. ASSUME NEW r \in ReadRequest PROVE DataRead(r, FALSE) \notin ToSet(events')
        <4>1. {DataRead(r, FALSE)} \cap Noise = {}
          <5>1. DataRead(r, FALSE) \in Reports /\ Reports \cap Noise = {}
            BY EventSets
          <5> QED
            BY <5>1
        <4>2. Untouched({DataRead(r, FALSE)})
          BY <1>0, <3>3, <3>4, <4>1, EmitsOnce
        <4> QED
          BY <2>1, <4>2 DEF Untouched
      <3> QED
        BY <3>5
    <2>3. CASE ~ReadBlock
      BY <1>0, <2>1, <2>3, ReportsOfStep
    <2> QED
      BY <2>2, <2>3
  <1>5. \A p \in Pieces, b \in Blocks : Placed(p, b)'
    BY PlacedStep
  <1>6. /\ \A p, v : PieceVerified(p, v)' = PieceVerified(p, v)
        /\ \A r, v : DataRead(r, v)' = DataRead(r, v)
        /\ Uniform("good")' = Uniform("good")
    BY DEF PieceVerified, DataRead, Uniform, Blocks
  <1> QED
    BY <1>3, <1>4, <1>5, <1>6 DEF TrueInv, Placed

-----------------------------------------------------------------------------
(* The invariant, and what the runs check of it.                           *)

LEMMA InitStored == Init => StoreInv
  <1> SUFFICES ASSUME Init PROVE StoreInv
    OBVIOUS
  <1>1. ToSet(<<>>) = {} /\ \A A : AtMostOnce(<<>>, A)
    BY DEF ToSet, AtMostOnce
  <1>2. BegunInv
    BY <1>1 DEF Init, BegunInv
  <1>3. ReadsInv
    BY <1>1 DEF Init, ReadsInv
  <1>4. AskedInv /\ WritesInv
    BY <1>1 DEF Init, AskedInv, WritesInv, Writes
  <1>5. \A p \in Pieces, b \in Blocks : content[p][b] = "none"
    BY DEF Init, Uniform
  <1>6. TrueInv
    BY <1>1, <1>5 DEF Init, TrueInv
  <1> QED
    BY <1>2, <1>3, <1>4, <1>6, InitOnDisk DEF StoreInv

LEMMA StepStored == StoreInv /\ [Next]_vars => StoreInv'
  <1> SUFFICES ASSUME StoreInv, [Next]_vars PROVE StoreInv'
    OBVIOUS
  <1>1. DiskInv'
    BY StepOnDisk DEF StoreInv
  <1>2. CASE Next
    <2>1. TypeOK /\ KnownInv
      BY DEF StoreInv, DiskInv
    <2> QED
      BY <1>1, <1>2, <2>1, BegunStep, ReadsStep, AskedStep, WritesStep, TrueStep DEF StoreInv
  <1>3. CASE UNCHANGED vars
    <2> USE <1>3 DEF vars, shared, worker, caller
    <2>1. BegunInv'
      BY DEF StoreInv, BegunInv, Healthy, Intact
    <2>2. ReadsInv'
      <3>1. ReadsInv /\ UNCHANGED <<readRequests, newReadRequests, readId, readIds>>
            /\ completed \subseteq completed' /\ pc' = pc
        BY DEF StoreInv
      <3>2. \A id \in ReadIds : Untouched(AnswersTo(id))
        BY DEF Untouched
      <3> QED
        BY <3>1, <3>2, ReadsQuiet
    <2>3. \A p : Verdicts(p)' = Verdicts(p)
      BY DEF Verdicts, PieceVerified
    <2>4. Named' = Named /\ Writes' = Writes
      BY DEF Named, Writes
    <2>5. AskedInv' /\ WritesInv'
      BY <2>3, <2>4 DEF StoreInv, AskedInv, WritesInv
    <2>6. TrueInv'
      BY <2>4 DEF StoreInv, TrueInv, Healthy
    <2> QED
      BY <1>1, <2>1, <2>2, <2>5, <2>6 DEF StoreInv
  <1> QED
    BY <1>2, <1>3

LEMMA StoredAlways == Spec => []StoreInv
  BY InitStored, StepStored, PTL DEF Spec

(* No request is lost, and none answered twice, on its way from the        *)
(* caller's list through the worker's and back through the event queue.    *)
THEOREM RequestsAnsweredOnce == Spec => []OneAnswerEach
  <1>1. StoreInv => OneAnswerEach
    BY AnswersCounted DEF StoreInv
  <1> QED
    BY <1>1, StoredAlways, PTL

(* A verdict is about all that the caller wrote before it asked for it, as *)
(* long as no file operation failed and the manager is not closing.        *)
THEOREM VerdictsAreTrue == Spec => []VerdictsSeeEveryWrite
  <1>1. ASSUME StoreInv PROVE VerdictsSeeEveryWrite
    <2> SUFFICES ASSUME Healthy, NEW i \in DOMAIN events, events[i].kind = "pieceVerified"
                 PROVE  events[i].verified <=> content[events[i].pieceIndex] = Uniform("good")
      BY DEF VerdictsSeeEveryWrite, Healthy
    <2> DEFINE e == events[i]
    <2>1. e \in Event /\ e \in ToSet(events)
      BY <1>1 DEF StoreInv, DiskInv, TypeOK, ToSet
    <2>2. /\ e.pieceIndex \in Pieces /\ e.verified \in BOOLEAN
          /\ e = PieceVerified(e.pieceIndex, e.verified)
      BY <2>1, EventTypes, EventsDiffer
    <2> HIDE DEF e
    <2>3. ASSUME e.verified = TRUE PROVE content[e.pieceIndex] = Uniform("good")
      <3>1. PieceVerified(e.pieceIndex, TRUE) \in ToSet(events)
        BY <2>1, <2>2, <2>3
      <3> QED
        BY <1>1, <2>2, <3>1 DEF StoreInv, TrueInv
    <2>4. ASSUME e.verified = FALSE PROVE content[e.pieceIndex] # Uniform("good")
      <3>1. PieceVerified(e.pieceIndex, FALSE) \in ToSet(events)
        BY <2>1, <2>2, <2>4
      <3> QED
        BY <1>1, <2>2, <3>1 DEF StoreInv, TrueInv
    <2>5. e.verified <=> content[e.pieceIndex] = Uniform("good")
      BY <2>2, <2>3, <2>4
    <2> QED
      BY <2>5 DEF e
  <1> QED
    BY <1>1, StoredAlways, PTL

(* Under the same condition a peer is given verified data, whatever is     *)
(* written or verified between its request and the answer.                 *)
THEOREM ReadsAreTrue == Spec => []CompletedReadsIntact
  <1>1. ASSUME StoreInv PROVE CompletedReadsIntact
    <2> SUFFICES ASSUME Healthy, NEW i \in DOMAIN events, events[i].kind = "dataRead"
                 PROVE  events[i].intact
      BY DEF CompletedReadsIntact, Healthy
    <2> DEFINE e == events[i]
    <2>1. e \in Event /\ e \in ToSet(events)
      BY <1>1 DEF StoreInv, DiskInv, TypeOK, ToSet
    <2>2. /\ e.request \in ReadRequest /\ e.intact \in BOOLEAN
          /\ e = DataRead(e.request, e.intact)
      BY <2>1, EventSets
    <2> HIDE DEF e
    <2>3. e.intact # FALSE
      BY <1>1, <2>1, <2>2 DEF StoreInv, TrueInv
    <2> QED
      BY <2>2, <2>3 DEF e
  <1> QED
    BY <1>1, StoredAlways, PTL

-----------------------------------------------------------------------------
(* The file manager implements the file store.  First the file that the    *)
(* caller sees: where a write waits it is what was written, elsewhere what *)
(* is on disk.                                                             *)

WriteAt(w, p, b) == w.pieceIndex = p /\ w.offset = b

FileSeen ==
    /\ FileView \in [Pieces -> [Blocks -> Data]]
    /\ \A p \in Pieces, b \in Blocks :
          /\ \A w \in Writes : WriteAt(w, p, b) => FileView[p][b] = w.data
          /\ (\A w \in Writes : ~WriteAt(w, p, b)) => FileView[p][b] = disk[p][b]

LEMMA WritesTyped == TypeOK => Writes \subseteq WriteRequest
  <1> SUFFICES ASSUME TypeOK PROVE Writes \subseteq WriteRequest
    OBVIOUS
  <1>1. \A s \in Seq(WriteRequest) : ToSet(s) \subseteq WriteRequest
    BY DEF ToSet
  <1> QED
    BY <1>1 DEF TypeOK, Writes

LEMMA FileIsSeen == TypeOK /\ WritesInv => FileSeen
  <1> SUFFICES ASSUME TypeOK, WritesInv PROVE FileSeen
    OBVIOUS
  <1> DEFINE there(p, b) == {w \in Writes : w.pieceIndex = p /\ w.offset = b}
             at(p, b) == IF there(p, b) = {} THEN disk[p][b]
                         ELSE (CHOOSE w \in there(p, b) : TRUE).data
  <1>1. FileView = [p \in Pieces |-> [b \in Blocks |-> at(p, b)]]
    BY DEF FileView
  <1>2. ASSUME NEW p \in Pieces, NEW b \in Blocks
        PROVE  /\ at(p, b) \in Data
               /\ \A w \in Writes : WriteAt(w, p, b) => at(p, b) = w.data
               /\ (\A w \in Writes : ~WriteAt(w, p, b)) => at(p, b) = disk[p][b]
    <2>1. CASE there(p, b) = {}
      BY <2>1 DEF WriteAt, TypeOK
    <2>2. CASE there(p, b) # {}
      <3>1. PICK x : x = CHOOSE w \in there(p, b) : TRUE
        OBVIOUS
      <3>2. x \in there(p, b)
        BY <2>2, <3>1
      <3>3. /\ x \in Writes /\ x.pieceIndex = p /\ x.offset = b
            /\ at(p, b) = x.data
        BY <2>2, <3>1, <3>2
      <3>4. x.data \in Data /\ x.data = content[p][b]
        BY <3>3, WritesTyped, RequestTypes DEF WritesInv, Data
      <3> HIDE DEF at, there
      <3> QED
        BY <3>3, <3>4 DEF WritesInv, WriteAt
    <2> QED
      BY <2>1, <2>2
  <1> HIDE DEF at
  <1> QED
    BY <1>1, <1>2 DEF FileSeen

LEMMA FileSeenNext == TypeOK' /\ WritesInv' => FileSeen'
  BY FileIsSeen, PTL

(* The same writes and the same disk: the same file.                       *)
LEMMA SameFile == Writes' = Writes /\ disk' = disk => FileView' = FileView
  BY DEF FileView

(* A piece that no write waits for is what the disk has of it.             *)
LEMMA PieceSeen ==
    ASSUME TypeOK, FileSeen, NEW p \in Pieces, \A w \in Writes : w.pieceIndex # p
    PROVE  FileView[p] = disk[p] /\ (Store!Good(p) <=> Intact(p))
  <1>1. /\ FileView[p] \in [Blocks -> Data] /\ disk[p] \in [Blocks -> Data]
        /\ \A b \in Blocks : FileView[p][b] = disk[p][b]
    BY DEF TypeOK, FileSeen, WriteAt
  <1>2. FileView[p] = disk[p]
    BY <1>1
  <1>3. Intact(p) <=> \A b \in Blocks : disk[p][b] = "good"
    BY <1>1 DEF Intact, Uniform
  <1> QED
    BY <1>2, <1>3 DEF Store!Good

-----------------------------------------------------------------------------
(* The requests and the answers that the caller sees.                      *)

Reading == ToSet(readRequests) \cup ToSet(newReadRequests)

AnswerOf(e) ==
    IF e.kind = "dataRead" THEN [request |-> ReadOf(e.request), good |-> e.intact]
    ELSE [request |-> VerificationOf(e.pieceIndex), good |-> e.verified]

LEMMA AskedIs == Asked = {ReadOf(r) : r \in Reading} \cup {VerificationOf(p) : p \in Named}
  BY DEF Asked, Reading, Named

LEMMA RequestsTyped == TypeOK => Reading \subseteq ReadRequest /\ Named \subseteq Pieces
  <1> SUFFICES ASSUME TypeOK PROVE Reading \subseteq ReadRequest /\ Named \subseteq Pieces
    OBVIOUS
  <1>1. \A S : \A s \in Seq(S) : ToSet(s) \subseteq S
    BY DEF ToSet
  <1>2. /\ ToSet(readRequests) \subseteq ReadRequest
        /\ ToSet(newReadRequests) \subseteq ReadRequest
        /\ ToSet(pendingVerificationRequests) \subseteq Pieces
        /\ ToSet(newPendingVerificationRequests) \subseteq Pieces
    BY <1>1 DEF TypeOK
  <1> QED
    BY <1>2 DEF Reading, Named

LEMMA RequestsDiffer ==
    /\ \A r \in ReadRequest : /\ ReadOf(r) \in Store!Request /\ ReadOf(r).kind = "read"
                              /\ ReadOf(r).id = r.id /\ ReadOf(r).pieceIndex = r.pieceIndex
    /\ \A p \in Pieces : /\ VerificationOf(p) \in Store!Request
                         /\ VerificationOf(p).kind = "verify"
                         /\ VerificationOf(p).pieceIndex = p
    /\ \A r, q \in ReadRequest : ReadOf(r) = ReadOf(q) => r = q
    /\ \A p, q \in Pieces : VerificationOf(p) = VerificationOf(q) => p = q
    /\ \A r \in ReadRequest, p \in Pieces : ReadOf(r) # VerificationOf(p)
  <1>1. \A r \in ReadRequest :
          /\ ReadOf(r).kind = "read" /\ ReadOf(r).id = r.id
          /\ ReadOf(r).pieceIndex = r.pieceIndex
    BY DEF ReadOf
  <1>2. \A p : VerificationOf(p).kind = "verify" /\ VerificationOf(p).pieceIndex = p
    BY DEF VerificationOf
  <1>3. ASSUME NEW r \in ReadRequest PROVE ReadOf(r) \in Store!Request
    <2>1. r.id \in ReadIds /\ r.pieceIndex \in Pieces
      BY RequestTypes
    <2> QED
      BY <2>1 DEF ReadOf, Store!Request, Store!ReadOf
  <1>4. ASSUME NEW p \in Pieces PROVE VerificationOf(p) \in Store!Request
    BY DEF VerificationOf, Store!Request, Store!Verification
  <1>5. \A r, q \in ReadRequest : r.id = q.id /\ r.pieceIndex = q.pieceIndex => r = q
    BY DEF ReadRequest
  <1>6. \A r, q \in ReadRequest : ReadOf(r) = ReadOf(q) => r = q
    BY <1>1, <1>5
  <1>7. \A r \in ReadRequest, p \in Pieces : ReadOf(r) # VerificationOf(p)
    BY <1>1, <1>2
  <1> QED
    BY <1>1, <1>2, <1>3, <1>4, <1>6, <1>7

(* Every report in the queue is an answer, and no two are the same one.    *)
LEMMA AnswersAre ==
    ASSUME TypeOK
    PROVE  Answered = {AnswerOf(e) : e \in ToSet(events) \cap Reports}
  <1>1. ToSet(events) \subseteq Event
    BY DEF TypeOK, ToSet
  <1>2. \A e \in ToSet(events) :
          /\ e.kind = "dataRead" => e \in Reports
          /\ e.kind = "pieceVerified" => e \in Reports
    BY <1>1 DEF Reports
  <1>3. \A e \in Reports : e.kind \in {"dataRead", "pieceVerified"}
    BY DEF Reports
  <1>4. ASSUME NEW a \in Answered PROVE \E e \in ToSet(events) \cap Reports : a = AnswerOf(e)
    <2>1. ASSUME NEW e \in ToSet(events), e.kind = "dataRead",
                 a = [request |-> ReadOf(e.request), good |-> e.intact]
          PROVE  a = AnswerOf(e)
      BY <2>1 DEF AnswerOf
    <2>2. ASSUME NEW e \in ToSet(events), e.kind = "pieceVerified",
                 a = [request |-> VerificationOf(e.pieceIndex), good |-> e.verified]
          PROVE  a = AnswerOf(e)
      BY <2>2 DEF AnswerOf
    <2> QED
      BY <1>2, <2>1, <2>2 DEF Answered
  <1>5. ASSUME NEW e \in ToSet(events) \cap Reports PROVE AnswerOf(e) \in Answered
    <2>1. CASE e.kind = "dataRead"
      BY <2>1 DEF AnswerOf, Answered
    <2>2. CASE e.kind = "pieceVerified"
      BY <2>2 DEF AnswerOf, Answered
    <2> QED
      BY <1>3, <2>1, <2>2
  <1> QED
    BY <1>4, <1>5

LEMMA AnswersAreNext == TypeOK' => Answered' = {AnswerOf(e) : e \in ToSet(events') \cap Reports}
  <1>1. (TypeOK => Answered = {AnswerOf(e) : e \in ToSet(events) \cap Reports})'
    BY AnswersAre, PTL
  <1> QED
    BY <1>1 DEF AnswerOf, Reports

LEMMA AnswersDiffer ==
    /\ \A e \in Reports : AnswerOf(e).good \in BOOLEAN
    /\ \A e, f \in Reports : AnswerOf(e) = AnswerOf(f) => e = f
    /\ \A r \in ReadRequest, v \in BOOLEAN :
          AnswerOf(DataRead(r, v)) = [request |-> ReadOf(r), good |-> v]
    /\ \A p \in Pieces, v \in BOOLEAN :
          AnswerOf(PieceVerified(p, v)) = [request |-> VerificationOf(p), good |-> v]
    /\ \A e \in Reports :
          \/ \E r \in ReadRequest, v \in BOOLEAN : e = DataRead(r, v)
          \/ \E p \in Pieces, v \in BOOLEAN : e = PieceVerified(p, v)
  <1>1. \A r \in ReadRequest, v \in BOOLEAN :
          AnswerOf(DataRead(r, v)) = [request |-> ReadOf(r), good |-> v]
    BY DEF AnswerOf, DataRead
  <1>2. \A p \in Pieces, v \in BOOLEAN :
          AnswerOf(PieceVerified(p, v)) = [request |-> VerificationOf(p), good |-> v]
    BY DEF AnswerOf, PieceVerified
  <1>3. ASSUME NEW e \in Reports
        PROVE  \/ \E r \in ReadRequest, v \in BOOLEAN : e = DataRead(r, v)
               \/ \E p \in Pieces, v \in BOOLEAN : e = PieceVerified(p, v)
    <2>1. e \in Event /\ e.kind \in {"dataRead", "pieceVerified"}
      BY DEF Reports
    <2>2. CASE e.kind = "dataRead"
      BY <2>1, <2>2, EventSets
    <2>3. CASE e.kind = "pieceVerified"
      BY <2>1, <2>3, EventTypes, EventsDiffer
    <2> QED
      BY <2>1, <2>2, <2>3
  <1>4. \A q1, q2, g1, g2 : [request |-> q1, good |-> g1] = [request |-> q2, good |-> g2]
                              => q1 = q2 /\ g1 = g2
    OBVIOUS
  <1>5. ASSUME NEW e \in Reports, NEW f \in Reports, AnswerOf(e) = AnswerOf(f) PROVE e = f
    <2>1. ASSUME NEW r \in ReadRequest, NEW v \in BOOLEAN, e = DataRead(r, v),
                 NEW q \in ReadRequest, NEW u \in BOOLEAN, f = DataRead(q, u)
          PROVE  e = f
      BY <1>1, <1>4, <1>5, <2>1, RequestsDiffer
    <2>2. ASSUME NEW p \in Pieces, NEW v \in BOOLEAN, e = PieceVerified(p, v),
                 NEW q \in Pieces, NEW u \in BOOLEAN, f = PieceVerified(q, u)
          PROVE  e = f
      BY <1>2, <1>4, <1>5, <2>2, RequestsDiffer
    <2>3. ASSUME NEW r \in ReadRequest, NEW p \in Pieces, NEW v \in BOOLEAN, NEW u \in BOOLEAN,
                 {e, f} = {DataRead(r, v), PieceVerified(p, u)}
          PROVE  e = f
      <3>1. ReadOf(r) # VerificationOf(p)
        BY RequestsDiffer
      <3>2. AnswerOf(DataRead(r, v)) # AnswerOf(PieceVerified(p, u))
        BY <1>1, <1>2, <1>4, <3>1
      <3> QED
        BY <1>5, <2>3, <3>2
    <2> QED
      BY <1>3, <2>1, <2>2, <2>3
  <1>6. \A e \in Reports : AnswerOf(e).good \in BOOLEAN
    BY <1>1, <1>2, <1>3
  <1> QED
    BY <1>1, <1>2, <1>3, <1>5, <1>6

(* How the answers under way change with the queue of events.              *)
LEMMA AnswersKept ==
    ASSUME TypeOK, TypeOK', Untouched(Reports)
    PROVE  Answered' = Answered
  BY AnswersAre, AnswersAreNext DEF Untouched

LEMMA AnswerSent ==
    ASSUME TypeOK, TypeOK', NEW e \in Event, e \in Reports, Emits(e)
    PROVE  Answered' = Answered \cup {AnswerOf(e)}
  <1>1. ToSet(events') \cap Reports = (ToSet(events) \cap Reports) \cup {e}
    BY EmitsOnce, EventSets
  <1> QED
    BY <1>1, AnswersAre, AnswersAreNext

LEMMA AnswerTaken ==
    ASSUME TypeOK, TypeOK', VerdictsInv, ReadsInv, events # <<>>, events' = Tail(events),
           Head(events) \in Reports
    PROVE  /\ AnswerOf(Head(events)) \in Answered
           /\ Answered' = Answered \ {AnswerOf(Head(events))}
  <1> DEFINE e == Head(events)
  <1>1. /\ e \in ToSet(events) /\ events \in Seq(Event)
        /\ ToSet(Tail(events)) \subseteq ToSet(events)
        /\ \A x \in ToSet(events) : x = e \/ x \in ToSet(Tail(events))
    BY TailMembers DEF TypeOK
  <1>2. \A A : e \in A /\ AtMostOnce(events, A) => e \notin ToSet(Tail(events))
    BY <1>1, OnceTail
  <1>3. e \notin ToSet(Tail(events))
    <2>1. ASSUME NEW r \in ReadRequest, NEW v \in BOOLEAN, e = DataRead(r, v)
          PROVE  e \notin ToSet(Tail(events))
      <3>1. r.id \in ReadIds
        BY RequestTypes
      <3>2. e \in AnswersTo(r.id) /\ AtMostOnce(events, AnswersTo(r.id))
        BY <2>1, <3>1, EventSets DEF ReadsInv
      <3> QED
        BY <1>2, <3>2
    <2>2. ASSUME NEW p \in Pieces, NEW v \in BOOLEAN, e = PieceVerified(p, v)
          PROVE  e \notin ToSet(Tail(events))
      <3>1. e \in Verdicts(p)
        BY <2>2, EventSets
      <3>2. AtMostOnce(events, Verdicts(p))
        BY DEF VerdictsInv
      <3> QED
        BY <1>2, <3>1, <3>2
    <2> QED
      BY <2>1, <2>2, AnswersDiffer
  <1>4. ToSet(events') \cap Reports = (ToSet(events) \cap Reports) \ {e}
    BY <1>1, <1>3
  <1> HIDE DEF e
  <1>5. e \in Reports
    BY DEF e
  <1>6. \A x \in Reports : AnswerOf(x) = AnswerOf(e) => x = e
    BY <1>5, AnswersDiffer
  <1>7. AnswerOf(e) \in Answered /\ Answered' = Answered \ {AnswerOf(e)}
    BY <1>1, <1>4, <1>5, <1>6, AnswersAre, AnswersAreNext
  <1> QED
    BY <1>7 DEF e

(* The reads and the verifications that the caller cannot ask for again.   *)
LEMMA UnderWayIs ==
    ASSUME TypeOK
    PROVE  /\ \A r \in ReadRequest : ReadOf(r) \in Store!UnderWay =>
                 r \in Reading \/ ToSet(events) \cap AnswersTo(r.id) # {}
           /\ \A p \in Pieces : VerificationOf(p) \in Store!UnderWay =>
                 p \in Named \/ ToSet(events) \cap Verdicts(p) # {}
           /\ Store!UnderWay \subseteq Store!Request
  <1>1. \A e \in ToSet(events) \cap Reports :
          \/ \E r \in ReadRequest, v \in BOOLEAN :
                e = DataRead(r, v) /\ AnswerOf(e).request = ReadOf(r)
          \/ \E p \in Pieces, v \in BOOLEAN :
                e = PieceVerified(p, v) /\ AnswerOf(e).request = VerificationOf(p)
    <2>1. ASSUME NEW r \in ReadRequest, NEW v \in BOOLEAN
          PROVE  AnswerOf(DataRead(r, v)).request = ReadOf(r)
      BY AnswersDiffer
    <2>2. ASSUME NEW p \in Pieces, NEW v \in BOOLEAN
          PROVE  AnswerOf(PieceVerified(p, v)).request = VerificationOf(p)
      BY AnswersDiffer
    <2> QED
      BY <2>1, <2>2, AnswersDiffer
  <1>2. Store!UnderWay = Asked \cup {AnswerOf(e).request : e \in ToSet(events) \cap Reports}
    BY AnswersAre DEF Store!UnderWay
  <1>3. Store!UnderWay \subseteq Store!Request
    BY <1>1, <1>2, AskedIs, RequestsTyped, RequestsDiffer
  <1>4. ASSUME NEW r \in ReadRequest, ReadOf(r) \in Store!UnderWay, r \notin Reading
        PROVE  ToSet(events) \cap AnswersTo(r.id) # {}
    <2>1. ReadOf(r) \notin Asked
      BY <1>4, AskedIs, RequestsTyped, RequestsDiffer
    <2>2. PICK e \in ToSet(events) \cap Reports : ReadOf(r) = AnswerOf(e).request
      BY <1>2, <1>4, <2>1
    <2>3. PICK q \in ReadRequest, v \in BOOLEAN : e = DataRead(q, v) /\ ReadOf(r) = ReadOf(q)
      BY <1>1, <2>2, RequestsDiffer
    <2> QED
      BY <2>3, RequestsDiffer, EventSets
  <1>5. ASSUME NEW p \in Pieces, VerificationOf(p) \in Store!UnderWay, p \notin Named
        PROVE  ToSet(events) \cap Verdicts(p) # {}
    <2>1. VerificationOf(p) \notin Asked
      BY <1>5, AskedIs, RequestsTyped, RequestsDiffer
    <2>2. PICK e \in ToSet(events) \cap Reports : VerificationOf(p) = AnswerOf(e).request
      BY <1>2, <1>5, <2>1
    <2>3. PICK q \in Pieces, v \in BOOLEAN :
            e = PieceVerified(q, v) /\ VerificationOf(p) = VerificationOf(q)
      BY <1>1, <2>2, RequestsDiffer
    <2> QED
      BY <2>3, RequestsDiffer, EventSets
  <1> QED
    BY <1>3, <1>4, <1>5

(* No write waits for a piece that the store must keep.                    *)
LEMMA KeptIs ==
    ASSUME StoreInv, NEW p \in Store!Kept
    PROVE  p \in Pieces /\ p \in verifiedPieces /\ \A w \in Writes : w.pieceIndex # p
  <1>0. TypeOK /\ VerdictsInv /\ KnownInv /\ VerifiedOnDisk /\ ReadsInv
    BY DEF StoreInv, DiskInv
  <1>1. p \in verifiedPieces
    <2>1. CASE p \in completed
      BY <1>0, <2>1 DEF KnownInv
    <2>2. ASSUME NEW a \in Answered, a.good, p = a.request.pieceIndex PROVE p \in verifiedPieces
      <3>1. PICK e \in ToSet(events) \cap Reports : a = AnswerOf(e)
        BY <1>0, AnswersAre
      <3>2. ASSUME NEW r \in ReadRequest, NEW v \in BOOLEAN, e = DataRead(r, v)
            PROVE  p \in verifiedPieces
        <4>1. a.request = ReadOf(r)
          BY <3>1, <3>2, AnswersDiffer
        <4>2. p = r.pieceIndex
          BY <2>2, <4>1, RequestsDiffer
        <4> QED
          BY <1>0, <3>1, <3>2, <4>2 DEF ReadsInv, KnownInv
      <3>3. ASSUME NEW q \in Pieces, NEW v \in BOOLEAN, e = PieceVerified(q, v)
            PROVE  p \in verifiedPieces
        <4>1. a.request = VerificationOf(q) /\ a.good = v
          BY <3>1, <3>3, AnswersDiffer
        <4>2. p = q /\ v = TRUE
          BY <2>2, <4>1, RequestsDiffer
        <4>3. PieceVerified(p, TRUE) \in ToSet(events)
          BY <3>1, <3>3, <4>2
        <4> QED
          BY <1>0, <4>2, <4>3 DEF VerdictsInv
      <3> QED
        BY <3>1, <3>2, <3>3, AnswersDiffer
    <2> QED
      BY <2>1, <2>2 DEF Store!Kept
  <1> QED
    BY <1>0, <1>1 DEF VerifiedOnDisk, TypeOK

-----------------------------------------------------------------------------
(* The steps.  What the caller cannot see of a step is nothing but a file  *)
(* operation that failed; a write that is lost to a failure, or to quit,   *)
(* is of a piece that the store need not keep.                             *)

Unmoved == /\ phase' = "ready" <=> phase = "ready"
           /\ completed' = completed /\ Asked' = Asked /\ Answered' = Answered

LEMMA FaultMapped ==
    ASSUME FileSeen', Unmoved, ioErrors' > 0 \/ quit',
           \A p \in Store!Kept : FileView'[p] = FileView[p]
    PROVE  Store!Fault
  <1>1. FileView' \in [Pieces -> [Blocks -> Store!Contents]]
    BY DEF FileSeen, Data, Store!Contents
  <1>2. (phase = "ready")' = (phase = "ready")
    BY DEF Unmoved
  <1> QED
    BY <1>1, <1>2 DEF Store!Fault, Unmoved

LEMMA QuietMapped ==
    ASSUME TypeOK, Next, FileSeen', Unmoved, FileView' = FileView
    PROVE  Store!Fault \/ UNCHANGED Store!vars
  <1>1. CASE ioErrors' > 0 \/ quit'
    BY <1>1, FaultMapped
  <1>2. CASE ~(ioErrors' > 0 \/ quit')
    <2>1. ~(ioErrors > 0 \/ quit)
      BY <1>2, FailuresKept
    <2>2. (ioErrors > 0 \/ quit)' = (ioErrors > 0 \/ quit)
      BY <1>2, <2>1
    <2>3. (phase = "ready")' = (phase = "ready")
      BY DEF Unmoved
    <2> QED
      BY <2>2, <2>3 DEF Store!vars, Unmoved
  <1> QED
    BY <1>1, <1>2

(* What holds on both sides of a step.                                     *)
LEMMA BothSides ==
    ASSUME StoreInv, Next
    PROVE  /\ StoreInv' /\ FileSeen /\ FileSeen'
           /\ TypeOK /\ FirstInv /\ ListsInv /\ VerdictsInv /\ KnownInv /\ VerifiedOnDisk
           /\ TypeOK' /\ WritesInv'
  <1>1. StoreInv'
    BY StepStored
  <1>2. /\ TypeOK /\ FirstInv /\ ListsInv /\ VerdictsInv /\ KnownInv /\ VerifiedOnDisk /\ WritesInv
    BY DEF StoreInv, DiskInv
  <1>3. TypeOK' /\ WritesInv'
    BY <1>1 DEF StoreInv, DiskInv
  <1> QED
    BY <1>1, <1>2, <1>3, FileIsSeen, FileSeenNext

LEMMA ReadMapped ==
    ASSUME StoreInv, NEW p \in Pieces, Read(p)
    PROVE  \E r \in Store!Request : Store!Ask(r)
  <1> USE DEF shared, worker, caller
  <1> DEFINE r == [id |-> readId, pieceIndex |-> p]
  <1>0. Next /\ ReadsInv /\ Silent
    BY SilentSteps DEF Next, Caller, StoreInv, Silent, PostWakeUp, Read
  <1>1. TypeOK /\ TypeOK'
    BY <1>0, BothSides
  <1>2. r \in ReadRequest /\ r.id = readId /\ r.pieceIndex = p /\ r.id \in ReadIds
    <2>1. readId \in ReadIds
      BY <1>1, FMAssumption DEF Read, TypeOK, ReadIds
    <2> QED
      BY <2>1, RequestTypes
  <1>3. readRequests' = Append(readRequests, r) /\ newReadRequests' = newReadRequests
    BY DEF Read
  <1> HIDE DEF r
  <1>4. Reading' = Reading \cup {r}
    BY <1>1, <1>2, <1>3, AppendMembers DEF Reading, TypeOK
  <1>5. Named' = Named /\ Writes' = Writes /\ disk' = disk
    BY DEF Read, Named, Writes
  <1>6. Asked' = Asked \cup {ReadOf(r)}
    <2>1. Asked' = {ReadOf(x) : x \in Reading'} \cup {VerificationOf(x) : x \in Named'}
      BY DEF Asked, Reading, Named, ReadOf, VerificationOf
    <2> QED
      BY <1>4, <1>5, <2>1, AskedIs
  <1>7. Answered' = Answered
    BY <1>0, <1>1, SilentUntouched, EventSets, AnswersKept
  <1>8. ReadOf(r) \notin Store!UnderWay
    <2>1. readId \notin readIds
      BY <1>0, <1>1 DEF ReadsInv, TypeOK
    <2>2. r \in ReadsOf(r.id)
      BY <1>2 DEF ReadsOf
    <2>3. r \notin Reading /\ ToSet(events) \cap AnswersTo(r.id) = {}
      BY <1>0, <1>2, <2>1, <2>2 DEF ReadsInv, Reading
    <2> QED
      BY <1>1, <1>2, <2>3, UnderWayIs
  <1>9. /\ ReadOf(r) \in Store!Request /\ ReadOf(r).kind = "read"
        /\ ReadOf(r).pieceIndex = p /\ p \in completed
    BY <1>2, RequestsDiffer DEF Read
  <1>10. FileView' = FileView /\ (phase = "ready")' = (phase = "ready") /\ completed' = completed
         /\ (ioErrors > 0 \/ quit)' = (ioErrors > 0 \/ quit)
    BY <1>5, SameFile DEF Read
  <1>11. Store!Ask(ReadOf(r))
    BY <1>6, <1>7, <1>8, <1>9, <1>10 DEF Store!Ask
  <1> QED
    BY <1>9, <1>11

LEMMA VerifyPieceMapped ==
    ASSUME StoreInv, NEW p \in Pieces, VerifyPiece(p)
    PROVE  \E r \in Store!Request : Store!Ask(r)
  <1> USE DEF shared, worker, caller
  <1>0. Next /\ Silent
    BY DEF Next, Caller, Silent, PostWakeUp, VerifyPiece
  <1>1. TypeOK /\ TypeOK' /\ VerdictsInv
    BY <1>0, BothSides
  <1>2. Named' = Named \cup {p}
    BY <1>1, AppendMembers DEF VerifyPiece, Named, TypeOK
  <1>3. Reading' = Reading /\ Writes' = Writes /\ disk' = disk
    BY DEF VerifyPiece, Reading, Writes
  <1>4. Asked' = Asked \cup {VerificationOf(p)}
    <2>1. Asked' = {ReadOf(x) : x \in Reading'} \cup {VerificationOf(x) : x \in Named'}
      BY DEF Asked, Reading, Named, ReadOf, VerificationOf
    <2> QED
      BY <1>2, <1>3, <2>1, AskedIs
  <1>5. Answered' = Answered
    BY <1>0, <1>1, SilentUntouched, EventSets, AnswersKept
  <1>6. VerificationOf(p) \notin Store!UnderWay
    <2>1. p \notin Named /\ ToSet(events) \cap Verdicts(p) = {}
      BY <1>1 DEF VerifyPiece, VerdictsInv
    <2> QED
      BY <1>1, <2>1, UnderWayIs
  <1>7. /\ VerificationOf(p) \in Store!Request /\ VerificationOf(p).kind = "verify"
        /\ VerificationOf(p).pieceIndex = p /\ p \notin completed /\ phase = "ready"
    BY RequestsDiffer DEF VerifyPiece
  <1>8. FileView' = FileView /\ (phase = "ready")' = (phase = "ready") /\ completed' = completed
        /\ (ioErrors > 0 \/ quit)' = (ioErrors > 0 \/ quit)
    BY <1>3, SameFile DEF VerifyPiece
  <1>9. Store!Ask(VerificationOf(p))
    BY <1>4, <1>5, <1>6, <1>7, <1>8 DEF Store!Ask
  <1> QED
    BY <1>7, <1>9

LEMMA WriteMapped ==
    ASSUME StoreInv, NEW p \in Pieces, NEW b \in Blocks, NEW d \in {"good", "bad"}, Write(p, b, d)
    PROVE  Store!Write(p, b, d)
  <1> USE DEF shared, worker, caller
  <1> DEFINE w == [pieceIndex |-> p, offset |-> b, data |-> d]
  <1>0. Next /\ Silent
    BY DEF Next, Caller, Silent, PostWakeUp, Write
  <1>1. TypeOK /\ TypeOK' /\ VerdictsInv /\ FileSeen /\ FileSeen'
    BY <1>0, BothSides
  <1>2. /\ w \in WriteRequest /\ writeRequests' = Append(writeRequests, w)
        /\ newWriteRequests' = newWriteRequests
        /\ w.pieceIndex = p /\ w.offset = b /\ w.data = d
    BY RequestTypes DEF Write
  <1> HIDE DEF w
  <1>3. Writes' = Writes \cup {w} /\ disk' = disk
    BY <1>1, <1>2, AppendMembers DEF Write, Writes, TypeOK
  <1>4. \A x, q, a : WriteAt(x, q, a)' = WriteAt(x, q, a)
    BY DEF WriteAt
  <1>5. FileView' = [FileView EXCEPT ![p][b] = d]
    <2>1. FileView'[p][b] = d
      BY <1>1, <1>2, <1>3 DEF FileSeen, WriteAt
    <2>2. ASSUME NEW q \in Pieces, NEW a \in Blocks, ~(q = p /\ a = b)
          PROVE  FileView'[q][a] = FileView[q][a]
      <3>1. ~WriteAt(w, q, a)
        BY <1>2, <2>2 DEF WriteAt
      <3>2. CASE \E x \in Writes : WriteAt(x, q, a)
        BY <1>1, <1>3, <3>2 DEF FileSeen, WriteAt
      <3>3. CASE \A x \in Writes : ~WriteAt(x, q, a)
        <4>1. \A x \in Writes' : ~WriteAt(x, q, a)
          BY <1>3, <3>1, <3>3
        <4> QED
          BY <1>1, <1>3, <3>3, <4>1 DEF FileSeen, WriteAt
      <3> QED
        BY <3>2, <3>3
    <2>3. /\ FileView \in [Pieces -> [Blocks -> Data]] /\ FileView' \in [Pieces -> [Blocks -> Data]]
      BY <1>1 DEF FileSeen
    <2>4. d \in Data
      BY DEF Data
    <2>5. [FileView EXCEPT ![p][b] = d] \in [Pieces -> [Blocks -> Data]]
      BY <2>3, <2>4
    <2>6. \A q \in Pieces : FileView'[q] = [FileView EXCEPT ![p][b] = d][q]
      <3>1. \A q \in Pieces, a \in Blocks :
              FileView'[q][a] = [FileView EXCEPT ![p][b] = d][q][a]
        BY <2>1, <2>2, <2>3, OneBlockChanged
      <3> QED
        BY <2>3, <2>5, <3>1
    <2> QED
      BY <2>3, <2>5, <2>6
  <1>6. Answered' = Answered
    BY <1>0, <1>1, SilentUntouched, EventSets, AnswersKept
  <1>7. Asked' = Asked
    BY DEF Write, Asked
  <1>8. ~Store!Verifying(p)
    <2>1. p \notin Named /\ ToSet(events) \cap Verdicts(p) = {}
      BY <1>1 DEF Write, VerdictsInv
    <2>2. VerificationOf(p) \notin Store!UnderWay
      BY <1>1, <2>1, UnderWayIs
    <2>3. \A r \in Store!Request : r.kind = "verify" /\ r.pieceIndex = p => r = VerificationOf(p)
      BY DEF Store!Request, Store!Verification, Store!ReadOf, VerificationOf
    <2> QED
      BY <1>1, <2>2, <2>3, UnderWayIs DEF Store!Verifying
  <1>9. (phase = "ready")' = (phase = "ready") /\ (ioErrors > 0 \/ quit)' = (ioErrors > 0 \/ quit)
    BY DEF Write
  <1> QED
    BY <1>5, <1>6, <1>7, <1>8, <1>9 DEF Write, Store!Write

(* The worker makes the file, or finds it, or fails to.                    *)
LEMMA GenerateMapped ==
    ASSUME StoreInv, GenerateFiles
    PROVE  Store!Create \/ Store!Fault \/ UNCHANGED Store!vars
  <1> USE DEF shared, worker, caller
  <1>0. Next /\ Silent
    BY DEF Next, Worker, GenerateFiles, Silent
  <1>1. TypeOK /\ TypeOK' /\ FirstInv /\ FileSeen' /\ BegunInv
    BY <1>0, BothSides DEF StoreInv
  <1>2. Answered' = Answered /\ Asked' = Asked /\ Writes' = Writes
    <2>1. Asked' = Asked /\ Writes' = Writes
      BY DEF GenerateFiles, Asked, Writes
    <2> QED
      BY <1>0, <1>1, <2>1, SilentUntouched, EventSets, AnswersKept
  <1>3. Unmoved
    BY <1>2 DEF GenerateFiles, Unmoved
  <1>4. CASE disk' = disk
    BY <1>0, <1>1, <1>2, <1>3, <1>4, SameFile, QuietMapped
  <1>5. CASE disk' = [p \in Pieces |-> Uniform("none")] /\ ioErrors' = ioErrors
    <2>1. Writes = {} /\ phase # "ready" /\ completed = {}
      BY <1>1 DEF GenerateFiles, BegunInv, FirstInv, Writes, ToSet
    <2>2. FileView' = [p \in Pieces |-> [b \in Blocks |-> "none"]]
      <3>1. \A p \in Pieces, b \in Blocks : FileView'[p][b] = "none"
        BY <1>1, <1>2, <1>5, <2>1 DEF FileSeen, Uniform
      <3>2. FileView' \in [Pieces -> [Blocks -> Data]]
        BY <1>1 DEF FileSeen
      <3>3. \A p \in Pieces : FileView'[p] = [b \in Blocks |-> "none"]
        BY <3>1, <3>2
      <3> QED
        BY <3>2, <3>3
    <2>3. (phase = "ready")' = (phase = "ready")
          /\ (ioErrors > 0 \/ quit)' = (ioErrors > 0 \/ quit)
      BY <1>5 DEF GenerateFiles
    <2> QED
      BY <1>3, <2>1, <2>2, <2>3 DEF Store!Create, Unmoved
  <1> QED
    BY <1>4, <1>5 DEF GenerateFiles

(* A write that has been done was seen in the file before.                 *)
LEMMA WriteHeadMapped ==
    ASSUME StoreInv, WriteBlock \/ Flush
    PROVE  Store!Fault \/ UNCHANGED Store!vars
  <1> USE DEF shared, worker, caller
  <1> DEFINE w == Head(newWriteRequests)
  <1>0. Next
    BY DEF Next, Worker
  <1>1. TypeOK /\ TypeOK' /\ FileSeen /\ FileSeen' /\ WritesInv /\ WritesInv'
    BY <1>0, BothSides DEF StoreInv
  <1>2. /\ WriteHead /\ Asked' = Asked
        /\ UNCHANGED <<writeRequests, quit, phase, completed, content>>
    BY DEF WriteBlock, Flush, Asked
  <1>3. /\ w \in WriteRequest /\ w \in Writes
        /\ Writes' \subseteq Writes /\ Writes \subseteq Writes' \cup {w}
        /\ disk' = Written(w) \/ (disk' = disk /\ ~quit /\ ioErrors' = ioErrors + 1)
    BY <1>1, <1>2, HeadWritten
  <1>4. Silent
    BY <1>2 DEF WriteHead, Silent
  <1>5. Unmoved
    <2>1. Answered' = Answered
      BY <1>1, <1>4, SilentUntouched, EventSets, AnswersKept
    <2> QED
      BY <1>2, <2>1 DEF Unmoved
  <1> HIDE DEF w
  <1>6. w.pieceIndex \in Pieces /\ w.offset \in Blocks
    BY <1>3, RequestTypes
  <1>7. \A x, q, a : WriteAt(x, q, a)' = WriteAt(x, q, a)
    BY DEF WriteAt
  <1>8. /\ disk \in [Pieces -> [Blocks -> Data]]
        /\ disk' = disk \/ disk' = [disk EXCEPT ![w.pieceIndex][w.offset] = w.data]
    BY <1>1, <1>3 DEF TypeOK, Written
  <1>9. \A q \in Pieces, a \in Blocks : ~WriteAt(w, q, a) => disk'[q][a] = disk[q][a]
    BY <1>6, <1>8, OneBlockChanged DEF WriteAt
  <1>10. ASSUME NEW q \in Pieces, NEW a \in Blocks, ~WriteAt(w, q, a)
         PROVE  FileView'[q][a] = FileView[q][a]
    <2>1. CASE \E x \in Writes : WriteAt(x, q, a)
      <3>1. PICK x \in Writes : WriteAt(x, q, a)
        BY <2>1
      <3>2. x \in Writes'
        BY <1>3, <1>10, <3>1
      <3> QED
        BY <1>1, <1>7, <3>1, <3>2 DEF FileSeen
    <2>2. CASE \A x \in Writes : ~WriteAt(x, q, a)
      <3>1. \A x \in Writes' : ~WriteAt(x, q, a)
        BY <1>3, <2>2
      <3> QED
        BY <1>1, <1>7, <1>9, <1>10, <2>2, <3>1 DEF FileSeen
    <2> QED
      BY <2>1, <2>2
  <1>11. FileView \in [Pieces -> [Blocks -> Data]] /\ FileView' \in [Pieces -> [Blocks -> Data]]
    BY <1>1 DEF FileSeen
  <1>12. CASE disk' = [disk EXCEPT ![w.pieceIndex][w.offset] = w.data]
    <2>1. WriteAt(w, w.pieceIndex, w.offset)
      BY DEF WriteAt
    <2>2. FileView[w.pieceIndex][w.offset] = w.data
      BY <1>1, <1>3, <1>6, <2>1 DEF FileSeen
    <2>3. disk'[w.pieceIndex][w.offset] = w.data
      BY <1>6, <1>8, <1>12, OneBlockChanged
    <2>4. FileView'[w.pieceIndex][w.offset] = w.data
      <3>1. CASE \E x \in Writes' : WriteAt(x, w.pieceIndex, w.offset)
        <4>1. PICK x \in Writes' : WriteAt(x, w.pieceIndex, w.offset)
          BY <3>1
        <4>2. x \in Writes
          BY <1>3, <4>1
        <4>3. FileView[w.pieceIndex][w.offset] = x.data
          BY <1>1, <1>6, <4>1, <4>2 DEF FileSeen
        <4>4. FileView'[w.pieceIndex][w.offset] = x.data
          BY <1>1, <1>6, <1>7, <4>1 DEF FileSeen
        <4> QED
          BY <2>2, <4>3, <4>4
      <3>2. CASE \A x \in Writes' : ~WriteAt(x, w.pieceIndex, w.offset)
        BY <1>1, <1>6, <1>7, <2>3, <3>2 DEF FileSeen
      <3> QED
        BY <3>1, <3>2
    <2>5. \A q \in Pieces, a \in Blocks : FileView'[q][a] = FileView[q][a]
      BY <1>10, <2>2, <2>4 DEF WriteAt
    <2>6. \A q \in Pieces : FileView'[q] = FileView[q]
      BY <1>11, <2>5
    <2>7. FileView' = FileView
      BY <1>11, <2>6
    <2> QED
      BY <1>0, <1>1, <1>5, <2>7, QuietMapped
  <1>13. CASE disk' # [disk EXCEPT ![w.pieceIndex][w.offset] = w.data]
    <2>1. ioErrors' > 0 \/ quit'
      BY <1>1, <1>2, <1>3, <1>13 DEF Written, TypeOK
    <2>2. ASSUME NEW q \in Store!Kept PROVE FileView'[q] = FileView[q]
      <3>1. q \in Pieces /\ w.pieceIndex # q
        BY <1>3, <2>2, KeptIs
      <3>2. \A a \in Blocks : FileView'[q][a] = FileView[q][a]
        BY <1>10, <3>1 DEF WriteAt
      <3> QED
        BY <1>11, <3>1, <3>2
    <2> QED
      BY <1>1, <1>5, <2>1, <2>2, FaultMapped
  <1> QED
    BY <1>12, <1>13

(* The worker that quits drops the rest of the writes it took.             *)
LEMMA EndWritesMapped ==
    ASSUME StoreInv, EndWrites
    PROVE  Store!Fault \/ UNCHANGED Store!vars
  <1> USE DEF shared, worker, caller
  <1>0. Next
    BY DEF Next, Worker
  <1>1. TypeOK /\ TypeOK' /\ FileSeen /\ FileSeen'
    BY <1>0, BothSides DEF StoreInv
  <1>2. Unmoved /\ disk' = disk
    BY DEF EndWrites, Unmoved, Asked, Answered
  <1>3. CASE newWriteRequests = <<>>
    <2>1. Writes' = Writes
      BY <1>3 DEF EndWrites, Writes
    <2> QED
      BY <1>0, <1>1, <1>2, <2>1, SameFile, QuietMapped
  <1>4. CASE newWriteRequests # <<>>
    <2>1. quit' /\ Writes' \subseteq Writes
      BY <1>4 DEF EndWrites, Writes, ToSet
    <2>2. ASSUME NEW q \in Store!Kept PROVE FileView'[q] = FileView[q]
      <3>1. q \in Pieces /\ (\A x \in Writes : x.pieceIndex # q)
        BY <2>2, KeptIs
      <3>2. \A a \in Blocks : FileView'[q][a] = FileView[q][a]
        BY <1>1, <1>2, <2>1, <3>1 DEF FileSeen, WriteAt
      <3>3. /\ FileView \in [Pieces -> [Blocks -> Data]]
            /\ FileView' \in [Pieces -> [Blocks -> Data]]
        BY <1>1 DEF FileSeen
      <3> QED
        BY <3>1, <3>2, <3>3
    <2> QED
      BY <1>1, <1>2, <2>1, <2>2, FaultMapped
  <1> QED
    BY <1>3, <1>4

(* A read takes its request's place with an answer, a good one unless the  *)
(* read failed: the piece was verified.                                    *)
LEMMA ReadBlockMapped ==
    ASSUME StoreInv, ReadBlock
    PROVE  \E r \in Store!Request, good \in BOOLEAN : Store!Reply(r, good)
  <1> USE DEF shared, worker, caller
  <1> DEFINE r == Head(newReadRequests)
  <1>0. Next
    BY DEF Next, Worker
  <1>1. TypeOK /\ TypeOK' /\ FileSeen /\ ReadsInv /\ VerifiedOnDisk
    BY <1>0, BothSides DEF StoreInv
  <1>2. /\ newReadRequests # <<>> /\ newReadRequests' = Tail(newReadRequests)
        /\ UNCHANGED <<readRequests, quit, phase, completed>>
        /\ Writes' = Writes /\ disk' = disk /\ Named' = Named
    BY DEF ReadBlock, Writes, Named
  <1>3. r \in ReadRequest /\ \E v \in BOOLEAN :
                                /\ Emits(DataRead(r, v))
                                /\ v => ~quit /\ Intact(r.pieceIndex)
                                /\ ~v => quit \/ ~Intact(r.pieceIndex) \/ ioErrors' = ioErrors + 1
    BY <1>1, ReadEmits
  <1>4. PICK v \in BOOLEAN :
          /\ Emits(DataRead(r, v))
          /\ ~v => quit \/ ~Intact(r.pieceIndex) \/ ioErrors' = ioErrors + 1
    BY <1>3
  <1>5. /\ newReadRequests \in Seq(ReadRequest) /\ r \in ToSet(newReadRequests)
        /\ ToSet(Tail(newReadRequests)) \subseteq ToSet(newReadRequests)
        /\ \A x \in ToSet(newReadRequests) : x = r \/ x \in ToSet(Tail(newReadRequests))
    BY <1>1, <1>2, TailMembers DEF TypeOK
  <1>6. r \notin ToSet(Tail(newReadRequests)) /\ r \notin ToSet(readRequests)
    <2>1. r.id \in ReadIds /\ r \in ReadsOf(r.id)
      BY <1>3, RequestTypes DEF ReadsOf
    <2>2. AtMostOnce(newReadRequests, ReadsOf(r.id))
      BY <1>1, <2>1 DEF ReadsInv
    <2>3. ToSet(readRequests) \cap ReadsOf(r.id) # {} => ToSet(newReadRequests) \cap ReadsOf(r.id) = {}
      BY <1>1, <2>1 DEF ReadsInv
    <2> QED
      BY <1>2, <1>5, <2>1, <2>2, <2>3, OnceTail
  <1> HIDE DEF r
  <1>7. r \in Reading /\ Reading' = Reading \ {r}
    BY <1>2, <1>5, <1>6 DEF Reading
  <1>8. ReadOf(r) \in Asked /\ Asked' = Asked \ {ReadOf(r)}
    <2>1. Asked' = {ReadOf(x) : x \in Reading'} \cup {VerificationOf(x) : x \in Named'}
      BY DEF Asked, Reading, Named, ReadOf, VerificationOf
    <2>2. Reading \subseteq ReadRequest /\ Named \subseteq Pieces
      BY <1>1, RequestsTyped
    <2>3. \A x \in Reading : ReadOf(x) = ReadOf(r) => x = r
      BY <1>3, <2>2, RequestsDiffer
    <2>4. \A x \in Named : VerificationOf(x) # ReadOf(r)
      BY <1>3, <2>2, RequestsDiffer
    <2> QED
      BY <1>2, <1>7, <2>1, <2>3, <2>4, AskedIs
  <1>9. Answered' = Answered \cup {[request |-> ReadOf(r), good |-> v]}
    <2>1. DataRead(r, v) \in Event /\ DataRead(r, v) \in Reports
      BY <1>3, EventTypes, EventSets
    <2> QED
      BY <1>1, <1>3, <1>4, <2>1, AnswerSent, AnswersDiffer
  <1>10. /\ ReadOf(r) \in Store!Request /\ ReadOf(r).pieceIndex = r.pieceIndex
         /\ r.pieceIndex \in Pieces /\ r.pieceIndex \in completed
    BY <1>1, <1>3, <1>7, RequestsDiffer, RequestTypes DEF ReadsInv, Reading
  <1>11. Intact(r.pieceIndex) /\ Store!Good(r.pieceIndex)
    BY <1>1, <1>10, PieceSeen DEF VerifiedOnDisk
  <1>12. v \/ (ioErrors > 0 \/ quit)'
    BY <1>1, <1>2, <1>4, <1>11 DEF TypeOK
  <1>13. (ioErrors > 0 \/ quit) => (ioErrors > 0 \/ quit)'
    BY <1>0, <1>1, FailuresKept
  <1>14. FileView' = FileView /\ (phase = "ready")' = (phase = "ready") /\ completed' = completed
    BY <1>2, SameFile
  <1>15. Store!Reply(ReadOf(r), v)
    BY <1>8, <1>9, <1>10, <1>11, <1>12, <1>13, <1>14 DEF Store!Reply
  <1> QED
    BY <1>10, <1>15

(* A piece is looked at when no write waits: the file on disk is the one   *)
(* that the caller sees.                                                   *)
LEMMA VerifySingleMapped ==
    ASSUME StoreInv, VerifySinglePiece
    PROVE  \E r \in Store!Request, good \in BOOLEAN : Store!Reply(r, good)
  <1> USE DEF shared, worker, caller
  <1> DEFINE p == Head(newPendingVerificationRequests)
             r == VerificationOf(p)
  <1>0. Next
    BY DEF Next, Worker
  <1>1. TypeOK /\ TypeOK' /\ FileSeen /\ ListsInv /\ VerdictsInv
    BY <1>0, BothSides DEF StoreInv
  <1>2. /\ newPendingVerificationRequests # <<>>
        /\ newPendingVerificationRequests' = Tail(newPendingVerificationRequests)
        /\ pendingVerificationRequests = <<>> /\ pendingVerificationRequests' = <<>>
        /\ UNCHANGED <<quit, phase, completed>>
        /\ Writes = {} /\ Writes' = Writes /\ disk' = disk /\ Reading' = Reading
    BY <1>1 DEF VerifySinglePiece, ListsInv, Writes, Reading, ToSet
  <1>3. p \in Pieces /\ \E v \in BOOLEAN :
                           /\ Emits(PieceVerified(p, v))
                           /\ v => ~quit /\ Intact(p)
                           /\ ~v => quit \/ ~Intact(p) \/ ioErrors' = ioErrors + 1
    BY <1>1, SingleEmits
  <1>4. PICK v \in BOOLEAN :
          /\ Emits(PieceVerified(p, v))
          /\ v => Intact(p)
          /\ ~v => quit \/ ~Intact(p) \/ ioErrors' = ioErrors + 1
    BY <1>3
  <1>5. /\ newPendingVerificationRequests \in Seq(Pieces)
        /\ p \in ToSet(newPendingVerificationRequests)
        /\ ToSet(Tail(newPendingVerificationRequests)) \subseteq ToSet(newPendingVerificationRequests)
        /\ \A x \in ToSet(newPendingVerificationRequests) :
              x = p \/ x \in ToSet(Tail(newPendingVerificationRequests))
    BY <1>1, <1>2, TailMembers DEF TypeOK
  <1>6. p \notin ToSet(Tail(newPendingVerificationRequests))
    <2>1. AtMostOnce(newPendingVerificationRequests, {p})
      BY <1>1, <1>3 DEF VerdictsInv
    <2> QED
      BY <1>2, <1>5, <2>1, OnceTail
  <1>7. p \in Named /\ Named' = Named \ {p}
    BY <1>2, <1>5, <1>6 DEF Named, ToSet
  <1> HIDE DEF p, r
  <1>8. r \in Asked /\ Asked' = Asked \ {r}
    <2>1. Asked' = {ReadOf(x) : x \in Reading'} \cup {VerificationOf(x) : x \in Named'}
      BY DEF Asked, Reading, Named, ReadOf, VerificationOf
    <2>2. Reading \subseteq ReadRequest /\ Named \subseteq Pieces
      BY <1>1, RequestsTyped
    <2>3. \A x \in Named : VerificationOf(x) = r => x = p
      BY <1>3, <2>2, RequestsDiffer DEF r
    <2>4. \A x \in Reading : ReadOf(x) # r
      BY <1>3, <2>2, RequestsDiffer DEF r
    <2>5. r \in Asked
      BY <1>7, AskedIs DEF r
    <2>6. \A x \in Named : x # p => VerificationOf(x) \in Asked'
      BY <1>7, <2>1
    <2>7. Asked' \subseteq Asked
      BY <1>2, <1>7, <2>1, AskedIs
    <2>8. r \notin Asked'
      BY <1>2, <1>7, <2>1, <2>3, <2>4
    <2>9. ASSUME NEW a \in Asked, a # r PROVE a \in Asked'
      <3>1. CASE \E x \in Reading : a = ReadOf(x)
        BY <1>2, <2>1, <3>1
      <3>2. CASE \E x \in Named : a = VerificationOf(x)
        BY <2>6, <2>9, <3>2 DEF r
      <3> QED
        BY <3>1, <3>2, AskedIs
    <2> QED
      BY <2>5, <2>7, <2>8, <2>9
  <1>9. Answered' = Answered \cup {[request |-> r, good |-> v]}
    <2>1. PieceVerified(p, v) \in Event /\ PieceVerified(p, v) \in Reports
      BY <1>3, EventTypes, EventSets
    <2>2. AnswerOf(PieceVerified(p, v)) = [request |-> r, good |-> v]
      BY <1>3, AnswersDiffer DEF r
    <2> QED
      BY <1>1, <1>4, <2>1, <2>2, AnswerSent
  <1>10. r \in Store!Request /\ r.pieceIndex = p
    BY <1>3, RequestsDiffer DEF r
  <1>11. Store!Good(p) <=> Intact(p)
    BY <1>1, <1>2, <1>3, PieceSeen
  <1>12. v \/ (ioErrors > 0 \/ quit)' \/ ~Store!Good(p)
    BY <1>1, <1>2, <1>4, <1>11 DEF TypeOK
  <1>13. (ioErrors > 0 \/ quit) => (ioErrors > 0 \/ quit)'
    BY <1>0, <1>1, FailuresKept
  <1>14. FileView' = FileView /\ (phase = "ready")' = (phase = "ready") /\ completed' = completed
    BY <1>2, SameFile
  <1>15. Store!Reply(r, v)
    BY <1>4, <1>8, <1>9, <1>10, <1>11, <1>12, <1>13, <1>14 DEF Store!Reply
  <1> QED
    BY <1>10, <1>15

(* The GUI thread hears of the first verification, of a verdict, of a read *)
(* or of something that concerns no request.                               *)
LEMMA DispatchMapped ==
    ASSUME StoreInv, Dispatch
    PROVE  \/ Store!Ready \/ Store!Fault \/ UNCHANGED Store!vars
           \/ \E a \in Answered : Store!Deliver(a)
  <1> USE DEF shared, worker, caller
  <1> DEFINE e == Head(events)
  <1>0. Next
    BY DEF Next
  <1>1. /\ TypeOK /\ TypeOK' /\ FileSeen /\ FileSeen'
        /\ ReadsInv /\ VerdictsInv /\ FirstInv /\ BegunInv /\ VerifiedOnDisk
    BY <1>0, BothSides DEF StoreInv
  <1>2. /\ events # <<>> /\ events' = Tail(events)
        /\ UNCHANGED <<quit, ioErrors, verifiedPieces>>
        /\ Writes' = Writes /\ disk' = disk /\ Asked' = Asked
    BY DEF Dispatch, Writes, Asked
  <1>3. /\ e \in Event /\ e \in ToSet(events)
        /\ \A A : e \notin A => Untouched(A)
    BY <1>1, <1>2, TakenOut
  <1>4. \/ e.kind = "wakeUp" /\ WakeUp
        \/ e.kind = "verificationDone" /\ OnVerificationDone
        \/ e.kind = "pieceVerified" /\ OnPieceVerified(e)
        \/ e.kind = "dataRead" /\ OnDataRead(e)
        \/ e.kind = "error" /\ OnError
    BY DEF Dispatch
  <1>5. e \in Reports => AnswerOf(e) \in Answered /\ Answered' = Answered \ {AnswerOf(e)}
    BY <1>1, <1>2, AnswerTaken
  <1> HIDE DEF e
  <1>6. e \notin Reports => Answered' = Answered
    BY <1>1, <1>3, AnswersKept
  <1>7. FileView' = FileView /\ (ioErrors > 0 \/ quit)' = (ioErrors > 0 \/ quit)
    BY <1>2, SameFile
  <1>8. CASE \/ e.kind = "wakeUp" /\ WakeUp
             \/ e.kind = "error" /\ OnError
    <2>1. e \notin Reports /\ phase' = phase /\ completed' = completed
      BY <1>8 DEF Reports, WakeUp, OnError
    <2> QED
      BY <1>0, <1>1, <1>2, <1>6, <1>7, <2>1, QuietMapped DEF Unmoved
  <1>9. CASE e.kind = "verificationDone" /\ OnVerificationDone
    <2>1. e = VerificationDone /\ e \notin Reports
      BY <1>3, <1>9, NoVerdicts DEF Reports
    <2>2. phase # "ready" /\ phase' = "ready" /\ completed' = verifiedPieces
      BY <1>1, <1>3, <1>9, <2>1 DEF BegunInv, OnVerificationDone
    <2>3. Writes = {}
      BY <1>1, <2>2 DEF FirstInv, Writes, ToSet
    <2>4. \A p \in Pieces : Store!Good(p) <=> Intact(p)
      BY <1>1, <2>3, PieceSeen
    <2>5. completed' \subseteq {p \in Pieces : Store!Good(p)}
      BY <1>1, <2>2, <2>4 DEF VerifiedOnDisk, TypeOK
    <2>6. (ioErrors > 0 \/ quit) \/ completed' = {p \in Pieces : Store!Good(p)}
      <3> SUFFICES ASSUME ~(ioErrors > 0 \/ quit) PROVE completed' = {p \in Pieces : Store!Good(p)}
        OBVIOUS
      <3>1. Healthy
        BY <1>1 DEF Healthy, TypeOK
      <3>2. verifiedPieces = {p \in Pieces : Intact(p)}
        BY <1>1, <1>3, <2>1, <2>2, <3>1 DEF BegunInv
      <3> QED
        BY <2>2, <2>4, <3>2
    <2>7. ~(phase = "ready") /\ (phase = "ready")' = TRUE
      BY <2>2
    <2> QED
      BY <1>2, <1>6, <1>7, <2>1, <2>5, <2>6, <2>7 DEF Store!Ready
  <1>10. CASE e.kind = "pieceVerified" /\ OnPieceVerified(e)
    <2>1. e \in Reports /\ e.pieceIndex \in Pieces /\ e.verified \in BOOLEAN
      BY <1>3, <1>10, EventTypes DEF Reports
    <2>2. AnswerOf(e) = [request |-> VerificationOf(e.pieceIndex), good |-> e.verified]
      BY <1>10 DEF AnswerOf
    <2>3. AnswerOf(e).good = e.verified /\ AnswerOf(e).request.pieceIndex = e.pieceIndex
      BY <2>2 DEF VerificationOf
    <2>4. completed' = IF AnswerOf(e).good THEN completed \cup {AnswerOf(e).request.pieceIndex}
                       ELSE completed
      BY <1>10, <2>3 DEF OnPieceVerified
    <2>5. (phase = "ready")' = (phase = "ready")
      BY <1>10 DEF OnPieceVerified
    <2>6. Store!Deliver(AnswerOf(e))
      BY <1>2, <1>5, <1>7, <2>1, <2>4, <2>5 DEF Store!Deliver
    <2> QED
      BY <1>5, <2>1, <2>6
  <1>11. CASE e.kind = "dataRead" /\ OnDataRead(e)
    <2>1. e \in Reports /\ e.request \in ReadRequest /\ e = DataRead(e.request, e.intact)
          /\ e.intact \in BOOLEAN
      BY <1>3, <1>11, EventSets DEF Reports
    <2>2. AnswerOf(e) = [request |-> ReadOf(e.request), good |-> e.intact]
      BY <1>11 DEF AnswerOf
    <2>3. AnswerOf(e).request.pieceIndex = e.request.pieceIndex
      BY <2>2 DEF ReadOf
    <2>4. e.request.pieceIndex \in completed
      BY <1>1, <1>3, <2>1 DEF ReadsInv
    <2>5. completed' = IF AnswerOf(e).good THEN completed \cup {AnswerOf(e).request.pieceIndex}
                       ELSE completed
      BY <1>11, <2>3, <2>4 DEF OnDataRead
    <2>6. (phase = "ready")' = (phase = "ready")
      BY <1>11 DEF OnDataRead
    <2>7. Store!Deliver(AnswerOf(e))
      BY <1>2, <1>5, <1>7, <2>1, <2>5, <2>6 DEF Store!Deliver
    <2> QED
      BY <1>5, <2>1, <2>7
  <1> QED
    BY <1>4, <1>8, <1>9, <1>10, <1>11

(* The rest of what the two threads do is hidden.                          *)
LEMMA HiddenMapped ==
    ASSUME StoreInv,
           \/ StartDataVerification \/ SetQuit \/ SignalQuit \/ JoinWorker
           \/ Check \/ Wait \/ TakeReads \/ TakeWrites \/ SkipVerification
           \/ TakeVerifications \/ VerifyAll \/ EndVerification
           \/ Loop \/ LeaveLoop \/ EndThread
    PROVE  Store!Fault \/ UNCHANGED Store!vars
  <1> USE DEF shared, worker, caller
  <1>0. Next
    BY DEF Next, Caller, Worker
  <1>1. TypeOK /\ TypeOK' /\ FileSeen' /\ ListsInv /\ ReadsInv
    BY <1>0, BothSides DEF StoreInv
  <1>3. /\ disk' = disk /\ completed' = completed
        /\ phase' = "ready" <=> phase = "ready"
    BY DEF StartDataVerification, SetQuit, SignalQuit, JoinWorker, Check, Wait, TakeReads,
           TakeWrites, SkipVerification, TakeVerifications, VerifyAll, EndVerification, Loop,
           LeaveLoop, EndThread
  <1>4. Writes' = Writes
    <2>1. CASE TakeWrites \/ LeaveLoop
      <3>1. newWriteRequests = <<>> /\ newWriteRequests' = writeRequests /\ writeRequests' = <<>>
        BY <1>1, <2>1 DEF TakeWrites, LeaveLoop, ListsInv
      <3> QED
        BY <3>1 DEF Writes, ToSet
    <2>2. CASE ~(TakeWrites \/ LeaveLoop)
      BY <2>2 DEF StartDataVerification, SetQuit, SignalQuit, JoinWorker, Check, Wait, TakeReads,
              SkipVerification, TakeVerifications, VerifyAll, EndVerification, Loop, EndThread,
              Writes
    <2> QED
      BY <2>1, <2>2
  <1>5. Reading' = Reading
    <2>1. CASE TakeReads
      <3>1. newReadRequests = <<>> /\ newReadRequests' = readRequests /\ readRequests' = <<>>
        BY <1>1, <2>1 DEF TakeReads, ReadsInv
      <3> QED
        BY <3>1 DEF Reading, ToSet
    <2>2. CASE ~TakeReads
      BY <2>2 DEF StartDataVerification, SetQuit, SignalQuit, JoinWorker, Check, Wait, TakeWrites,
              SkipVerification, TakeVerifications, VerifyAll, EndVerification, Loop, LeaveLoop,
              EndThread, Reading
    <2> QED
      BY <2>1, <2>2
  <1>6. Named' = Named
    <2>1. CASE TakeVerifications
      <3>1. /\ newPendingVerificationRequests = <<>> /\ pendingVerificationRequests' = <<>>
            /\ newPendingVerificationRequests' = pendingVerificationRequests
        BY <1>1, <2>1 DEF TakeVerifications, ListsInv
      <3> QED
        BY <3>1 DEF Named, ToSet
    <2>2. CASE ~TakeVerifications
      BY <2>2 DEF StartDataVerification, SetQuit, SignalQuit, JoinWorker, Check, Wait, TakeReads,
              TakeWrites, SkipVerification, VerifyAll, EndVerification, Loop, LeaveLoop,
              EndThread, Named
    <2> QED
      BY <2>1, <2>2
  <1>7. Asked' = Asked
    <2>1. Asked' = {ReadOf(x) : x \in Reading'} \cup {VerificationOf(x) : x \in Named'}
      BY DEF Asked, Reading, Named, ReadOf, VerificationOf
    <2> QED
      BY <1>5, <1>6, <2>1, AskedIs
  <1>8. Answered' = Answered
    <2>1. CASE VerifyAll
      <3>1. Emits(VerificationDone) /\ VerificationDone \in Event
        BY <1>1, <2>1, AllEmits
      <3>2. Untouched(Reports)
        BY <1>1, <3>1, EmitsOnce, EventSets
      <3> QED
        BY <1>1, <3>2, AnswersKept
    <2>2. CASE ~VerifyAll
      BY <2>2 DEF StartDataVerification, SetQuit, SignalQuit, JoinWorker, Check, Wait, TakeReads,
              TakeWrites, SkipVerification, TakeVerifications, EndVerification, Loop,
              LeaveLoop, EndThread, Answered
    <2> QED
      BY <2>1, <2>2
  <1> QED
    BY <1>0, <1>1, <1>3, <1>4, <1>7, <1>8, SameFile, QuietMapped DEF Unmoved

LEMMA StepMapped == StoreInv /\ [Next]_vars => [Store!Next]_(Store!vars)
  <1> SUFFICES ASSUME StoreInv, [Next]_vars PROVE Store!Next \/ UNCHANGED Store!vars
    OBVIOUS
  <1>1. CASE \E p \in Pieces : Read(p) \/ VerifyPiece(p)
    BY <1>1, ReadMapped, VerifyPieceMapped DEF Store!Next
  <1>2. CASE \E p \in Pieces, b \in Blocks, d \in {"good", "bad"} : Write(p, b, d)
    BY <1>2, WriteMapped DEF Store!Next
  <1>3. CASE Dispatch
    BY <1>3, DispatchMapped DEF Store!Next
  <1>4. CASE GenerateFiles \/ WriteBlock \/ Flush \/ EndWrites
    BY <1>4, GenerateMapped, WriteHeadMapped, EndWritesMapped DEF Store!Next
  <1>5. CASE ReadBlock \/ VerifySinglePiece
    BY <1>5, ReadBlockMapped, VerifySingleMapped DEF Store!Next
  <1>6. CASE \/ StartDataVerification \/ SetQuit \/ SignalQuit \/ JoinWorker
             \/ Check \/ Wait \/ TakeReads \/ TakeWrites \/ SkipVerification
             \/ TakeVerifications \/ VerifyAll \/ EndVerification
             \/ Loop \/ LeaveLoop \/ EndThread
    BY <1>6, HiddenMapped DEF Store!Next
  <1>7. CASE UNCHANGED vars
    <2>1. UNCHANGED <<FileView, completed, Asked, Answered>>
      BY <1>7 DEF vars, shared, worker, caller, FileView, Asked, Answered, Writes
    <2>2. (phase = "ready")' = (phase = "ready") /\ (ioErrors > 0 \/ quit)' = (ioErrors > 0 \/ quit)
      BY <1>7 DEF vars, shared, caller
    <2> QED
      BY <2>1, <2>2 DEF Store!vars
  <1> QED
    BY <1>1, <1>2, <1>3, <1>4, <1>5, <1>6, <1>7 DEF Next, Caller, Worker

LEMMA InitMapped == Init => Store!Init
  <1> SUFFICES ASSUME Init PROVE Store!Init
    OBVIOUS
  <1>1. TypeOK /\ FileSeen
    <2>1. StoreInv
      BY InitStored
    <2> QED
      BY <2>1, FileIsSeen DEF StoreInv, DiskInv
  <1>2. Writes = {} /\ Asked = {} /\ Answered = {}
    BY DEF Init, Writes, Asked, Answered, ToSet
  <1>3. FileView \in [Pieces -> [Blocks -> {"none", "good"}]]
    <2>1. \A p \in Pieces, b \in Blocks : disk[p][b] \in {"none", "good"}
      BY DEF Init, Uniform
    <2>2. \A p \in Pieces, b \in Blocks : FileView[p][b] \in {"none", "good"}
      BY <1>1, <1>2, <2>1 DEF FileSeen
    <2>3. FileView \in [Pieces -> [Blocks -> Data]]
      BY <1>1 DEF FileSeen
    <2>4. \A p \in Pieces : FileView[p] \in [Blocks -> {"none", "good"}]
      BY <2>2, <2>3
    <2> QED
      BY <2>3, <2>4
  <1>4. (phase = "ready") = FALSE /\ (ioErrors > 0 \/ quit) = FALSE /\ completed = {}
    BY DEF Init
  <1> QED
    BY <1>2, <1>3, <1>4 DEF Store!Init

(* The queues, the second thread and the wake-up calls are invisible to    *)
(* the torrent: to it the file manager is a file whose writes take place   *)
(* at once and whose requests are answered once each, truly unless         *)
(* something failed; and no failure costs a piece that was verified.       *)
THEOREM ImplementsStore == Spec => ImplementsFileStore
  <1>1. Init => Store!Init
    BY InitMapped
  <1>2. StoreInv /\ [Next]_vars => [Store!Next]_(Store!vars)
    BY StepMapped
  <1> QED
    BY <1>1, <1>2, StoredAlways, PTL DEF Spec, ImplementsFileStore, Store!Spec

(* The theorem about the file store, under the refinement mapping.         *)
Promised == INSTANCE FileStoreProofs WITH
            file <- FileView, ready <- phase = "ready", complete <- completed,
            asked <- Asked, answered <- Answered, faulty <- ioErrors > 0 \/ quit

(* So what is proved of the file store holds of the file manager: what it  *)
(* tells the torrent of a piece stays true of the file, and no request has *)
(* an answer while it still waits for one.                                 *)
THEOREM StorePromisesKept == Spec => []Store!Trustworthy
  <1>1. Promised!Spec => []Promised!Trustworthy
    BY Promised!StoreIsTrustworthy
  <1>2. Promised!Init <=> Store!Init
    BY DEF Store!Init, Promised!Init
  <1>3. /\ Store!Request = Promised!Request /\ Store!Kept = Promised!Kept
        /\ Store!UnderWay = Promised!UnderWay /\ Store!vars = Promised!vars
        /\ \A p : Store!Good(p) <=> Promised!Good(p)
    BY DEF Store!Request, Promised!Request, Store!Verification, Promised!Verification,
           Store!ReadOf, Promised!ReadOf, Store!Kept, Promised!Kept, Store!UnderWay,
           Promised!UnderWay, Store!vars, Promised!vars, Store!Good, Promised!Good
  <1>4. [Promised!Next]_(Promised!vars) <=> [Store!Next]_(Store!vars)
    <2>1. /\ \A r : Store!Ask(r) <=> Promised!Ask(r)
          /\ \A r, g : Store!Reply(r, g) <=> Promised!Reply(r, g)
          /\ \A a : Store!Deliver(a) <=> Promised!Deliver(a)
          /\ \A p, b, d : Store!Write(p, b, d) <=> Promised!Write(p, b, d)
      BY <1>3
         DEF Store!Ask, Promised!Ask, Store!Reply, Promised!Reply,
             Store!Deliver, Promised!Deliver, Store!Write, Promised!Write,
             Store!Verifying, Promised!Verifying
    <2>2. /\ Store!Create <=> Promised!Create
          /\ Store!Ready <=> Promised!Ready
          /\ Store!Fault <=> Promised!Fault
      BY <1>3
         DEF Store!Create, Promised!Create, Store!Ready, Promised!Ready,
             Store!Fault, Promised!Fault, Store!Contents, Promised!Contents
    <2>3. UNCHANGED Store!vars <=> UNCHANGED Promised!vars
      BY DEF Store!vars, Promised!vars
    <2> QED
      BY <1>3, <2>1, <2>2, <2>3 DEF Store!Next, Promised!Next
  <1>5. Promised!Trustworthy <=> Store!Trustworthy
    BY <1>3 DEF Store!Trustworthy, Promised!Trustworthy
  <1> QED
    BY <1>1, <1>2, <1>4, <1>5, ImplementsStore, PTL
       DEF ImplementsFileStore, Store!Spec, Promised!Spec
=============================================================================
