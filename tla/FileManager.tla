---------------------------- MODULE FileManager ----------------------------
(***************************************************************************)
(* The file manager of one torrent (src/Client/filemanager.cpp): a QThread *)
(* (the worker) that owns the file on disk, and the slots and methods the  *)
(* GUI thread calls on it.  The two share three request queues under one   *)
(* mutex and one condition variable.  The worker's answers, and the queued *)
(* call of wakeUp, are events in the GUI thread's event queue.             *)
(*                                                                         *)
(* The caller (TorrentClient) is modelled as far as it constrains the      *)
(* calls: it verifies everything first, writes each missing block once,    *)
(* asks for the verification of a piece when its last block is written,    *)
(* and starts the piece again when the verdict is negative.                *)
(* Its writes fit their blocks, as they do when the peers send whole       *)
(* blocks; TorrentClient.tla also has peers that do not.                   *)
(***************************************************************************)
EXTENDS Integers, FiniteSets, SequencesExt

CONSTANTS
    NumPieces,        \* number of pieces of the file
    BlocksPerPiece,   \* number of blocks of a piece
    MaxReads,         \* bound: read requests issued in a behaviour
    MaxIoErrors       \* bound: failing file operations in a behaviour

ASSUME FMAssumption == /\ NumPieces \in Nat \ {0}
                       /\ BlocksPerPiece \in Nat \ {0}
                       /\ MaxReads \in Nat
                       /\ MaxIoErrors \in Nat

Pieces  == 0 .. NumPieces - 1
Blocks  == 0 .. BlocksPerPiece - 1
ReadIds == 0 .. MaxReads - 1
Data    == {"none", "good", "bad"}

VARIABLES
    \* guarded by the mutex
    readRequests, writeRequests, pendingVerificationRequests,
    startVerification, wokeUp, verifiedPieces,
    \* written by the destructor without the mutex
    quit,
    \* the worker: program counter, the lists it took, the file
    pc, newReadRequests, newWriteRequests, newPendingVerificationRequests,
    newFile, disk,
    \* the GUI thread: its event queue and the caller's state
    events, gui, phase, readId, readIds, content, verifying, completed,
    \* counts failing file operations
    ioErrors

shared == <<readRequests, writeRequests, pendingVerificationRequests,
            startVerification, wokeUp, verifiedPieces, quit>>
worker == <<pc, newReadRequests, newWriteRequests,
            newPendingVerificationRequests, newFile, disk>>
caller == <<gui, phase, readId, readIds, content, verifying, completed>>
vars   == <<shared, worker, events, caller, ioErrors>>

-----------------------------------------------------------------------------
(* Requests and events.                                                    *)

ReadRequest  == [id : ReadIds, pieceIndex : Pieces]
WriteRequest == [pieceIndex : Pieces, offset : Blocks, data : {"good", "bad"}]

WakeUpCall          == [kind |-> "wakeUp"]
ErrorEvent          == [kind |-> "error"]
VerificationDone    == [kind |-> "verificationDone"]
PieceVerified(p, v) == [kind |-> "pieceVerified", pieceIndex |-> p, verified |-> v]
DataRead(r, v)      == [kind |-> "dataRead", request |-> r, intact |-> v]

Event == {WakeUpCall, ErrorEvent, VerificationDone}
           \cup {PieceVerified(p, v) : p \in Pieces, v \in BOOLEAN}
           \cup {DataRead(r, v) : r \in ReadRequest, v \in BOOLEAN}

Uniform(d) == [b \in Blocks |-> d]

(* The mutex is held by the worker across its steps only while it writes   *)
(* and verifies, and between the test for work and the wait.  A call from  *)
(* the GUI thread takes and releases it in one step.                       *)
MutexFree == pc \notin {"wait", "write", "verify", "verifyNext"}

NothingToDo == /\ ~quit
               /\ readRequests = <<>>
               /\ writeRequests = <<>>
               /\ ~startVerification

Init ==
    /\ readRequests = <<>> /\ writeRequests = <<>>
    /\ pendingVerificationRequests = <<>>
    /\ startVerification = FALSE /\ wokeUp = FALSE /\ quit = FALSE
    /\ verifiedPieces = {}
    /\ pc = "generateFiles"
    /\ newReadRequests = <<>> /\ newWriteRequests = <<>>
    /\ newPendingVerificationRequests = <<>>
    /\ newFile = FALSE
    /\ disk \in [Pieces -> {Uniform("none"), Uniform("good")}]
    /\ events = <<>>
    /\ gui = "running" /\ phase = "start"
    /\ readId = 0 /\ readIds = {}
    /\ content = [p \in Pieces |-> Uniform("none")]
    /\ verifying = {} /\ completed = {}
    /\ ioErrors = 0

-----------------------------------------------------------------------------
(* The GUI thread.                                                         *)

Running == gui = "running"

(* The queued call of wakeUp is posted unless one is in the queue already. *)
PostWakeUp == /\ wokeUp' = TRUE
              /\ events' = IF wokeUp THEN events ELSE Append(events, WakeUpCall)

(* cond.wakeOne(): releases the worker if it waits, else nothing.          *)
WakeOne == pc' = IF pc = "asleep" THEN "woken" ELSE pc

(* Mutant: the condition is not signalled.                                 *)
StartUnsignalled ==
    /\ Running /\ MutexFree /\ phase = "start"
    /\ phase' = "preparing"
    /\ startVerification' = TRUE
    /\ UNCHANGED <<pc, readRequests, writeRequests, pendingVerificationRequests, wokeUp,
                   verifiedPieces, quit, newReadRequests, newWriteRequests,
                   newPendingVerificationRequests, newFile, disk, events, gui,
                   readId, readIds, content, verifying, completed, ioErrors>>

(* TorrentClient::start starts the thread and asks for the verification of *)
(* the whole file.                                                         *)
StartDataVerification ==
    /\ Running /\ MutexFree /\ phase = "start"
    /\ phase' = "preparing"
    /\ startVerification' = TRUE
    /\ WakeOne
    /\ UNCHANGED <<readRequests, writeRequests, pendingVerificationRequests, wokeUp,
                   verifiedPieces, quit, newReadRequests, newWriteRequests,
                   newPendingVerificationRequests, newFile, disk, events, gui,
                   readId, readIds, content, verifying, completed, ioErrors>>

(* Mutant: the request is queued and nobody is woken.                      *)
ReadUnposted(p) ==
    /\ Running /\ MutexFree /\ p \in completed /\ readId < MaxReads
    /\ readRequests' = Append(readRequests, [id |-> readId, pieceIndex |-> p])
    /\ readId' = readId + 1
    /\ readIds' = readIds \cup {readId}
    /\ UNCHANGED <<wokeUp, events, writeRequests, pendingVerificationRequests,
                   startVerification, verifiedPieces, quit, worker, gui, phase, content,
                   verifying, completed, ioErrors>>

(* Requests of peers for pieces the client lacks are ignored.              *)
Read(p) ==
    /\ Running /\ MutexFree /\ p \in completed /\ readId < MaxReads
    /\ readRequests' = Append(readRequests, [id |-> readId, pieceIndex |-> p])
    /\ readId' = readId + 1
    /\ readIds' = readIds \cup {readId}
    /\ PostWakeUp
    /\ UNCHANGED <<writeRequests, pendingVerificationRequests, startVerification,
                   verifiedPieces, quit, worker, gui, phase, content, verifying,
                   completed, ioErrors>>

(* Mutant: a block of a complete piece is written too.                     *)
WriteAnyPiece(p, b, d) ==
    /\ Running /\ MutexFree /\ phase = "ready" /\ content[p][b] = "none"
    /\ content' = [content EXCEPT ![p][b] = d]
    /\ writeRequests' = Append(writeRequests, [pieceIndex |-> p, offset |-> b, data |-> d])
    /\ PostWakeUp
    /\ UNCHANGED <<readRequests, pendingVerificationRequests, startVerification,
                   verifiedPieces, quit, worker, gui, phase, readId, readIds,
                   verifying, completed, ioErrors>>

(* A block that arrives is written unless its piece is complete or full.   *)
(* When it was the piece's last one the caller asks for the verification   *)
(* of the piece in the same handler; both calls take the mutex.            *)
Write(p, b, d) ==
    /\ Running /\ MutexFree /\ phase = "ready"
    /\ p \notin completed /\ content[p][b] = "none"
    /\ content' = [content EXCEPT ![p][b] = d]
    /\ writeRequests' = Append(writeRequests, [pieceIndex |-> p, offset |-> b, data |-> d])
    /\ PostWakeUp
    /\ UNCHANGED <<readRequests, pendingVerificationRequests, startVerification,
                   verifiedPieces, quit, worker, gui, phase, readId, readIds,
                   verifying, completed, ioErrors>>

(* Mutant: the flag that the worker tests is not set.                      *)
VerifyPieceUnflagged(p) ==
    /\ Running /\ MutexFree /\ phase = "ready"
    /\ p \notin completed \cup verifying
    /\ \A b \in Blocks : content[p][b] # "none"
    /\ verifying' = verifying \cup {p}
    /\ pendingVerificationRequests' = Append(pendingVerificationRequests, p)
    /\ PostWakeUp
    /\ UNCHANGED <<startVerification, readRequests, writeRequests, verifiedPieces, quit,
                   worker, gui, phase, readId, readIds, content, completed, ioErrors>>

VerifyPiece(p) ==
    /\ Running /\ MutexFree /\ phase = "ready"
    /\ p \notin completed \cup verifying
    /\ \A b \in Blocks : content[p][b] # "none"
    /\ verifying' = verifying \cup {p}
    /\ pendingVerificationRequests' = Append(pendingVerificationRequests, p)
    /\ startVerification' = TRUE
    /\ PostWakeUp
    /\ UNCHANGED <<readRequests, writeRequests, verifiedPieces, quit, worker, gui,
                   phase, readId, readIds, content, completed, ioErrors>>

(* Mutant: the flag that a call is posted stays up.                        *)
WakeUpUncleared ==
    /\ MutexFree
    /\ WakeOne
    /\ UNCHANGED <<wokeUp, phase, readIds, content, verifying, completed>>

(* What the GUI thread does with the event e it takes from its queue.      *)
WakeUp ==
    /\ MutexFree
    /\ wokeUp' = FALSE
    /\ WakeOne
    /\ UNCHANGED <<phase, readIds, content, verifying, completed>>

OnVerificationDone ==
    /\ phase' = "ready"
    /\ completed' = verifiedPieces
    /\ UNCHANGED <<wokeUp, pc, readIds, content, verifying>>

(* Mutant: the verdict is not looked at.                                   *)
OnPieceVerifiedTrusting(e) ==
    LET p == e.pieceIndex IN
    /\ verifying' = verifying \ {p}
    /\ completed' = completed \cup {p}
    /\ UNCHANGED <<content, wokeUp, pc, phase, readIds>>

OnPieceVerified(e) ==
    LET p == e.pieceIndex IN
    /\ verifying' = verifying \ {p}
    /\ IF e.verified
       THEN completed' = completed \cup {p} /\ UNCHANGED content
       ELSE content' = [content EXCEPT ![p] = Uniform("none")] /\ UNCHANGED completed
    /\ UNCHANGED <<wokeUp, pc, phase, readIds>>

OnDataRead(e) ==
    /\ readIds' = readIds \ {e.request.id}
    /\ UNCHANGED <<wokeUp, pc, phase, content, verifying, completed>>

OnError == UNCHANGED <<wokeUp, pc, phase, readIds, content, verifying, completed>>

Dispatch ==
    /\ Running /\ events # <<>>
    /\ events' = Tail(events)
    /\ LET e == Head(events) IN
       \/ e.kind = "wakeUp" /\ WakeUp
       \/ e.kind = "verificationDone" /\ MutexFree /\ OnVerificationDone
       \/ e.kind = "pieceVerified" /\ OnPieceVerified(e)
       \/ e.kind = "dataRead" /\ OnDataRead(e)
       \/ e.kind = "error" /\ OnError
    /\ UNCHANGED <<readRequests, writeRequests, pendingVerificationRequests,
                   startVerification, verifiedPieces, quit, newReadRequests,
                   newWriteRequests, newPendingVerificationRequests, newFile, disk,
                   gui, readId, ioErrors>>

(* The destructor: quit is set and the condition is signalled without the  *)
(* mutex; then the GUI thread blocks until the worker has ended.           *)
SetQuit ==
    /\ Running
    /\ gui' = "signalling" /\ quit' = TRUE
    /\ UNCHANGED <<readRequests, writeRequests, pendingVerificationRequests,
                   startVerification, wokeUp, verifiedPieces, worker, events, phase,
                   readId, readIds, content, verifying, completed, ioErrors>>

SignalQuit ==
    /\ gui = "signalling"
    /\ gui' = "waiting"
    /\ WakeOne
    /\ UNCHANGED <<shared, newReadRequests, newWriteRequests,
                   newPendingVerificationRequests, newFile, disk, events, phase,
                   readId, readIds, content, verifying, completed, ioErrors>>

JoinWorker ==
    /\ gui = "waiting" /\ pc = "done"
    /\ gui' = "gone"
    /\ UNCHANGED <<shared, worker, events, phase, readId, readIds, content,
                   verifying, completed, ioErrors>>

-----------------------------------------------------------------------------
(* The worker thread.  While it runs a step the file operation may fail;   *)
(* every failure emits error().                                            *)

Fails == ioErrors < MaxIoErrors

(* Creating, opening or resizing the file fails, or all is well.  A file   *)
(* whose size was wrong is new: its contents are not worth a look.         *)
GenerateFiles ==
    /\ pc = "generateFiles"
    /\ \/ /\ pc' = "check" /\ UNCHANGED <<events, ioErrors>>
          /\ \/ newFile' = TRUE /\ disk' = [p \in Pieces |-> Uniform("none")]
             \/ UNCHANGED <<newFile, disk>>
       \/ /\ Fails /\ ioErrors' = ioErrors + 1
          /\ events' = Append(events, ErrorEvent)
          /\ pc' = "done" /\ UNCHANGED <<newFile, disk>>
    /\ UNCHANGED <<shared, newReadRequests, newWriteRequests,
                   newPendingVerificationRequests, caller>>

Check ==
    /\ pc = "check"
    /\ pc' = IF NothingToDo THEN "wait" ELSE "takeReads"
    /\ UNCHANGED <<shared, newReadRequests, newWriteRequests,
                   newPendingVerificationRequests, newFile, disk, events, caller, ioErrors>>

(* cond.wait releases the mutex and goes to sleep in one step.             *)
Wait ==
    /\ pc = "wait"
    /\ pc' = "asleep"
    /\ UNCHANGED <<shared, newReadRequests, newWriteRequests,
                   newPendingVerificationRequests, newFile, disk, events, caller, ioErrors>>

(* Also the way out of the wait: the mutex is taken again and released.    *)
TakeReads ==
    /\ pc \in {"woken", "takeReads"}
    /\ pc' = "read"
    /\ newReadRequests' = readRequests /\ readRequests' = <<>>
    /\ UNCHANGED <<writeRequests, pendingVerificationRequests, startVerification,
                   wokeUp, verifiedPieces, quit, newWriteRequests,
                   newPendingVerificationRequests, newFile, disk, events, caller, ioErrors>>

Intact(p) == disk[p] = Uniform("good")

(* readBlock returns nothing once quit is set, or when the file operation  *)
(* fails; the answer is sent all the same.                                 *)
ReadBlock ==
    /\ pc = "read" /\ newReadRequests # <<>>
    /\ LET r == Head(newReadRequests) IN
       \/ /\ events' = Append(events, DataRead(r, ~quit /\ Intact(r.pieceIndex)))
          /\ UNCHANGED ioErrors
       \/ /\ ~quit /\ Fails /\ ioErrors' = ioErrors + 1
          /\ events' = events \o <<ErrorEvent, DataRead(r, FALSE)>>
    /\ newReadRequests' = Tail(newReadRequests)
    /\ UNCHANGED <<shared, pc, newWriteRequests, newPendingVerificationRequests,
                   newFile, disk, caller>>

(* Mutant: the writes wait while a verification is asked for.              *)
TakeWritesLate ==
    /\ pc = "read" /\ newReadRequests = <<>>
    /\ pc' = "write"
    /\ IF startVerification
       THEN UNCHANGED <<newWriteRequests, writeRequests>>
       ELSE newWriteRequests' = writeRequests /\ writeRequests' = <<>>
    /\ UNCHANGED <<readRequests, pendingVerificationRequests, startVerification,
                   wokeUp, verifiedPieces, quit, newReadRequests,
                   newPendingVerificationRequests, newFile, disk, events, caller, ioErrors>>

TakeWrites ==
    /\ pc = "read" /\ newReadRequests = <<>>
    /\ pc' = "write"
    /\ newWriteRequests' = writeRequests /\ writeRequests' = <<>>
    /\ UNCHANGED <<readRequests, pendingVerificationRequests, startVerification,
                   wokeUp, verifiedPieces, quit, newReadRequests,
                   newPendingVerificationRequests, newFile, disk, events, caller, ioErrors>>

(* The file after writeBlock: unchanged once quit is set.                  *)
Written(w) == IF quit THEN disk
              ELSE [disk EXCEPT ![w.pieceIndex][w.offset] = w.data]

WriteHead ==
    LET w == Head(newWriteRequests) IN
    /\ newWriteRequests # <<>>
    /\ \/ disk' = Written(w) /\ UNCHANGED <<events, ioErrors>>
       \/ /\ ~quit /\ Fails /\ ioErrors' = ioErrors + 1
          /\ events' = Append(events, ErrorEvent) /\ UNCHANGED disk
    /\ newWriteRequests' = Tail(newWriteRequests)

WriteBlock ==
    /\ pc = "write" /\ ~quit
    /\ WriteHead
    /\ UNCHANGED <<shared, pc, newReadRequests, newPendingVerificationRequests,
                   newFile, caller>>

(* Mutant: the last write of the list is left out.                         *)
EndWritesEarly ==
    /\ pc = "write" /\ (quit \/ Len(newWriteRequests) < 2)
    /\ newWriteRequests' = <<>>
    /\ pc' = "verify"
    /\ UNCHANGED <<shared, newReadRequests, newPendingVerificationRequests, newFile,
                   disk, events, caller, ioErrors>>

(* The writes are done, or quit leaves the rest of the list to its fate.   *)
EndWrites ==
    /\ pc = "write" /\ (quit \/ newWriteRequests = <<>>)
    /\ newWriteRequests' = <<>>
    /\ pc' = "verify"
    /\ UNCHANGED <<shared, newReadRequests, newPendingVerificationRequests, newFile,
                   disk, events, caller, ioErrors>>

SkipVerification ==
    /\ pc = "verify" /\ ~startVerification
    /\ pc' = "loop"
    /\ UNCHANGED <<shared, newReadRequests, newWriteRequests,
                   newPendingVerificationRequests, newFile, disk, events, caller, ioErrors>>

(* Mutant: the list the worker took is left in place.                      *)
TakeVerificationsTwice ==
    /\ pc = "verify" /\ startVerification
    /\ pendingVerificationRequests # <<>>
    /\ pc' = "verifyNext"
    /\ newPendingVerificationRequests' = pendingVerificationRequests
    /\ UNCHANGED <<readRequests, writeRequests, pendingVerificationRequests,
                   startVerification, wokeUp, verifiedPieces, quit, newReadRequests,
                   newWriteRequests, newFile, disk, events, caller, ioErrors>>

TakeVerifications ==
    /\ pc = "verify" /\ startVerification
    /\ pendingVerificationRequests # <<>>
    /\ pc' = "verifyNext"
    /\ newPendingVerificationRequests' = pendingVerificationRequests
    /\ pendingVerificationRequests' = <<>>
    /\ UNCHANGED <<readRequests, writeRequests, startVerification, wokeUp,
                   verifiedPieces, quit, newReadRequests, newWriteRequests, newFile,
                   disk, events, caller, ioErrors>>

(* Mutant: the bit set is that of the next piece.                          *)
VerifyAllOffByOne ==
    /\ pc = "verify" /\ startVerification
    /\ pendingVerificationRequests = <<>>
    /\ verifiedPieces' = {p + 1 : p \in {q \in Pieces : Intact(q)}}
    /\ events' = Append(events, VerificationDone)
    /\ startVerification' = FALSE
    /\ pc' = "loop"
    /\ UNCHANGED <<readRequests, writeRequests, pendingVerificationRequests, wokeUp,
                   quit, newReadRequests, newWriteRequests, ioErrors,
                   newPendingVerificationRequests, newFile, disk, caller>>

(* No piece was named: the first verification looks at all of a file that  *)
(* is not new.  It runs under the mutex, so it is one step; a piece that   *)
(* cannot be read counts as missing.                                       *)
VerifyAll ==
    /\ pc = "verify" /\ startVerification
    /\ pendingVerificationRequests = <<>>
    /\ \E unreadable \in SUBSET Pieces :
         /\ newFile \/ quit => unreadable = {}
         /\ ioErrors + Cardinality(unreadable) <= MaxIoErrors
         /\ ioErrors' = ioErrors + Cardinality(unreadable)
         /\ verifiedPieces' = IF newFile \/ quit \/ verifiedPieces # {} THEN verifiedPieces
                              ELSE {p \in Pieces \ unreadable : Intact(p)}
         /\ events' = (IF unreadable = {} THEN events ELSE Append(events, ErrorEvent))
                         \o <<VerificationDone>>
    /\ startVerification' = FALSE
    /\ pc' = "loop"
    /\ UNCHANGED <<readRequests, writeRequests, pendingVerificationRequests, wokeUp,
                   quit, newReadRequests, newWriteRequests,
                   newPendingVerificationRequests, newFile, disk, caller>>

VerifySinglePiece ==
    /\ pc = "verifyNext" /\ newPendingVerificationRequests # <<>>
    /\ LET p == Head(newPendingVerificationRequests)
           good == ~quit /\ Intact(p) IN
       \/ /\ events' = Append(events, PieceVerified(p, good))
          /\ verifiedPieces' = IF good THEN verifiedPieces \cup {p} ELSE verifiedPieces
          /\ UNCHANGED ioErrors
       \/ /\ ~quit /\ Fails /\ ioErrors' = ioErrors + 1
          /\ events' = events \o <<ErrorEvent, PieceVerified(p, FALSE)>>
          /\ UNCHANGED verifiedPieces
    /\ newPendingVerificationRequests' = Tail(newPendingVerificationRequests)
    /\ UNCHANGED <<readRequests, writeRequests, pendingVerificationRequests,
                   startVerification, wokeUp, quit, pc, newReadRequests,
                   newWriteRequests, newFile, disk, caller>>

EndVerification ==
    /\ pc = "verifyNext" /\ newPendingVerificationRequests = <<>>
    /\ startVerification' = FALSE
    /\ pc' = "loop"
    /\ UNCHANGED <<readRequests, writeRequests, pendingVerificationRequests, wokeUp,
                   verifiedPieces, quit, newReadRequests, newWriteRequests,
                   newPendingVerificationRequests, newFile, disk, events, caller, ioErrors>>

(* while (!quit), and after it the list of writes is taken once more.      *)
Loop ==
    /\ pc = "loop" /\ ~quit
    /\ pc' = "check"
    /\ UNCHANGED <<shared, newReadRequests, newWriteRequests,
                   newPendingVerificationRequests, newFile, disk, events, caller, ioErrors>>

LeaveLoop ==
    /\ pc = "loop" /\ quit
    /\ pc' = "flush"
    /\ newWriteRequests' = writeRequests /\ writeRequests' = <<>>
    /\ UNCHANGED <<readRequests, pendingVerificationRequests, startVerification,
                   wokeUp, verifiedPieces, quit, newReadRequests,
                   newPendingVerificationRequests, newFile, disk, events, caller, ioErrors>>

Flush ==
    /\ pc = "flush"
    /\ WriteHead
    /\ UNCHANGED <<shared, pc, newReadRequests, newPendingVerificationRequests,
                   newFile, caller>>

EndThread ==
    /\ pc = "flush" /\ newWriteRequests = <<>>
    /\ pc' = "done"
    /\ UNCHANGED <<shared, newReadRequests, newWriteRequests,
                   newPendingVerificationRequests, newFile, disk, events, caller, ioErrors>>

Worker ==
    \/ GenerateFiles \/ Check \/ Wait
    \/ TakeReads \/ ReadBlock
    \/ TakeWrites \/ WriteBlock \/ EndWrites
    \/ SkipVerification \/ TakeVerifications \/ VerifyAll
    \/ VerifySinglePiece \/ EndVerification
    \/ Loop \/ LeaveLoop \/ Flush \/ EndThread

Caller ==
    \/ StartDataVerification
    \/ \E p \in Pieces : Read(p)
    \/ \E p \in Pieces, b \in Blocks, d \in {"good", "bad"} : Write(p, b, d)
    \/ \E p \in Pieces : VerifyPiece(p)

Next == Caller \/ Dispatch \/ SetQuit \/ SignalQuit \/ JoinWorker \/ Worker

Spec == Init /\ [][Next]_vars

(* The worker is a thread that is scheduled, the GUI thread returns to its *)
(* event loop, start() makes its two calls in a row and a destructor that  *)
(* has begun goes on.  Nobody must read, write, verify or quit.            *)
Fairness == /\ WF_vars(Worker)
            /\ WF_vars(Dispatch)
            /\ WF_vars(StartDataVerification)
            /\ WF_vars(SignalQuit)
            /\ WF_vars(JoinWorker)

FairSpec == Spec /\ Fairness

-----------------------------------------------------------------------------
(* Properties.                                                             *)

(* Every variable stays in its set.                                        *)
TypeOK ==
    /\ readRequests \in Seq(ReadRequest) /\ newReadRequests \in Seq(ReadRequest)
    /\ writeRequests \in Seq(WriteRequest) /\ newWriteRequests \in Seq(WriteRequest)
    /\ pendingVerificationRequests \in Seq(Pieces)
    /\ newPendingVerificationRequests \in Seq(Pieces)
    /\ startVerification \in BOOLEAN /\ wokeUp \in BOOLEAN
    /\ quit \in BOOLEAN /\ newFile \in BOOLEAN
    /\ verifiedPieces \subseteq Pieces
    /\ pc \in {"generateFiles", "check", "wait", "asleep", "woken", "takeReads", "read",
               "write", "verify", "verifyNext", "loop", "flush", "done"}
    /\ disk \in [Pieces -> [Blocks -> Data]]
    /\ events \in Seq(Event)
    /\ gui \in {"running", "signalling", "waiting", "gone"}
    /\ phase \in {"start", "preparing", "ready"}
    /\ readId \in 0 .. MaxReads /\ readIds \subseteq ReadIds
    /\ content \in [Pieces -> [Blocks -> Data]]
    /\ verifying \subseteq Pieces /\ completed \subseteq Pieces
    /\ ioErrors \in 0 .. MaxIoErrors

(* The worker never sleeps on work: while requests wait for a sleeping     *)
(* worker, a call of wakeUp is in the GUI thread's event queue, and        *)
(* wokeUp says so (read, write, verifyPiece, wakeUp and the test for work  *)
(* at the top of run).                                                     *)
NoLostWakeUp ==
    /\ wokeUp <=> WakeUpCall \in ToSet(events)
    /\ Running /\ pc \in {"wait", "asleep"} /\ ~NothingToDo => wokeUp

Occurrences(s, x) == Cardinality({i \in DOMAIN s : s[i] = x})
VerdictsUnderWay(p) ==
    Occurrences(pendingVerificationRequests, p)
      + Occurrences(newPendingVerificationRequests, p)
      + Occurrences(events, PieceVerified(p, TRUE))
      + Occurrences(events, PieceVerified(p, FALSE))
AnswersUnderWay(id) ==
    Cardinality({i \in DOMAIN readRequests : readRequests[i].id = id})
      + Cardinality({i \in DOMAIN newReadRequests : newReadRequests[i].id = id})
      + Cardinality({i \in DOMAIN events : /\ events[i].kind = "dataRead"
                                           /\ events[i].request.id = id})

(* No request is lost or answered twice on its way from the caller's list  *)
(* through the worker's and back: each verifyPiece and each read the       *)
(* caller waits for is in exactly one place, and nothing else is.          *)
OneAnswerEach ==
    /\ \A p \in Pieces : VerdictsUnderWay(p) = IF p \in verifying THEN 1 ELSE 0
    /\ \A id \in ReadIds : AnswersUnderWay(id) = IF id \in readIds THEN 1 ELSE 0

(* A verdict is about everything the caller wrote before it asked: no      *)
(* block of the piece is still in a queue when its hash is computed.       *)
VerdictsSeeEveryWrite ==
    ioErrors = 0 /\ ~quit =>
        \A i \in DOMAIN events :
            events[i].kind = "pieceVerified" =>
                (events[i].verified <=> content[events[i].pieceIndex] = Uniform("good"))

Writes == ToSet(writeRequests) \cup ToSet(newWriteRequests)

(* What was verified stays so: the pieces reported as complete are intact  *)
(* on disk, and no write that could still reach them is queued.            *)
VerifiedOnDisk ==
    \A p \in verifiedPieces \cup completed :
        /\ Intact(p)
        /\ \A w \in Writes : w.pieceIndex # p

(* A peer that asks for a block of a piece the client has is given what    *)
(* was verified, whatever is written meanwhile.                            *)
CompletedReadsIntact ==
    ioErrors = 0 /\ ~quit =>
        \A i \in DOMAIN events :
            events[i].kind = "dataRead" => events[i].intact

(* Every read is answered while the program runs: the worker is woken.     *)
ReadsAnswered ==
    \A id \in ReadIds : id \in readIds ~> id \notin readIds \/ ~Running

(* Every verification asked for is answered while the program runs.        *)
VerdictsArrive ==
    \A p \in Pieces : p \in verifying ~> p \notin verifying \/ ~Running

(* The first verification ends, unless the file could not be created: the  *)
(* call of startDataVerification may come before the thread's first test   *)
(* for work, or find it asleep.                                            *)
FirstVerificationEnds ==
    phase = "preparing" ~> phase = "ready" \/ pc = "done" \/ ~Running

(* The code says: "Go to sleep if there's nothing to do"; a destructor     *)
(* that sets quit and waits for the thread returns.                        *)
DestructorReturns == ~Running ~> gui = "gone"

-----------------------------------------------------------------------------
(* The file store that the caller sees.                                    *)

(* The file as it is when all that is queued has been written.             *)
FileView ==
    [p \in Pieces |-> [b \in Blocks |->
        LET there == {w \in Writes : w.pieceIndex = p /\ w.offset = b} IN
        IF there = {} THEN disk[p][b] ELSE (CHOOSE w \in there : TRUE).data]]

ReadOf(r)         == [kind |-> "read", id |-> r.id, pieceIndex |-> r.pieceIndex]
VerificationOf(p) == [kind |-> "verify", pieceIndex |-> p]

Asked ==
    {ReadOf(r) : r \in ToSet(readRequests) \cup ToSet(newReadRequests)}
      \cup {VerificationOf(p) : p \in ToSet(pendingVerificationRequests)
                                     \cup ToSet(newPendingVerificationRequests)}

Answered ==
    {[request |-> ReadOf(e.request), good |-> e.intact] :
        e \in {x \in ToSet(events) : x.kind = "dataRead"}}
      \cup {[request |-> VerificationOf(e.pieceIndex), good |-> e.verified] :
                e \in {x \in ToSet(events) : x.kind = "pieceVerified"}}

Store == INSTANCE FileStore WITH
            file <- FileView, ready <- phase = "ready", complete <- completed,
            asked <- Asked, answered <- Answered, faulty <- ioErrors > 0 \/ quit

(* The queues, the second thread and the wake-up calls are invisible to    *)
(* the torrent: it sees a file whose writes take place at once, in which a *)
(* verdict or a read that is under way is about the file as the torrent    *)
(* left it, and is answered once.  Failures cost no verified piece.        *)
ImplementsFileStore == Store!Spec
=============================================================================
