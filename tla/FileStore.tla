----------------------------- MODULE FileStore -----------------------------
(***************************************************************************)
(* What a torrent may rely on when it uses its file manager: a file whose  *)
(* writes take place at once, and requests that are answered once each.    *)
(* There are no queues, no thread and no order among the answers here;     *)
(* FileManager.tla implements this.                                        *)
(***************************************************************************)
EXTENDS FiniteSets

CONSTANTS
    Pieces, Blocks,
    ReadIds     \* of read requests

VARIABLES
    file,       \* what each block of the file holds
    ready,      \* the caller was told of the first verification
    complete,   \* the pieces that the caller was told are verified
    asked,      \* requests that are not answered
    answered,   \* requests with their answers, on the way to the caller
    faulty      \* a file operation failed, or the store is closing

vars == <<file, ready, complete, asked, answered, faulty>>

Verification == [kind : {"verify"}, pieceIndex : Pieces]
ReadOf       == [kind : {"read"}, id : ReadIds, pieceIndex : Pieces]
Request      == Verification \cup ReadOf
Answer       == [request : Request, good : BOOLEAN]

Contents == {"none", "good", "bad"}

Good(p) == \A b \in Blocks : file[p][b] = "good"

UnderWay == asked \cup {a.request : a \in answered}

Verifying(p) == \E r \in UnderWay : r.kind = "verify" /\ r.pieceIndex = p

(* Pieces that nothing may change any more.                                *)
Kept == complete \cup {a.request.pieceIndex : a \in {x \in answered : x.good}}

Init ==
    /\ file \in [Pieces -> [Blocks -> {"none", "good"}]]
    /\ ready = FALSE /\ complete = {}
    /\ asked = {} /\ answered = {} /\ faulty = FALSE

(* A file of the wrong size is made anew before anything else.             *)
Create ==
    /\ ~ready /\ complete = {}
    /\ file' = [p \in Pieces |-> [b \in Blocks |-> "none"]]
    /\ UNCHANGED <<ready, complete, asked, answered, faulty>>

(* The caller hears which pieces of the file it found are intact.          *)
Ready ==
    /\ ~ready /\ ready' = TRUE
    /\ complete' \subseteq {p \in Pieces : Good(p)}
    /\ faulty \/ complete' = {p \in Pieces : Good(p)}
    /\ UNCHANGED <<file, asked, answered, faulty>>

Write(p, b, d) ==
    /\ ready /\ p \notin complete /\ ~Verifying(p)
    /\ file' = [file EXCEPT ![p][b] = d]
    /\ UNCHANGED <<ready, complete, asked, answered, faulty>>

Ask(r) ==
    /\ r \notin UnderWay
    /\ r.kind = "read" => r.pieceIndex \in complete
    /\ r.kind = "verify" => ready /\ r.pieceIndex \notin complete
    /\ asked' = asked \cup {r}
    /\ UNCHANGED <<file, ready, complete, answered, faulty>>

(* A good answer is always true, a bad one unless something failed.        *)
Reply(r, good) ==
    /\ r \in asked
    /\ good => Good(r.pieceIndex)
    /\ good \/ faulty' \/ ~Good(r.pieceIndex)
    /\ asked' = asked \ {r}
    /\ answered' = answered \cup {[request |-> r, good |-> good]}
    /\ faulty => faulty'
    /\ UNCHANGED <<file, ready, complete>>

Deliver(a) ==
    /\ a \in answered
    /\ answered' = answered \ {a}
    /\ complete' = IF a.good THEN complete \cup {a.request.pieceIndex} ELSE complete
    /\ UNCHANGED <<file, ready, asked, faulty>>

(* A failure may cost what was written, but never a verified piece.        *)
Fault ==
    /\ faulty'
    /\ file' \in [Pieces -> [Blocks -> Contents]]
    /\ \A p \in Kept : file'[p] = file[p]
    /\ UNCHANGED <<ready, complete, asked, answered>>

Next ==
    \/ Create \/ Ready \/ Fault
    \/ \E p \in Pieces, b \in Blocks, d \in {"good", "bad"} : Write(p, b, d)
    \/ \E r \in Request : Ask(r) \/ \E good \in BOOLEAN : Reply(r, good)
    \/ \E a \in answered : Deliver(a)

Spec == Init /\ [][Next]_vars

-----------------------------------------------------------------------------
(* Properties.                                                             *)

(* What the caller was told is true: a piece it counts as complete, or is  *)
(* about to, is intact, and every answer is to a question of its own.      *)
Trustworthy ==
    /\ \A p \in Kept : Good(p)
    /\ \A a \in answered : a.request \notin asked
=============================================================================
