------------------------ MODULE PeerWireClientProofs ------------------------
(***************************************************************************)
(* Theorems about one connection, for every set of blocks, every length of *)
(* blocks and headers and every limit of the queue.                        *)
(*                                                                         *)
(* What is sent to the peer is one sequence, the Stream: the messages in   *)
(* the network and those to be written.  A step leaves it alone, appends   *)
(* to it, or takes its head away.  The lemmas say what that does to the    *)
(* peer's knowledge of being choked; the proofs of the invariants then     *)
(* have one case per action.                                               *)
(***************************************************************************)
EXTENDS PeerWireClient, FiniteSetTheorems, SequenceTheorems, WellFoundedInduction, TLAPS

-----------------------------------------------------------------------------
(* Sequences.                                                              *)

LEMMA LeastIndex ==
    ASSUME NEW I \in SUBSET Nat, I # {}
    PROVE  Min(I) \in I
  <1> DEFINE R == {r \in Nat \X Nat : r[1] < r[2]}
  <1>1. IsWellFoundedOn(R, Nat)
    BY NatLessThanWellFounded DEF OpToRel
  <1>2. PICK m \in I : \A k \in I : <<k, m>> \notin R
    BY <1>1, WFMin
  <1>3. ASSUME NEW k \in I PROVE m <= k
    <2>1. m \in Nat /\ k \in Nat /\ <<k, m>> \in Nat \X Nat
      OBVIOUS
    <2>2. <<k, m>>[1] = k /\ <<k, m>>[2] = m
      OBVIOUS
    <2>3. <<k, m>> \notin R
      BY <1>2
    <2>4. ~(<<k, m>>[1] < <<k, m>>[2])
      BY <2>1, <2>3
    <2> QED
      BY <2>1, <2>2, <2>4
  <1> QED
    BY <1>3 DEF Min

(* RemoveFirst takes at most one element, and no other than the given one. *)
LEMMA RemoveFirstShortens ==
    ASSUME NEW S, NEW s \in Seq(S), NEW e
    PROVE  /\ RemoveFirst(s, e) \in Seq(S)
           /\ Len(RemoveFirst(s, e)) <= Len(s)
           /\ \A z \in ToSet(s) : z # e => z \in ToSet(RemoveFirst(s, e))
  <1>1. CASE ~ \E i \in 1 .. Len(s) : s[i] = e
    BY <1>1 DEF RemoveFirst
  <1>2. CASE \E i \in 1 .. Len(s) : s[i] = e
    <2> DEFINE I == {i \in 1 .. Len(s) : s[i] = e}
               k == Min(I)
               left  == SubSeq(s, 1, k - 1)
               right == SubSeq(s, k + 1, Len(s))
               rest  == left \o right
    <2>1. k \in 1 .. Len(s) /\ s[k] = e
      <3>1. I # {} /\ I \in SUBSET Nat
        BY <1>2
      <3>2. Min(I) \in I
        BY <3>1, LeastIndex
      <3> QED
        BY <3>2
    <2>2. RemoveFirst(s, e) = rest
      BY <1>2 DEF RemoveFirst, RemoveAt, SelectInSeq
    <2> HIDE DEF I, k
    <2>3. /\ left \in Seq(S) /\ Len(left) = k - 1
          /\ \A i \in 1 .. k - 1 : left[i] = s[i]
      <3>1. \A i \in 1 .. k - 1 : s[i] \in S
        BY <2>1
      <3>2. 1 <= k - 1 \/ k = 1
        BY <2>1
      <3> QED
        BY <2>1, <3>1, <3>2, SubSeqProperties
    <2>4. /\ right \in Seq(S) /\ Len(right) = Len(s) - k
          /\ \A i \in 1 .. Len(s) - k : right[i] = s[k + i]
      <3>1. \A i \in k + 1 .. Len(s) : s[i] \in S
        BY <2>1
      <3>2. \A i \in 1 .. Len(s) - (k + 1) + 1 : right[i] = s[k + 1 + i - 1]
        BY <2>1, <3>1, SubSeqProperties
      <3>3. right \in Seq(S) /\ Len(right) = IF k + 1 <= Len(s) THEN Len(s) - (k + 1) + 1 ELSE 0
        BY <2>1, <3>1, SubSeqProperties
      <3> QED
        BY <2>1, <3>2, <3>3
    <2> HIDE DEF left, right
    <2>5. /\ rest \in Seq(S) /\ Len(rest) = Len(s) - 1
          /\ \A i \in 1 .. Len(s) - 1 : rest[i] = IF i < k THEN s[i] ELSE s[i + 1]
      <3>1. /\ rest \in Seq(S) /\ Len(rest) = Len(left) + Len(right)
            /\ \A i \in 1 .. Len(left) + Len(right) :
                 rest[i] = IF i <= Len(left) THEN left[i] ELSE right[i - Len(left)]
        BY <2>3, <2>4, ConcatProperties
      <3> HIDE DEF rest
      <3>2. Len(left) + Len(right) = Len(s) - 1
        BY <2>1, <2>3, <2>4
      <3>3. ASSUME NEW i \in 1 .. Len(s) - 1
            PROVE  rest[i] = IF i < k THEN s[i] ELSE s[i + 1]
        <4>1. rest[i] = IF i <= k - 1 THEN left[i] ELSE right[i - (k - 1)]
          BY <2>3, <3>1, <3>2
        <4>2. CASE i < k
          BY <2>1, <2>3, <4>1, <4>2
        <4>3. CASE ~(i < k)
          <5>1. i - (k - 1) \in 1 .. Len(s) - k /\ k + (i - (k - 1)) = i + 1
            BY <2>1, <4>3
          <5>2. right[i - (k - 1)] = s[i + 1]
            BY <2>4, <5>1
          <5> QED
            BY <2>1, <4>1, <4>3, <5>2
        <4> QED
          BY <4>2, <4>3
      <3> QED
        BY <3>1, <3>2, <3>3
    <2> HIDE DEF rest
    <2>6. ASSUME NEW z \in ToSet(s), z # e
          PROVE  z \in ToSet(rest)
      <3>1. PICK i \in 1 .. Len(s) : s[i] = z
        BY DEF ToSet
      <3>2. CASE i < k
        <4>1. i \in 1 .. Len(s) - 1 /\ rest[i] = z
          BY <2>1, <2>5, <3>1, <3>2
        <4> QED
          BY <4>1, <2>5 DEF ToSet
      <3>3. CASE i > k
        <4>1. i - 1 \in 1 .. Len(s) - 1 /\ ~(i - 1 < k) /\ (i - 1) + 1 = i
          BY <2>1, <3>3
        <4>2. rest[i - 1] = z
          BY <4>1, <2>5, <3>1
        <4> QED
          BY <4>1, <4>2, <2>5 DEF ToSet
      <3> QED
        BY <2>1, <2>6, <3>1, <3>2, <3>3
    <2> QED
      BY <2>2, <2>5, <2>6
  <1> QED
    BY <1>1, <1>2

LEMMA InToSet ==
    ASSUME NEW S, NEW s \in Seq(S), NEW e
    PROVE  e \in ToSet(s) <=> \E i \in 1 .. Len(s) : s[i] = e
  BY LenProperties DEF ToSet

LEMMA ConcatKeeps ==
    ASSUME NEW S, NEW s \in Seq(S), NEW t \in Seq(S)
    PROVE  /\ ToSet(s) \subseteq ToSet(s \o t)
           /\ ToSet(t) \subseteq ToSet(s \o t)
  <1>1. /\ s \o t \in Seq(S) /\ Len(s \o t) = Len(s) + Len(t)
        /\ \A i \in 1 .. Len(s) + Len(t) :
             (s \o t)[i] = IF i <= Len(s) THEN s[i] ELSE t[i - Len(s)]
    BY ConcatProperties
  <1>2. ASSUME NEW i \in 1 .. Len(s) PROVE s[i] \in ToSet(s \o t)
    <2>1. i \in 1 .. Len(s \o t) /\ (s \o t)[i] = s[i]
      BY <1>1
    <2> QED
      BY <1>1, <2>1, InToSet
  <1>3. ASSUME NEW i \in 1 .. Len(t) PROVE t[i] \in ToSet(s \o t)
    <2>1. Len(s) + i \in 1 .. Len(s \o t) /\ (s \o t)[Len(s) + i] = t[i]
      BY <1>1
    <2> QED
      BY <1>1, <2>1, InToSet
  <1> QED
    BY <1>2, <1>3, InToSet

LEMMA AppendKeeps ==
    ASSUME NEW S, NEW s \in Seq(S), NEW e \in S
    PROVE  ToSet(Append(s, e)) = ToSet(s) \cup {e}
  <1>1. /\ Append(s, e) \in Seq(S) /\ Len(Append(s, e)) = Len(s) + 1
        /\ \A i \in 1 .. Len(s) : Append(s, e)[i] = s[i]
        /\ Append(s, e)[Len(s) + 1] = e
    BY AppendProperties
  <1>2. 1 .. Len(s) + 1 = (1 .. Len(s)) \cup {Len(s) + 1}
    BY LenProperties
  <1>3. ToSet(s) = {s[i] : i \in 1 .. Len(s)}
    BY LenProperties DEF ToSet
  <1>4. ToSet(Append(s, e)) = {Append(s, e)[i] : i \in 1 .. Len(s) + 1}
    BY <1>1, LenProperties DEF ToSet
  <1> QED
    BY <1>1, <1>2, <1>3, <1>4

LEMMA TailKeeps ==
    ASSUME NEW S, NEW s \in Seq(S), s # <<>>
    PROVE  ToSet(s) = ToSet(Tail(s)) \cup {Head(s)}
  <1>1. /\ Tail(s) \in Seq(S) /\ Len(Tail(s)) = Len(s) - 1 /\ Len(s) \in Nat \ {0}
        /\ \A i \in 1 .. Len(s) - 1 : Tail(s)[i] = s[i + 1]
    BY HeadTailProperties, EmptySeq
  <1>2. Head(s) = s[1]
    OBVIOUS
  <1>3. ASSUME NEW i \in 1 .. Len(s), i # 1 PROVE s[i] \in ToSet(Tail(s))
    <2>1. i - 1 \in 1 .. Len(Tail(s)) /\ Tail(s)[i - 1] = s[i]
      BY <1>1, <1>3
    <2> QED
      BY <1>1, <2>1, InToSet
  <1>4. Head(s) \in ToSet(s) /\ \A i \in 1 .. Len(s) - 1 : Tail(s)[i] \in ToSet(s)
    BY <1>1, <1>2, InToSet
  <1>5. ASSUME NEW z \in ToSet(s), z # Head(s) PROVE z \in ToSet(Tail(s))
    BY <1>2, <1>3, <1>5, InToSet
  <1>6. ASSUME NEW z \in ToSet(Tail(s)) PROVE z \in ToSet(s)
    <2>1. PICK i \in 1 .. Len(s) - 1 : Tail(s)[i] = z
      BY <1>1, InToSet
    <2> QED
      BY <1>4, <2>1
  <1> QED
    BY <1>4, <1>5, <1>6

-----------------------------------------------------------------------------
(* What a peer knows of being choked.                                      *)

LEMMA MessageTypes ==
    /\ \A m \in Messages :
         m.type \in {"handshake", "bitfield", "choke", "unchoke", "other", "piece"}
    /\ \A m \in Messages : m.type = "choke" => m = Msg("choke")
    /\ \A m \in Messages : m.type = "piece" => m.block \in Uploads
    /\ \A m \in Requests : m.type \in {"request", "cancel"} /\ m.block \in Uploads
    /\ \A m \in Requests : m = BlockMsg(m.type, m.block)
    /\ {Msg(t) : t \in {"handshake", "bitfield", "choke", "unchoke", "other"}}
         \subseteq Messages
    /\ \A b \in Uploads : BlockMsg("piece", b) \in Messages
    /\ \A b \in Uploads, t \in {"request", "cancel"} : BlockMsg(t, b) \in Requests
    /\ \A t : Msg(t).type = t
    /\ \A t, b : BlockMsg(t, b).type = t /\ BlockMsg(t, b).block = b
  <1>1. /\ \A t : Msg(t).type = t
        /\ \A t, b : BlockMsg(t, b).type = t /\ BlockMsg(t, b).block = b
    BY DEF Msg, BlockMsg
  <1>2. ASSUME NEW m \in Messages
        PROVE  \/ \E t \in {"handshake", "bitfield", "choke", "unchoke", "other"} : m = Msg(t)
               \/ \E b \in Uploads : m = BlockMsg("piece", b)
    BY DEF Messages
  <1>3. ASSUME NEW m \in Requests
        PROVE  \E t \in {"request", "cancel"}, b \in Uploads : m = BlockMsg(t, b)
    BY DEF Requests
  <1>4. /\ {Msg(t) : t \in {"handshake", "bitfield", "choke", "unchoke", "other"}}
             \subseteq Messages
        /\ \A b \in Uploads : BlockMsg("piece", b) \in Messages
        /\ \A b \in Uploads, t \in {"request", "cancel"} : BlockMsg(t, b) \in Requests
    BY DEF Messages, Requests
  <1> QED
    BY <1>1, <1>2, <1>3, <1>4

LEMMA ChokedNext ==
    ASSUME NEW c \in BOOLEAN, NEW s, NEW n \in Nat
    PROVE  Choked(c, s, n + 1) <=>
             (s[n + 1].type = "choke" \/ (Choked(c, s, n) /\ s[n + 1].type # "unchoke"))
  <1>1. 1 .. n + 1 = (1 .. n) \cup {n + 1}
    OBVIOUS
  <1>2. \A i \in 1 .. n : i + 1 .. n + 1 = (i + 1 .. n) \cup {n + 1}
    OBVIOUS
  <1>3. (n + 1) + 1 .. n + 1 = {}
    OBVIOUS
  <1> QED
    BY <1>1, <1>2, <1>3 DEF Choked

LEMMA ChokedOfPrefix ==
    ASSUME NEW c \in BOOLEAN, NEW s, NEW t, NEW n \in Nat,
           \A i \in 1 .. n : s[i] = t[i]
    PROVE  Choked(c, s, n) <=> Choked(c, t, n)
  <1>1. \A i \in 1 .. n : \A j \in i + 1 .. n : j \in 1 .. n
    OBVIOUS
  <1> QED
    BY <1>1 DEF Choked

LEMMA ChokedQuiet ==
    ASSUME NEW c \in BOOLEAN, NEW s, NEW n \in Nat, NEW k \in Nat, n <= k,
           \A j \in n + 1 .. k : s[j].type \notin {"choke", "unchoke"}
    PROVE  Choked(c, s, k) <=> Choked(c, s, n)
  <1>1. 1 .. k = (1 .. n) \cup (n + 1 .. k)
    OBVIOUS
  <1>2. \A i \in 1 .. n : i + 1 .. k = (i + 1 .. n) \cup (n + 1 .. k)
    OBVIOUS
  <1> QED
    BY <1>1, <1>2 DEF Choked

(* Reading the head of s takes the peer from c to d.                       *)
LEMMA ChokedTail ==
    ASSUME NEW c \in BOOLEAN, NEW d \in BOOLEAN, NEW S, NEW s \in Seq(S), s # <<>>,
           d <=> (Head(s).type = "choke" \/ (c /\ Head(s).type # "unchoke")),
           NEW n \in 0 .. Len(s) - 1
    PROVE  Choked(d, Tail(s), n) <=> Choked(c, s, n + 1)
  <1>1. /\ Len(s) \in Nat \ {0} /\ Head(s) = s[1]
        /\ \A i \in 1 .. n : Tail(s)[i] = s[i + 1]
    BY HeadTailProperties, EmptySeq
  <1>2. ASSUME Choked(d, Tail(s), n) PROVE Choked(c, s, n + 1)
    <2>1. CASE d /\ \A j \in 1 .. n : Tail(s)[j].type # "unchoke"
      <3>1. ASSUME NEW j \in 2 .. n + 1 PROVE s[j].type # "unchoke"
        <4>1. j - 1 \in 1 .. n /\ s[j] = Tail(s)[j - 1]
          BY <1>1
        <4> QED
          BY <2>1, <4>1
      <3>2. 1 .. n + 1 = {1} \cup (2 .. n + 1)
        OBVIOUS
      <3> QED
        BY <1>1, <2>1, <3>1, <3>2 DEF Choked
    <2>2. CASE \E i \in 1 .. n : /\ Tail(s)[i].type = "choke"
                                 /\ \A j \in i + 1 .. n : Tail(s)[j].type # "unchoke"
      <3>1. PICK i \in 1 .. n : /\ Tail(s)[i].type = "choke"
                                /\ \A j \in i + 1 .. n : Tail(s)[j].type # "unchoke"
        BY <2>2
      <3>2. i + 1 \in 1 .. n + 1 /\ s[i + 1].type = "choke"
        BY <1>1, <3>1
      <3>3. ASSUME NEW j \in (i + 1) + 1 .. n + 1 PROVE s[j].type # "unchoke"
        <4>1. j - 1 \in i + 1 .. n /\ j - 1 \in 1 .. n /\ s[j] = Tail(s)[j - 1]
          BY <1>1
        <4> QED
          BY <3>1, <4>1
      <3> QED
        BY <3>2, <3>3 DEF Choked
    <2> QED
      BY <1>2, <2>1, <2>2 DEF Choked
  <1>3. ASSUME Choked(c, s, n + 1) PROVE Choked(d, Tail(s), n)
    <2>1. ASSUME NEW i \in 0 .. n, \A j \in i + 2 .. n + 1 : s[j].type # "unchoke"
          PROVE  \A j \in i + 1 .. n : Tail(s)[j].type # "unchoke"
      <3>1. ASSUME NEW j \in i + 1 .. n PROVE Tail(s)[j].type # "unchoke"
        <4>1. j + 1 \in i + 2 .. n + 1 /\ j \in 1 .. n /\ Tail(s)[j] = s[j + 1]
          BY <1>1
        <4> QED
          BY <2>1, <4>1
      <3> QED
        BY <3>1
    <2>2. CASE c /\ \A j \in 1 .. n + 1 : s[j].type # "unchoke"
      <3>1. s[1].type # "unchoke" /\ \A j \in 0 + 2 .. n + 1 : s[j].type # "unchoke"
        BY <2>2
      <3>2. \A j \in 0 + 1 .. n : Tail(s)[j].type # "unchoke"
        BY <2>1, <3>1
      <3> QED
        BY <1>1, <2>2, <3>1, <3>2 DEF Choked
    <2>3. CASE \E i \in 1 .. n + 1 : /\ s[i].type = "choke"
                                     /\ \A j \in i + 1 .. n + 1 : s[j].type # "unchoke"
      <3>1. PICK i \in 1 .. n + 1 : /\ s[i].type = "choke"
                                    /\ \A j \in i + 1 .. n + 1 : s[j].type # "unchoke"
        BY <2>3
      <3>2. i - 1 \in 0 .. n /\ (i - 1) + 2 = i + 1
        OBVIOUS
      <3>3. \A j \in (i - 1) + 1 .. n : Tail(s)[j].type # "unchoke"
        BY <2>1, <3>1, <3>2
      <3>4. CASE i = 1
        <4>1. d /\ \A j \in 1 .. n : Tail(s)[j].type # "unchoke"
          BY <1>1, <3>1, <3>3, <3>4
        <4> QED
          BY <4>1 DEF Choked
      <3>5. CASE i # 1
        <4>1. i - 1 \in 1 .. n /\ Tail(s)[i - 1].type = "choke"
          BY <1>1, <3>1, <3>5
        <4> QED
          BY <3>3, <4>1 DEF Choked
      <3> QED
        BY <3>4, <3>5
    <2> QED
      BY <1>3, <2>2, <2>3 DEF Choked
  <1> QED
    BY <1>2, <1>3

-----------------------------------------------------------------------------
(* Types, and the size of the queue.                                       *)

(* The count of queued bytes never falls below what the queue holds.       *)
QueueInv == /\ Len(pendingBlocks) * (HeaderLength + BlockLength) <= pendingBlockSizes
            /\ pendingBlockSizes <= MaxPending

TypeInv == TypeOK /\ QueueInv

LEMMA Distribute ==
    ASSUME NEW n \in Nat, NEW q \in Nat
    PROVE  (n + 1) * q = n * q + q /\ n * q \in Nat
  OBVIOUS

LEMMA Shorter ==
    ASSUME NEW n \in Nat, NEW k \in Nat, k <= n, NEW q \in Nat
    PROVE  k * q <= n * q
  OBVIOUS

LEMMA WriteTyped ==
    ASSUME TypeOK, NEW t \in Seq(Messages), write(t)
    PROVE  outgoingBuffer' \in Seq(Messages)
  BY ConcatProperties DEF TypeOK, write

LEMMA SomeMessages ==
    /\ <<>> \in Seq(Messages)
    /\ <<Other>> \in Seq(Messages)
    /\ <<Msg("choke")>> \in Seq(Messages)
    /\ <<Msg("unchoke")>> \in Seq(Messages)
    /\ <<Msg("choke"), Msg("unchoke")>> \in Seq(Messages)
    /\ <<Msg("handshake")>> \in Seq(Messages)
    /\ <<Msg("bitfield")>> \in Seq(Messages)
    /\ \A b \in Uploads : <<BlockMsg("piece", b)>> \in Seq(Messages)
  <1>1. {Other, Msg("choke"), Msg("unchoke"), Msg("handshake"), Msg("bitfield")}
          \subseteq Messages
    BY MessageTypes DEF Other
  <1>2. \A m \in Messages : <<m>> \in Seq(Messages)
    OBVIOUS
  <1> QED
    BY <1>1, <1>2, MessageTypes

LEMMA Others ==
    ASSUME NEW n \in Nat
    PROVE  /\ [i \in 1 .. n |-> Other] \in Seq(Messages)
           /\ Len([i \in 1 .. n |-> Other]) = n
  BY MessageTypes DEF Other

(* Sending a block to a peer that is not choked.                           *)
LEMMA SendBlockTyped ==
    ASSUME TypeInv, NEW b \in Uploads, sendBlock(b)
    PROVE  /\ pwState' \subseteq Flags /\ pendingRequestTimer' \in BOOLEAN
           /\ outgoingBuffer' \in Seq(Messages)
           /\ pendingBlocks' \in Seq(Uploads) /\ pendingBlockSizes' \in Nat
           /\ QueueInv'
  <1> DEFINE size == pendingBlockSizes + HeaderLength + BlockLength
             q    == HeaderLength + BlockLength
  <1>1. /\ pendingBlockSizes \in Nat /\ pendingBlocks \in Seq(Uploads)
        /\ HeaderLength \in Nat /\ BlockLength \in Nat /\ MaxPending \in Nat /\ q \in Nat
        /\ pwState \subseteq Flags /\ pendingRequestTimer \in BOOLEAN
        /\ outgoingBuffer \in Seq(Messages)
    BY PWAssumption DEF TypeInv, TypeOK
  <1>2. CASE size > MaxPending
    <2>1. /\ write(<<Msg("choke"), Msg("unchoke")>>)
          /\ pwState' = pwState \ {"ChokingPeer"} /\ pendingRequestTimer' = FALSE
          /\ pendingBlocks' = <<>> /\ pendingBlockSizes' = 0
      BY <1>2 DEF sendBlock
    <2>2. outgoingBuffer' \in Seq(Messages)
      BY <2>1, SomeMessages, WriteTyped DEF TypeInv
    <2>3. QueueInv'
      <3>1. 0 * q = 0 /\ Len(<<>>) = 0
        BY <1>1
      <3> QED
        BY <1>1, <2>1, <3>1 DEF QueueInv
    <2> QED
      BY <1>1, <1>2, <2>1, <2>2, <2>3, EmptySeq
  <1>3. CASE ~(size > MaxPending)
    <2>1. /\ pendingBlocks' = Append(pendingBlocks, b) /\ pendingBlockSizes' = size
          /\ UNCHANGED <<pwState, pendingRequestTimer, outgoingBuffer>>
      BY <1>3 DEF sendBlock
    <2>2. Len(pendingBlocks') = Len(pendingBlocks) + 1 /\ Len(pendingBlocks) \in Nat
      BY <1>1, <2>1, AppendProperties, LenProperties
    <2>3. Len(pendingBlocks') * q = Len(pendingBlocks) * q + q
          /\ Len(pendingBlocks) * q \in Nat
      BY <1>1, <2>2, Distribute
    <2>4. Len(pendingBlocks) * q <= pendingBlockSizes
      BY DEF TypeInv, QueueInv
    <2>5. QueueInv'
      <3> HIDE DEF q
      <3>1. size = pendingBlockSizes + q
        BY <1>1 DEF q
      <3>2. Len(pendingBlocks') * q <= pendingBlockSizes'
        BY <1>1, <2>1, <2>3, <2>4, <3>1
      <3> QED
        BY <1>1, <1>3, <2>1, <3>2 DEF QueueInv, q
    <2> QED
      BY <1>1, <2>1, <2>5, AppendProperties
  <1> QED
    BY <1>2, <1>3

LEMMA TypeInit == Init => TypeInv
  <1> SUFFICES ASSUME Init PROVE TypeInv
    OBVIOUS
  <1>1. TypeOK
    <2>1. \A S : <<>> \in Seq(S)
      BY EmptySeq
    <2>2. pwState \subseteq Flags
      BY DEF Init, Flags
    <2> QED
      BY <2>1, <2>2 DEF Init, TypeOK, Stages
  <1>2. QueueInv
    <2>1. HeaderLength + BlockLength \in Nat /\ MaxPending \in Nat
      BY PWAssumption
    <2>2. 0 * (HeaderLength + BlockLength) = 0 /\ Len(<<>>) = 0
      BY <2>1
    <2> QED
      BY <2>1, <2>2 DEF Init, QueueInv
  <1> QED
    BY <1>1, <1>2 DEF TypeInv

LEMMA TypeStep == TypeInv /\ [Next]_vars => TypeInv'
  <1> SUFFICES ASSUME TypeInv, [Next]_vars PROVE TypeInv'
    OBVIOUS
  <1> USE DEF TypeInv
  <1>a. ASSUME abort PROVE TypeInv'
    <2>0. (\A S : <<>> \in Seq(S)) /\ pwState' \subseteq Flags
      BY <1>a, EmptySeq DEF abort, Flags
    <2>1. TypeOK'
      BY <1>a, <2>0 DEF abort, TypeOK, Stages
    <2>2. HeaderLength + BlockLength \in Nat /\ MaxPending \in Nat
      BY PWAssumption
    <2>3. 0 * (HeaderLength + BlockLength) = 0 /\ Len(<<>>) = 0
      BY <2>2
    <2> QED
      BY <1>a, <2>1, <2>2, <2>3 DEF abort, QueueInv
  <1>b. ASSUME UNCHANGED upload PROVE QueueInv'
    BY <1>b DEF QueueInv, upload
  <1>1. CASE SetupConnection
    <2>1. \A t \in {<<>>, <<Msg("bitfield")>>} : <<Msg("handshake")>> \o t \in Seq(Messages)
      BY SomeMessages, ConcatProperties
    <2>2. outgoingBuffer' \in Seq(Messages)
      BY <1>1, <2>1, WriteTyped DEF SetupConnection
    <2> QED
      BY <1>1, <1>b, <2>2 DEF SetupConnection, TypeOK, upload, peer
  <1>2. CASE ScheduleUploads
    <2>0. UNCHANGED <<conn, incoming, readIds, toPeer, fromPeer, peer>>
      BY <1>2 DEF ScheduleUploads
    <2>1. CASE chokePeer /\ UNCHANGED pendingRequestTimer
      <3>1. outgoingBuffer' \in Seq(Messages)
        BY <2>1, SomeMessages, WriteTyped DEF chokePeer
      <3>2. HeaderLength + BlockLength \in Nat /\ MaxPending \in Nat
        BY PWAssumption
      <3>3. 0 * (HeaderLength + BlockLength) = 0 /\ Len(<<>>) = 0
        BY <3>2
      <3>4. QueueInv'
        BY <2>1, <3>2, <3>3 DEF chokePeer, QueueInv
      <3> QED
        BY <2>0, <2>1, <3>1, <3>4 DEF chokePeer, TypeOK, conn, peer, Flags
    <2>2. CASE unchokePeer /\ UNCHANGED upload
      <3>1. outgoingBuffer' \in Seq(Messages)
        BY <2>2, SomeMessages, WriteTyped DEF unchokePeer
      <3> QED
        BY <1>b, <2>0, <2>2, <3>1 DEF unchokePeer, TypeOK, conn, upload, peer
    <2> QED
      BY <1>2, <2>1, <2>2 DEF ScheduleUploads
  <1>3. CASE DropUploader \/ BadData
    BY <1>3, <1>a DEF DropUploader, BadData
  <1>4. CASE Notify
    <2>1. outgoingBuffer' \in Seq(Messages)
      BY <1>4, SomeMessages, WriteTyped DEF Notify, sendPieceNotification, sendKeepAlive
    <2> QED
      BY <1>4, <1>b, <2>1 DEF Notify, TypeOK, conn, upload, peer
  <1>5. CASE ScheduleDownload
    <2>1. outgoingBuffer' \in Seq(Messages)
      BY <1>5, SomeMessages, WriteTyped DEF ScheduleDownload, requestBlock, cancelRequest
    <2>2. incoming' \subseteq Downloads /\ pendingRequestTimer' \in BOOLEAN
      BY <1>5 DEF ScheduleDownload, requestBlock, cancelRequest, TypeOK
    <2> QED
      BY <1>5, <1>b, <2>1, <2>2 DEF ScheduleDownload, TypeOK, conn, upload, peer
  <1>6. CASE SendToPeer
    <2>1. /\ readIds # <<>> /\ readIds' = Tail(readIds) /\ readIds \in Seq(Uploads)
          /\ UNCHANGED <<conn, incoming, toPeer, fromPeer, peer>>
      BY <1>6 DEF SendToPeer, TypeOK
    <2>2. readIds' \in Seq(Uploads) /\ Head(readIds) \in Uploads
      BY <2>1, HeadTailProperties
    <2>3. CASE UNCHANGED <<pwState, pendingRequestTimer, outgoingBuffer, upload>>
      BY <1>b, <2>1, <2>2, <2>3 DEF TypeOK, conn, upload, peer
    <2>4. CASE sendBlock(Head(readIds))
      <3>1. /\ pwState' \subseteq Flags /\ pendingRequestTimer' \in BOOLEAN
            /\ outgoingBuffer' \in Seq(Messages)
            /\ pendingBlocks' \in Seq(Uploads) /\ pendingBlockSizes' \in Nat
            /\ QueueInv'
        BY <2>2, <2>4, SendBlockTyped
      <3> QED
        BY <2>1, <2>2, <3>1 DEF TypeOK, conn, peer
    <2> QED
      BY <1>6, <2>3, <2>4 DEF SendToPeer
  <1>7. CASE WriteToSocket
    <2> DEFINE load   == outgoingBuffer = <<>> /\ pendingBlocks # <<>>
               buffer == IF load THEN <<BlockMsg("piece", Head(pendingBlocks))>>
                         ELSE outgoingBuffer
               q      == HeaderLength + BlockLength
    <2>1. /\ buffer # <<>>
          /\ IF load THEN /\ pendingBlocks' = Tail(pendingBlocks)
                          /\ pendingBlockSizes' = pendingBlockSizes - BlockLength
                     ELSE UNCHANGED upload
          /\ \/ outgoingBuffer' = buffer /\ UNCHANGED toPeer
             \/ outgoingBuffer' = Tail(buffer) /\ toPeer' = Append(toPeer, Head(buffer))
          /\ UNCHANGED <<conn, pwState, incoming, pendingRequestTimer, readIds, fromPeer, peer>>
      BY <1>7 DEF WriteToSocket
    <2>2. buffer \in Seq(Messages)
      <3>1. CASE load
        <4>1. Head(pendingBlocks) \in Uploads
          BY <3>1, HeadTailProperties DEF TypeOK
        <4> QED
          BY <3>1, <4>1, SomeMessages
      <3> QED
        BY <3>1 DEF TypeOK
    <2>3. outgoingBuffer' \in Seq(Messages) /\ toPeer' \in Seq(Messages)
      <3> HIDE DEF buffer
      <3> QED
        <4>1. Head(buffer) \in Messages /\ Tail(buffer) \in Seq(Messages)
          BY <2>1, <2>2, HeadTailProperties
        <4>2. toPeer \in Seq(Messages) /\ Append(toPeer, Head(buffer)) \in Seq(Messages)
          BY <4>1, AppendProperties DEF TypeOK
        <4> QED
          BY <2>1, <2>2, <4>1, <4>2
    <2>4. pendingBlocks' \in Seq(Uploads) /\ pendingBlockSizes' \in Nat /\ QueueInv'
      <3>1. CASE load
        <4>1. /\ pendingBlocks' \in Seq(Uploads) /\ Len(pendingBlocks') \in Nat
              /\ Len(pendingBlocks) = Len(pendingBlocks') + 1
          <5>1. pendingBlocks \in Seq(Uploads) /\ pendingBlocks # <<>>
            BY <3>1 DEF TypeOK
          <5>2. Len(pendingBlocks) \in Nat \ {0}
            BY <5>1, EmptySeq
          <5>3. pendingBlocks' = Tail(pendingBlocks)
            BY <2>1, <3>1
          <5>4. /\ Tail(pendingBlocks) \in Seq(Uploads)
                /\ Len(Tail(pendingBlocks)) = Len(pendingBlocks) - 1
            BY <5>1, HeadTailProperties
          <5> QED
            BY <5>2, <5>3, <5>4
        <4>2. q \in Nat /\ HeaderLength \in Nat /\ BlockLength \in Nat /\ MaxPending \in Nat
          BY PWAssumption
        <4>3. /\ Len(pendingBlocks) * q = Len(pendingBlocks') * q + q
              /\ Len(pendingBlocks') * q \in Nat
          BY <4>1, <4>2, Distribute
        <4>4. Len(pendingBlocks') * q <= pendingBlockSizes - q
          <5> HIDE DEF q
          <5>1. Len(pendingBlocks) * q <= pendingBlockSizes /\ pendingBlockSizes \in Nat
            BY DEF QueueInv, TypeOK, q
          <5> QED
            BY <4>2, <4>3, <5>1
        <4>5. pendingBlockSizes' = pendingBlockSizes - BlockLength
          BY <2>1, <3>1
        <4>6. /\ pendingBlockSizes' \in Nat /\ pendingBlockSizes' <= MaxPending
              /\ Len(pendingBlocks') * q <= pendingBlockSizes'
          <5> DEFINE held == Len(pendingBlocks') * q
          <5>1. held \in Nat /\ held <= pendingBlockSizes - (HeaderLength + BlockLength)
            BY <4>3, <4>4
          <5> HIDE DEF held
          <5>2. pendingBlockSizes \in Nat /\ pendingBlockSizes <= MaxPending
            BY DEF TypeOK, QueueInv
          <5>3. pendingBlockSizes' \in Nat /\ pendingBlockSizes' <= MaxPending
                /\ held <= pendingBlockSizes'
            BY <4>2, <4>5, <5>1, <5>2
          <5> QED
            BY <5>3 DEF held
        <4> QED
          BY <4>1, <4>6 DEF QueueInv
      <3>2. CASE ~load
        BY <1>b, <2>1, <3>2 DEF TypeOK, upload
      <3> QED
        BY <3>1, <3>2
    <2> QED
      BY <2>1, <2>3, <2>4 DEF TypeOK, conn, peer
  <1>8. CASE Timeout
    <2>1. CASE invalidateTimeout' = FALSE /\ UNCHANGED <<connection, sentHandShake, parsed,
                 pwState, incoming, pendingRequestTimer, outgoingBuffer, upload, readIds,
                 toPeer, fromPeer, peer>>
      BY <1>b, <2>1 DEF TypeOK, upload, peer
    <2> QED
      BY <1>8, <1>a, <2>1 DEF Timeout
  <1>9. CASE HandShakePacket
    BY <1>9, <1>b DEF HandShakePacket, TypeOK, Stages, upload, peer
  <1>10. CASE ChokePacket
    BY <1>10, <1>b DEF ChokePacket, Receive, TypeOK, Flags, upload, peer
  <1>11. CASE FlagPacket
    BY <1>11, <1>b DEF FlagPacket, Receive, TypeOK, Flags, upload, peer
  <1>12. CASE HavePacket
    <2>1. /\ outgoingBuffer' \in Seq(Messages) /\ pwState' \subseteq Flags
          /\ pendingRequestTimer' \in BOOLEAN
      <3>1. CASE sendInterested
        BY <3>1, SomeMessages, WriteTyped DEF sendInterested, TypeOK, Flags
      <3>2. CASE sendNotInterested
        BY <3>2, SomeMessages, WriteTyped DEF sendNotInterested, TypeOK
      <3>3. CASE UNCHANGED <<pwState, pendingRequestTimer, outgoingBuffer>>
        BY <3>3 DEF TypeOK
      <3> QED
        BY <1>12, <3>1, <3>2, <3>3 DEF HavePacket
    <2> QED
      BY <1>12, <1>b, <2>1 DEF HavePacket, Receive, TypeOK, upload, peer
  <1>13. CASE RequestPacket
    <2>1. Head(fromPeer) \in Requests /\ fromPeer' \in Seq(Requests)
      BY <1>13, HeadTailProperties DEF RequestPacket, ReceiveNext, TypeOK
    <2>2. Received \in Uploads
      BY <2>1, MessageTypes DEF Received
    <2>3. readIds' \in Seq(Uploads)
      BY <1>13, <2>2, AppendProperties DEF RequestPacket, TypeOK
    <2> QED
      BY <1>13, <1>b, <2>1, <2>3 DEF RequestPacket, ReceiveNext, TypeOK, upload, peer
  <1>14. CASE PiecePacket
    <2>1. PICK b \in Downloads, more \in SUBSET Downloads :
            /\ incoming' = (incoming \ {b}) \cup more
            /\ write([i \in 1 .. Cardinality(more) |-> Other])
      BY <1>14 DEF PiecePacket
    <2>2. Cardinality(more) \in Nat
      BY PWAssumption, FS_Subset, FS_CardinalityType
    <2>3. outgoingBuffer' \in Seq(Messages)
      BY <2>1, <2>2, Others, WriteTyped
    <2> QED
      BY <1>14, <1>b, <2>1, <2>3 DEF PiecePacket, Receive, TypeOK, upload, peer
  <1>15. CASE CancelPacket
    <2>1. fromPeer' \in Seq(Requests)
      BY <1>15, HeadTailProperties DEF CancelPacket, ReceiveNext, TypeOK
    <2>2. /\ pendingBlocks' \in Seq(Uploads) /\ Len(pendingBlocks') <= Len(pendingBlocks)
          /\ Len(pendingBlocks) \in Nat /\ Len(pendingBlocks') \in Nat
      BY <1>15, RemoveFirstShortens, LenProperties DEF CancelPacket, TypeOK
    <2>3. QueueInv'
      <3> DEFINE q == HeaderLength + BlockLength
      <3>1. q \in Nat
        BY PWAssumption
      <3> HIDE DEF q
      <3>2. /\ Len(pendingBlocks') * q <= Len(pendingBlocks) * q
            /\ Len(pendingBlocks) * q \in Nat /\ Len(pendingBlocks') * q \in Nat
        BY <2>2, <3>1, Shorter, Distribute
      <3>3. /\ Len(pendingBlocks) * q <= pendingBlockSizes
            /\ pendingBlockSizes \in Nat /\ pendingBlockSizes' = pendingBlockSizes
        BY <1>15 DEF QueueInv, TypeOK, CancelPacket, q
      <3>4. Len(pendingBlocks') * q <= pendingBlockSizes'
        BY <3>2, <3>3
      <3> QED
        BY <3>3, <3>4 DEF QueueInv, q
    <2> QED
      BY <1>15, <2>1, <2>2, <2>3 DEF CancelPacket, ReceiveNext, TypeOK, peer
  <1>16. CASE PeerRequests
    <2>1. PICK b \in Uploads :
            \/ /\ outstanding' = outstanding \cup {b}
               /\ fromPeer' = Append(fromPeer, BlockMsg("request", b))
            \/ /\ outstanding' = outstanding \ {b}
               /\ fromPeer' = Append(fromPeer, BlockMsg("cancel", b))
      BY <1>16 DEF PeerRequests
    <2>2. fromPeer' \in Seq(Requests) /\ outstanding' \subseteq Uploads
      <3>1. /\ BlockMsg("request", b) \in Requests /\ BlockMsg("cancel", b) \in Requests
            /\ fromPeer \in Seq(Requests) /\ outstanding \subseteq Uploads
        BY MessageTypes DEF TypeOK
      <3>2. \A e \in Requests : Append(fromPeer, e) \in Seq(Requests)
        BY <3>1, AppendProperties
      <3> QED
        BY <2>1, <3>1, <3>2
    <2> QED
      BY <1>16, <1>b, <2>2 DEF PeerRequests, TypeOK, conn, upload
  <1>17. CASE PeerReads
    <2> DEFINE m == Head(toPeer)
    <2>1. CASE ~greeted /\ m.type # "handshake"
      BY <1>17, <1>a, <2>1 DEF PeerReads
    <2>2. CASE ~(~greeted /\ m.type # "handshake")
      <3>1. /\ toPeer # <<>> /\ toPeer' = Tail(toPeer) /\ greeted' = TRUE
            /\ peerChoked' \in BOOLEAN
            /\ outstanding' \in {{}, outstanding \ {m.block}, outstanding}
            /\ UNCHANGED <<conn, pwState, incoming, pendingRequestTimer, outgoingBuffer,
                           upload, readIds, fromPeer>>
        BY <1>17, <2>2 DEF PeerReads, TypeOK
      <3>2. toPeer' \in Seq(Messages) /\ outstanding' \subseteq Uploads
        BY <3>1, HeadTailProperties DEF TypeOK
      <3> QED
        BY <1>b, <3>1, <3>2 DEF TypeOK, conn, upload
    <2> QED
      BY <2>1, <2>2
  <1>18. CASE UNCHANGED vars
    BY <1>18, <1>b DEF vars, TypeOK, conn, upload, peer
  <1> QED
    BY <1>1, <1>2, <1>3, <1>4, <1>5, <1>6, <1>7, <1>8, <1>9, <1>10, <1>11, <1>12, <1>13,
       <1>14, <1>15, <1>16, <1>17, <1>18 DEF Next

(* Every variable keeps its type; in particular the count of queued bytes  *)
(* never becomes negative.                                                 *)
THEOREM TypeCorrect == Spec => []TypeOK
  <1>1. TypeInv => TypeOK
    BY DEF TypeInv
  <1> QED
    BY TypeInit, TypeStep, <1>1, PTL DEF Spec

(* The blocks queued for a slow peer stay within the limit of the queue    *)
(* (sendBlock), though the count kept beside the queue drifts.             *)
THEOREM QueueStaysBounded == Spec => []QueueIsBounded
  <1>1. TypeInv => QueueIsBounded
    <2> SUFFICES ASSUME TypeInv PROVE QueueIsBounded
      OBVIOUS
    <2> DEFINE held == Len(pendingBlocks) * (HeaderLength + BlockLength)
    <2>1. HeaderLength + BlockLength \in Nat /\ MaxPending \in Nat
      BY PWAssumption
    <2>2. held \in Nat
      BY <2>1, Distribute, LenProperties DEF TypeInv, TypeOK
    <2>3. held <= pendingBlockSizes /\ pendingBlockSizes <= MaxPending
          /\ pendingBlockSizes \in Nat
      BY DEF TypeInv, QueueInv, TypeOK
    <2>4. held <= MaxPending
      <3> HIDE DEF held
      <3> QED
        BY <2>1, <2>2, <2>3
    <2> QED
      BY <2>4 DEF QueueIsBounded
  <1> QED
    BY TypeInit, TypeStep, <1>1, PTL DEF Spec

(* Nothing is awaited from a peer that chokes us: choking clears the list, *)
(* and the scheduler asks only who does not choke us.                      *)
THEOREM NothingAwaited == Spec => []NothingAwaitedWhileChoked
  <1>1. Init => NothingAwaitedWhileChoked
    BY DEF Init, NothingAwaitedWhileChoked
  <1>2. NothingAwaitedWhileChoked /\ [Next]_vars => NothingAwaitedWhileChoked'
    <2> SUFFICES ASSUME NothingAwaitedWhileChoked, [Next]_vars,
                        "ChokedByPeer" \in pwState'
                 PROVE  incoming' = {}
      BY DEF NothingAwaitedWhileChoked
    <2>a. ASSUME abort PROVE incoming' = {}
      BY <2>a DEF abort
    <2>1. ASSUME UNCHANGED <<pwState, incoming>> PROVE incoming' = {}
      BY <2>1 DEF NothingAwaitedWhileChoked
    <2>2. CASE ScheduleUploads
      BY <2>2 DEF ScheduleUploads, chokePeer, unchokePeer, NothingAwaitedWhileChoked
    <2>3. CASE DropUploader \/ BadData
      BY <2>3, <2>a DEF DropUploader, BadData
    <2>4. CASE ScheduleDownload
      BY <2>4 DEF ScheduleDownload, requestBlock, cancelRequest, NothingAwaitedWhileChoked
    <2>5. CASE SendToPeer
      BY <2>5 DEF SendToPeer, sendBlock, NothingAwaitedWhileChoked
    <2>6. CASE Timeout
      BY <2>6, <2>1, <2>a DEF Timeout
    <2>7. CASE ChokePacket
      BY <2>7 DEF ChokePacket
    <2>8. CASE FlagPacket
      BY <2>8 DEF FlagPacket, NothingAwaitedWhileChoked
    <2>9. CASE HavePacket
      BY <2>9 DEF HavePacket, sendInterested, sendNotInterested, NothingAwaitedWhileChoked
    <2>10. CASE PiecePacket
      BY <2>10 DEF PiecePacket, NothingAwaitedWhileChoked
    <2>11. CASE PeerReads
      BY <2>11, <2>1, <2>a DEF PeerReads
    <2>12. CASE SetupConnection \/ Notify \/ WriteToSocket \/ HandShakePacket
                  \/ RequestPacket \/ CancelPacket \/ PeerRequests \/ UNCHANGED vars
      BY <2>12, <2>1 DEF SetupConnection, Notify, WriteToSocket, HandShakePacket,
                         RequestPacket, CancelPacket, PeerRequests, vars
    <2> QED
      BY <2>2, <2>3, <2>4, <2>5, <2>6, <2>7, <2>8, <2>9, <2>10, <2>11, <2>12 DEF Next
  <1> QED
    BY <1>1, <1>2, PTL DEF Spec

-----------------------------------------------------------------------------
(* Choking.                                                                *)

(* A peer that takes itself for choked, or not (c), and reads s, takes     *)
(* itself at the end for choked iff k, and never reads a block choked.     *)
Talk(c, s, k) ==
    /\ Choked(c, s, Len(s)) <=> k
    /\ \A i \in 1 .. Len(s) : s[i].type = "piece" => ~Choked(c, s, i)

LEMMA TalkEmpty == Talk(TRUE, <<>>, TRUE)
  BY DEF Talk, Choked

(* Other messages than chokes, unchokes and blocks make no difference.     *)
LEMMA TalkQuiet ==
    ASSUME NEW c \in BOOLEAN, NEW k \in BOOLEAN,
           NEW s \in Seq(Messages), NEW t \in Seq(Messages), Talk(c, s, k),
           \A i \in 1 .. Len(t) : t[i].type \notin {"choke", "unchoke", "piece"}
    PROVE  Talk(c, s \o t, k)
  <1> DEFINE st == s \o t
  <1>1. /\ Len(st) = Len(s) + Len(t) /\ Len(s) \in Nat /\ Len(t) \in Nat
        /\ \A i \in 1 .. Len(s) : st[i] = s[i]
        /\ \A i \in 1 .. Len(t) : st[Len(s) + i] = t[i]
    BY ConcatProperties
  <1> HIDE DEF st
  <1>2. \A j \in Len(s) + 1 .. Len(st) : st[j].type \notin {"choke", "unchoke", "piece"}
    <2> TAKE j \in Len(s) + 1 .. Len(st)
    <2>1. j - Len(s) \in 1 .. Len(t) /\ Len(s) + (j - Len(s)) = j
      BY <1>1
    <2> QED
      BY <1>1, <2>1
  <1>3. \A n \in 0 .. Len(s) : Choked(c, st, n) <=> Choked(c, s, n)
    <2> TAKE n \in 0 .. Len(s)
    <2>1. n \in Nat /\ \A i \in 1 .. n : st[i] = s[i]
      BY <1>1
    <2> QED
      BY <2>1, ChokedOfPrefix
  <1>4. Choked(c, st, Len(st)) <=> Choked(c, s, Len(s))
    <2>1. Choked(c, st, Len(st)) <=> Choked(c, st, Len(s))
      BY <1>1, <1>2, ChokedQuiet
    <2> QED
      BY <1>1, <1>3, <2>1
  <1>5. ASSUME NEW i \in 1 .. Len(st), st[i].type = "piece" PROVE ~Choked(c, st, i)
    <2>1. i \in 1 .. Len(s)
      BY <1>1, <1>2, <1>5
    <2> QED
      BY <1>1, <1>3, <1>5, <2>1 DEF Talk
  <1> QED
    BY <1>4, <1>5 DEF Talk, st

(* One more message; a block only to a peer that knows it is unchoked.     *)
LEMMA TalkAppend ==
    ASSUME NEW c \in BOOLEAN, NEW k \in BOOLEAN,
           NEW s \in Seq(Messages), NEW m \in Messages, Talk(c, s, k),
           m.type = "piece" => ~k
    PROVE  Talk(c, Append(s, m), m.type = "choke" \/ (k /\ m.type # "unchoke"))
  <1> DEFINE sm == Append(s, m)
             n  == Len(s)
  <1>1. /\ Len(sm) = n + 1 /\ n \in Nat /\ sm[n + 1] = m
        /\ \A i \in 1 .. n : sm[i] = s[i]
    BY AppendProperties, LenProperties
  <1> HIDE DEF sm
  <1>2. \A i \in 0 .. n : Choked(c, sm, i) <=> Choked(c, s, i)
    <2> TAKE i \in 0 .. n
    <2>1. i \in Nat /\ \A j \in 1 .. i : sm[j] = s[j]
      BY <1>1
    <2> QED
      BY <2>1, ChokedOfPrefix
  <1>3. Choked(c, sm, n + 1) <=>
          (m.type = "choke" \/ (Choked(c, sm, n) /\ m.type # "unchoke"))
    BY <1>1, ChokedNext
  <1>4. Choked(c, sm, n) <=> k
    BY <1>1, <1>2 DEF Talk
  <1>5. ASSUME NEW i \in 1 .. Len(sm), sm[i].type = "piece" PROVE ~Choked(c, sm, i)
    <2>1. CASE i \in 1 .. n
      BY <1>1, <1>2, <1>5, <2>1 DEF Talk
    <2>2. CASE i = n + 1
      BY <1>1, <1>3, <1>4, <1>5, <2>2
    <2> QED
      BY <1>1, <2>1, <2>2
  <1> QED
    BY <1>1, <1>3, <1>4, <1>5 DEF Talk, sm

(* The peer reads the first message.                                       *)
LEMMA TalkRead ==
    ASSUME NEW c \in BOOLEAN, NEW d \in BOOLEAN, NEW k \in BOOLEAN,
           NEW s \in Seq(Messages), s # <<>>, Talk(c, s, k),
           d <=> (Head(s).type = "choke" \/ (c /\ Head(s).type # "unchoke"))
    PROVE  Talk(d, Tail(s), k)
  <1>1. /\ Len(s) \in Nat \ {0} /\ Len(Tail(s)) = Len(s) - 1
        /\ \A i \in 1 .. Len(s) - 1 : Tail(s)[i] = s[i + 1]
    BY HeadTailProperties, EmptySeq
  <1>2. \A n \in 0 .. Len(s) - 1 : Choked(d, Tail(s), n) <=> Choked(c, s, n + 1)
    BY ChokedTail
  <1>3. Choked(d, Tail(s), Len(Tail(s))) <=> k
    <2>1. Len(s) - 1 \in 0 .. Len(s) - 1 /\ (Len(s) - 1) + 1 = Len(s)
      BY <1>1
    <2> QED
      BY <1>1, <1>2, <2>1 DEF Talk
  <1>4. ASSUME NEW i \in 1 .. Len(Tail(s)), Tail(s)[i].type = "piece"
        PROVE  ~Choked(d, Tail(s), i)
    <2>1. i \in 0 .. Len(s) - 1 /\ i + 1 \in 1 .. Len(s) /\ s[i + 1].type = "piece"
      BY <1>1, <1>4
    <2> QED
      BY <1>2, <2>1 DEF Talk
  <1> QED
    BY <1>3, <1>4 DEF Talk

(* What a step does to the Stream: it appends what is written, ...         *)
LEMMA StreamWrite ==
    ASSUME TypeOK, NEW t \in Seq(Messages), write(t), UNCHANGED toPeer
    PROVE  Stream' = Stream \o t /\ Stream \in Seq(Messages)
  <1>1. toPeer \in Seq(Messages) /\ outgoingBuffer \in Seq(Messages)
    BY DEF TypeOK
  <1>2. (toPeer \o outgoingBuffer) \o t = toPeer \o (outgoingBuffer \o t)
    BY <1>1, ConcatAssociative
  <1>3. toPeer \o outgoingBuffer \in Seq(Messages)
    BY <1>1, ConcatProperties
  <1> QED
    BY <1>2, <1>3 DEF Stream, write

(* ... moves a message to the network without changing it, ...             *)
LEMMA StreamMoves ==
    ASSUME NEW a \in Seq(Messages), NEW s \in Seq(Messages), s # <<>>
    PROVE  Append(a, Head(s)) \o Tail(s) = a \o s
  <1>1. /\ Head(s) \in Messages /\ Tail(s) \in Seq(Messages) /\ <<Head(s)>> \in Seq(Messages)
    BY HeadTailProperties
  <1>2. Append(a, Head(s)) = a \o <<Head(s)>>
    BY <1>1, AppendIsConcat
  <1>3. (a \o <<Head(s)>>) \o Tail(s) = a \o (<<Head(s)>> \o Tail(s))
    BY <1>1, ConcatAssociative
  <1>4. <<Head(s)>> \o Tail(s) = s
    <2> DEFINE u == <<Head(s)>> \o Tail(s)
    <2>1. /\ u \in Seq(Messages) /\ Len(u) = 1 + Len(Tail(s))
          /\ \A i \in 1 .. 1 + Len(Tail(s)) :
               u[i] = IF i <= 1 THEN <<Head(s)>>[i] ELSE Tail(s)[i - 1]
      BY <1>1, ConcatProperties
    <2>2. /\ Len(s) \in Nat \ {0} /\ Len(Tail(s)) = Len(s) - 1 /\ Head(s) = s[1]
          /\ \A i \in 1 .. Len(s) - 1 : Tail(s)[i] = s[i + 1]
      BY HeadTailProperties, EmptySeq
    <2> HIDE DEF u
    <2>3. ASSUME NEW i \in 1 .. Len(s) PROVE u[i] = s[i]
      <3>1. CASE i = 1
        BY <2>1, <2>2, <3>1
      <3>2. CASE i # 1
        <4>1. i - 1 \in 1 .. Len(s) - 1 /\ ~(i <= 1)
          BY <3>2
        <4>2. Tail(s)[i - 1] = s[(i - 1) + 1]
          BY <2>2, <4>1
        <4> QED
          BY <2>1, <2>2, <4>1, <4>2
      <3> QED
        BY <3>1, <3>2
    <2>4. Len(u) = Len(s)
      BY <2>1, <2>2
    <2> HIDE DEF u
    <2>5. u = s
      BY <2>1, <2>3, <2>4, SeqEqual
    <2> QED
      BY <2>5 DEF u
  <1> QED
    BY <1>2, <1>3, <1>4

(* Writing to the socket adds at most the next queued block to the Stream. *)
Loading == outgoingBuffer = <<>> /\ pendingBlocks # <<>>

LEMMA StreamLoads ==
    ASSUME TypeOK, WriteToSocket
    PROVE  IF Loading
           THEN /\ Stream' = Append(Stream, BlockMsg("piece", Head(pendingBlocks)))
                /\ BlockMsg("piece", Head(pendingBlocks)) \in Messages
                /\ Stream \in Seq(Messages)
                /\ pendingBlocks' = Tail(pendingBlocks)
           ELSE Stream' = Stream /\ pendingBlocks' = pendingBlocks
  <1> DEFINE piece  == BlockMsg("piece", Head(pendingBlocks))
             buffer == IF Loading THEN <<piece>> ELSE outgoingBuffer
  <1>1. /\ buffer # <<>>
        /\ pendingBlocks' = IF Loading THEN Tail(pendingBlocks) ELSE pendingBlocks
        /\ \/ outgoingBuffer' = buffer /\ UNCHANGED toPeer
           \/ outgoingBuffer' = Tail(buffer) /\ toPeer' = Append(toPeer, Head(buffer))
    BY DEF WriteToSocket, Loading, upload
  <1>2. Loading => piece \in Messages
    <2>1. Loading => Head(pendingBlocks) \in Uploads
      BY HeadTailProperties DEF TypeOK, Loading
    <2> QED
      BY <2>1, MessageTypes
  <1> HIDE DEF piece
  <1>3. buffer \in Seq(Messages) /\ toPeer \in Seq(Messages)
    BY <1>2 DEF TypeOK
  <1>4. Stream' = toPeer \o buffer
    <2> HIDE DEF buffer
    <2>1. Append(toPeer, Head(buffer)) \o Tail(buffer) = toPeer \o buffer
      BY <1>1, <1>3, StreamMoves
    <2> QED
      BY <1>1, <2>1 DEF Stream
  <1>5. CASE Loading
    <2>1. toPeer \o <<>> = toPeer
      BY <1>3, ConcatEmptySeq
    <2>2. Stream = toPeer
      BY <1>5, <2>1 DEF Stream, Loading
    <2>3. toPeer \o buffer = Append(Stream, piece)
      BY <1>2, <1>3, <1>5, <2>2, AppendIsConcat
    <2> QED
      BY <1>1, <1>2, <1>3, <1>4, <1>5, <2>2, <2>3 DEF piece
  <1>6. CASE ~Loading
    BY <1>1, <1>4, <1>6 DEF Stream
  <1> QED
    BY <1>5, <1>6

(* ... or loses its head to the peer.                                      *)
LEMMA StreamRead ==
    ASSUME NEW a \in Seq(Messages), NEW s \in Seq(Messages), a # <<>>
    PROVE  /\ a \o s # <<>> /\ Head(a \o s) = Head(a)
           /\ Tail(a \o s) = Tail(a) \o s
  <1> DEFINE u == a \o s
  <1>1. /\ u \in Seq(Messages) /\ Len(u) = Len(a) + Len(s)
        /\ \A i \in 1 .. Len(a) + Len(s) :
             u[i] = IF i <= Len(a) THEN a[i] ELSE s[i - Len(a)]
    BY ConcatProperties
  <1>2. /\ Len(a) \in Nat \ {0} /\ Len(s) \in Nat
        /\ Tail(a) \in Seq(Messages) /\ Len(Tail(a)) = Len(a) - 1 /\ Head(a) = a[1]
        /\ \A i \in 1 .. Len(a) - 1 : Tail(a)[i] = a[i + 1]
    BY HeadTailProperties, EmptySeq
  <1> HIDE DEF u
  <1>3. u # <<>> /\ Head(u) = u[1] /\ u[1] = a[1]
    BY <1>1, <1>2
  <1>4. /\ Tail(u) \in Seq(Messages) /\ Len(Tail(u)) = Len(a) + Len(s) - 1
        /\ \A i \in 1 .. Len(a) + Len(s) - 1 : Tail(u)[i] = u[i + 1]
    BY <1>1, <1>2, <1>3, HeadTailProperties
  <1> DEFINE v == Tail(a) \o s
  <1>5. /\ v \in Seq(Messages) /\ Len(v) = Len(a) - 1 + Len(s)
        /\ \A i \in 1 .. Len(a) - 1 + Len(s) :
             v[i] = IF i <= Len(a) - 1 THEN Tail(a)[i] ELSE s[i - (Len(a) - 1)]
    BY <1>2, ConcatProperties
  <1> HIDE DEF v
  <1>6. ASSUME NEW i \in 1 .. Len(v) PROVE Tail(u)[i] = v[i]
    <2>0. i \in 1 .. Len(a) + Len(s) - 1 /\ i + 1 \in 1 .. Len(a) + Len(s)
      BY <1>2, <1>5
    <2>1. Tail(u)[i] = IF i + 1 <= Len(a) THEN a[i + 1] ELSE s[(i + 1) - Len(a)]
      BY <1>1, <1>4, <2>0
    <2>2. CASE i <= Len(a) - 1
      <3>1. i \in 1 .. Len(a) - 1 /\ i + 1 <= Len(a)
        BY <1>2, <2>2
      <3>2. Tail(a)[i] = a[i + 1] /\ v[i] = Tail(a)[i]
        BY <1>2, <1>5, <2>0, <2>2, <3>1
      <3> QED
        BY <2>1, <3>1, <3>2
    <2>3. CASE ~(i <= Len(a) - 1)
      <3>1. (i + 1) - Len(a) = i - (Len(a) - 1) /\ ~(i + 1 <= Len(a))
        BY <1>2, <2>0, <2>3
      <3> QED
        BY <1>5, <2>0, <2>1, <2>3, <3>1
    <2> QED
      BY <2>2, <2>3
  <1>7. Tail(u) = v
    <2>1. Len(Tail(u)) = Len(v)
      BY <1>2, <1>4, <1>5
    <2> QED
      BY <1>4, <1>5, <1>6, <2>1, SeqEqual
  <1> QED
    BY <1>3, <1>7, <1>2 DEF u, v

Choking == "ChokingPeer" \in pwState

(* The peer is told of every choke and unchoke, in order, and blocks wait  *)
(* only for a peer that is not choked.                                     *)
ChokingInv ==
    /\ TypeInv
    /\ Talk(peerChoked, Stream, Choking)
    /\ pendingBlocks # <<>> => ~Choking

LEMMA ChokingInit == Init => ChokingInv
  <1> SUFFICES ASSUME Init PROVE ChokingInv
    OBVIOUS
  <1>1. Stream = <<>>
    <2>1. <<>> \in Seq(Messages)
      BY EmptySeq
    <2> QED
      BY <2>1, ConcatEmptySeq DEF Init, Stream
  <1>2. peerChoked = TRUE /\ pendingBlocks = <<>> /\ Choking = TRUE
    BY DEF Init, Choking
  <1> QED
    BY <1>1, <1>2, TypeInit, TalkEmpty DEF ChokingInv

(* What a step that writes some messages does to the choking of the peer.  *)
LEMMA WriteQuiet ==
    ASSUME ChokingInv, NEW t \in Seq(Messages), write(t), UNCHANGED <<toPeer, peerChoked>>,
           \A i \in 1 .. Len(t) : t[i].type \notin {"choke", "unchoke", "piece"},
           NEW k \in BOOLEAN, k <=> Choking
    PROVE  Talk(peerChoked', Stream', k)
  <1>1. Stream' = Stream \o t /\ Stream \in Seq(Messages) /\ peerChoked \in BOOLEAN
    BY StreamWrite DEF ChokingInv, TypeInv, TypeOK
  <1>2. Talk(peerChoked, Stream, k)
    BY DEF ChokingInv, Talk
  <1>3. Talk(peerChoked, Stream \o t, k)
    BY <1>1, <1>2, TalkQuiet
  <1> QED
    BY <1>1, <1>3

LEMMA WriteOne ==
    ASSUME ChokingInv, NEW m \in Messages, write(<<m>>), UNCHANGED <<toPeer, peerChoked>>,
           m.type = "piece" => ~Choking,
           NEW k \in BOOLEAN, k <=> (m.type = "choke" \/ (Choking /\ m.type # "unchoke"))
    PROVE  Talk(peerChoked', Stream', k)
  <1>1. <<m>> \in Seq(Messages)
    OBVIOUS
  <1>2. Stream' = Stream \o <<m>> /\ Stream \in Seq(Messages) /\ peerChoked \in BOOLEAN
    BY <1>1, StreamWrite DEF ChokingInv, TypeInv, TypeOK
  <1>3. Stream' = Append(Stream, m)
    BY <1>2, AppendIsConcat
  <1> DEFINE now == Choking
  <1>4. Talk(peerChoked, Stream, now) /\ now \in BOOLEAN
    BY DEF ChokingInv, Choking
  <1>5. Talk(peerChoked, Append(Stream, m), m.type = "choke" \/ (now /\ m.type # "unchoke"))
    <2> HIDE DEF now
    <2>1. m.type = "piece" => ~now
      BY DEF now
    <2> QED
      BY <1>2, <1>4, <2>1, TalkAppend
  <1> QED
    BY <1>2, <1>3, <1>5 DEF Talk

LEMMA WriteChokeUnchoke ==
    ASSUME ChokingInv, write(<<Msg("choke"), Msg("unchoke")>>),
           UNCHANGED <<toPeer, peerChoked>>
    PROVE  Talk(peerChoked', Stream', FALSE)
  <1> DEFINE ch == Msg("choke")
             un == Msg("unchoke")
  <1>1. /\ ch \in Messages /\ un \in Messages /\ ch.type = "choke" /\ un.type = "unchoke"
        /\ <<ch, un>> \in Seq(Messages) /\ <<ch>> \in Seq(Messages) /\ <<un>> \in Seq(Messages)
    BY MessageTypes, SomeMessages
  <1>2. Stream' = Stream \o <<ch, un>> /\ Stream \in Seq(Messages) /\ peerChoked \in BOOLEAN
    BY <1>1, StreamWrite DEF ChokingInv, TypeInv, TypeOK
  <1> HIDE DEF ch, un
  <1>3. <<ch, un>> = <<ch>> \o <<un>>
    <2> DEFINE S == {ch, un}
    <2>1. <<ch>> \in Seq(S) /\ un \in S
      OBVIOUS
    <2>2. Append(<<ch>>, un) = <<ch>> \o <<un>>
      BY <2>1, AppendIsConcat
    <2>3. Append(<<ch>>, un) = <<ch, un>>
      <3>1. /\ Append(<<ch>>, un) \in Seq(S) /\ Len(Append(<<ch>>, un)) = 2
            /\ Append(<<ch>>, un)[1] = ch /\ Append(<<ch>>, un)[2] = un
        <4>1. Len(<<ch>>) = 1 /\ <<ch>>[1] = ch
          OBVIOUS
        <4> QED
          BY <2>1, <4>1, AppendProperties
      <3>2. /\ <<ch, un>> \in Seq(S) /\ Len(<<ch, un>>) = 2
            /\ <<ch, un>>[1] = ch /\ <<ch, un>>[2] = un
        OBVIOUS
      <3>3. \A i \in 1 .. 2 : Append(<<ch>>, un)[i] = <<ch, un>>[i]
        BY <3>1, <3>2
      <3> HIDE DEF S
      <3> QED
        BY <3>1, <3>2, <3>3, SeqEqual
    <2> QED
      BY <2>2, <2>3
  <1>4. (Stream \o <<ch>>) \o <<un>> = Stream \o (<<ch>> \o <<un>>)
    BY <1>1, <1>2, ConcatAssociative
  <1>5. Append(Stream, ch) = Stream \o <<ch>> /\ Append(Stream, ch) \in Seq(Messages)
    BY <1>1, <1>2, AppendIsConcat, AppendProperties
  <1>6. Append(Append(Stream, ch), un) = Append(Stream, ch) \o <<un>>
    BY <1>1, <1>5, AppendIsConcat
  <1>7. Stream' = Append(Append(Stream, ch), un)
    BY <1>2, <1>3, <1>4, <1>5, <1>6
  <1> DEFINE now == Choking
  <1>8. Talk(peerChoked, Stream, now) /\ now \in BOOLEAN
    BY DEF ChokingInv, Choking
  <1> HIDE DEF now
  <1>9. Talk(peerChoked, Append(Stream, ch), ch.type = "choke" \/ (now /\ ch.type # "unchoke"))
    BY <1>1, <1>2, <1>8, TalkAppend
  <1>10. Talk(peerChoked, Append(Stream, ch), TRUE)
    BY <1>1, <1>9 DEF Talk
  <1>11. Talk(peerChoked, Append(Append(Stream, ch), un),
              un.type = "choke" \/ (TRUE /\ un.type # "unchoke"))
    BY <1>1, <1>2, <1>5, <1>10, TalkAppend
  <1> QED
    BY <1>1, <1>2, <1>7, <1>11 DEF Talk

LEMMA ChokingStep == ChokingInv /\ [Next]_vars => ChokingInv'
  <1> SUFFICES ASSUME ChokingInv, [Next]_vars PROVE ChokingInv'
    OBVIOUS
  <1>0. /\ TypeInv' /\ TypeInv /\ TypeOK
        /\ pendingBlocks # <<>> => ~Choking
    BY TypeStep DEF ChokingInv, TypeInv
  <1>q. SUFFICES /\ Talk(peerChoked', Stream', Choking')
                 /\ pendingBlocks' # <<>> => ~Choking'
    BY <1>0 DEF ChokingInv
  <1>a. ASSUME abort PROVE ChokingInv'
    <2>1. Stream' = <<>>
      <3>1. <<>> \in Seq(Messages)
        BY EmptySeq
      <3> QED
        BY <1>a, <3>1, ConcatEmptySeq DEF abort, Stream
    <2>2. peerChoked' = TRUE /\ pendingBlocks' = <<>> /\ Choking' = TRUE
      BY <1>a DEF abort, Choking
    <2> QED
      BY <1>0, <2>1, <2>2, TalkEmpty DEF ChokingInv
  <1>b. ASSUME UNCHANGED <<toPeer, outgoingBuffer, peerChoked>>, Choking' = Choking,
               pendingBlocks' # <<>> => pendingBlocks # <<>>
        PROVE  ChokingInv'
    <2>1. Stream' = Stream
      BY <1>b DEF Stream
    <2> QED
      BY <1>0, <1>b, <2>1 DEF ChokingInv, Talk
  <1>c. ASSUME NEW t \in Seq(Messages), write(t), UNCHANGED <<toPeer, peerChoked>>,
               \A i \in 1 .. Len(t) : t[i].type \notin {"choke", "unchoke", "piece"},
               Choking' = Choking, UNCHANGED pendingBlocks
        PROVE  ChokingInv'
    <2>1. Choking' \in BOOLEAN
      BY DEF Choking
    <2>2. Talk(peerChoked', Stream', Choking')
      BY <1>c, <2>1, WriteQuiet
    <2> QED
      BY <1>0, <1>c, <2>2 DEF ChokingInv
  <1>d. /\ <<Other>> \in Seq(Messages)
        /\ \A i \in 1 .. Len(<<Other>>) : <<Other>>[i].type \notin {"choke", "unchoke", "piece"}
    <2>1. Other.type = "other"
      BY MessageTypes DEF Other
    <2> HIDE DEF Other
    <2> QED
      BY <2>1, SomeMessages
  <1>1. CASE SetupConnection
    <2>1. PICK list \in {<<>>, <<Msg("bitfield")>>} : write(<<Msg("handshake")>> \o list)
      BY <1>1 DEF SetupConnection
    <2> DEFINE hs == Msg("handshake")
               bf == Msg("bitfield")
               t  == <<hs>> \o list
    <2>2. hs \in Messages /\ bf \in Messages /\ hs.type = "handshake" /\ bf.type = "bitfield"
      BY MessageTypes
    <2> HIDE DEF hs, bf
    <2>3. <<hs>> \in Seq(Messages) /\ list \in Seq(Messages)
      <3>1. list = <<>> \/ list = <<bf>>
        BY DEF bf
      <3>2. <<>> \in Seq(Messages) /\ <<hs>> \in Seq(Messages) /\ <<bf>> \in Seq(Messages)
        BY <2>2, EmptySeq
      <3> QED
        BY <3>1, <3>2
    <2>4. /\ t \in Seq(Messages) /\ Len(t) = 1 + Len(list)
          /\ \A i \in 1 .. 1 + Len(list) : t[i] = IF i <= 1 THEN <<hs>>[i] ELSE list[i - 1]
      BY <2>3, ConcatProperties
    <2>5. \A i \in 1 .. Len(t) : t[i].type \notin {"choke", "unchoke", "piece"}
      <3> HIDE DEF t
      <3>1. list = <<>> \/ list = <<bf>>
        BY DEF bf
      <3>2. CASE list = <<>>
        <4>1. Len(t) = 1 /\ t[1] = hs
          BY <2>4, <3>2
        <4> QED
          BY <2>2, <4>1
      <3>3. CASE list = <<bf>>
        <4>1. Len(t) = 2 /\ t[1] = hs /\ t[2] = bf
          BY <2>4, <3>3
        <4> QED
          BY <2>2, <4>1
      <3> QED
        BY <3>1, <3>2, <3>3
    <2>6. /\ UNCHANGED <<toPeer, peerChoked>> /\ UNCHANGED pendingBlocks
          /\ Choking' = Choking
      BY <1>1 DEF SetupConnection, upload, peer, Choking
    <2>7. write(t)
      BY <2>1 DEF hs
    <2> HIDE DEF t
    <2>8. ChokingInv'
      BY <2>4, <2>5, <2>6, <2>7, <1>c
    <2> QED
      BY <2>8 DEF ChokingInv
  <1>2. CASE ScheduleUploads
    <2>0. UNCHANGED <<toPeer, peerChoked>>
      BY <1>2 DEF ScheduleUploads, peer
    <2>1. CASE chokePeer
      <3>1. write(<<Msg("choke")>>) /\ Choking' = TRUE /\ pendingBlocks' = <<>>
        BY <2>1 DEF chokePeer, Choking
      <3>2. Msg("choke") \in Messages /\ Msg("choke").type = "choke"
        BY MessageTypes
      <3>3. Talk(peerChoked', Stream', Choking')
        BY <2>0, <3>1, <3>2, WriteOne
      <3> QED
        BY <3>1, <3>3
    <2>2. CASE unchokePeer
      <3>1. write(<<Msg("unchoke")>>) /\ Choking' = FALSE
        BY <2>2 DEF unchokePeer, Choking
      <3>2. Msg("unchoke") \in Messages /\ Msg("unchoke").type = "unchoke"
        BY MessageTypes
      <3>3. Talk(peerChoked', Stream', Choking')
        BY <2>0, <3>1, <3>2, WriteOne
      <3> QED
        BY <3>1, <3>3
    <2> QED
      BY <1>2, <2>1, <2>2 DEF ScheduleUploads
  <1>3. CASE DropUploader \/ BadData
    BY <1>3, <1>a DEF DropUploader, BadData, ChokingInv
  <1>4. CASE Notify
    <2>1. /\ write(<<Other>>) /\ UNCHANGED <<toPeer, peerChoked>> /\ UNCHANGED pendingBlocks
          /\ Choking' = Choking
      BY <1>4 DEF Notify, sendPieceNotification, sendKeepAlive, upload, peer, Choking
    <2>2. ChokingInv'
      BY <2>1, <1>d, <1>c
    <2> QED
      BY <2>2 DEF ChokingInv
  <1>5. CASE ScheduleDownload
    <2>1. /\ write(<<Other>>) /\ UNCHANGED <<toPeer, peerChoked>> /\ UNCHANGED pendingBlocks
          /\ Choking' = Choking
      BY <1>5 DEF ScheduleDownload, requestBlock, cancelRequest, upload, peer, Choking
    <2>2. ChokingInv'
      BY <2>1, <1>d, <1>c
    <2> QED
      BY <2>2 DEF ChokingInv
  <1>6. CASE SendToPeer
    <2>0. UNCHANGED <<toPeer, peerChoked>>
      BY <1>6 DEF SendToPeer, peer
    <2>1. CASE UNCHANGED <<pwState, pendingRequestTimer, outgoingBuffer, upload>>
      <3>1. /\ UNCHANGED <<toPeer, outgoingBuffer, peerChoked>> /\ Choking' = Choking
            /\ pendingBlocks' # <<>> => pendingBlocks # <<>>
        BY <2>0, <2>1 DEF upload, Choking
      <3>2. ChokingInv'
        BY <3>1, <1>b
      <3> QED
        BY <3>2 DEF ChokingInv
    <2>2. CASE ~Choking /\ sendBlock(Head(readIds))
      <3>1. CASE /\ write(<<Msg("choke"), Msg("unchoke")>>)
                 /\ pwState' = pwState \ {"ChokingPeer"} /\ pendingBlocks' = <<>>
        <4>1. Talk(peerChoked', Stream', FALSE)
          BY <2>0, <3>1, WriteChokeUnchoke
        <4>2. Choking' = FALSE
          BY <3>1 DEF Choking
        <4> QED
          BY <3>1, <4>1, <4>2
      <3>2. CASE UNCHANGED <<pwState, outgoingBuffer>>
        <4>1. Stream' = Stream /\ Choking' = FALSE /\ Choking = FALSE /\ peerChoked' = peerChoked
          BY <2>0, <2>2, <3>2 DEF Stream, Choking
        <4>2. Talk(peerChoked, Stream, Choking)
          BY DEF ChokingInv
        <4> QED
          BY <4>1, <4>2
      <3> QED
        BY <2>2, <3>1, <3>2 DEF sendBlock
    <2> QED
      BY <1>6, <2>1, <2>2 DEF SendToPeer, Choking
  <1>7. CASE WriteToSocket
    <2> DEFINE now == Choking
    <2>1. /\ now \in BOOLEAN /\ Talk(peerChoked, Stream, now) /\ peerChoked \in BOOLEAN
          /\ peerChoked' = peerChoked /\ Choking' = now
          /\ pendingBlocks' # <<>> => pendingBlocks # <<>>
      BY <1>0, <1>7 DEF WriteToSocket, ChokingInv, TypeOK, upload, peer, Choking
    <2>2. Stream \in Seq(Messages)
      <3>1. toPeer \in Seq(Messages) /\ outgoingBuffer \in Seq(Messages)
        BY <1>0 DEF TypeOK
      <3> QED
        BY <3>1, ConcatProperties DEF Stream
    <2>3. Talk(peerChoked, Stream', now)
      <3>1. CASE Loading
        <4> DEFINE piece == BlockMsg("piece", Head(pendingBlocks))
        <4>1. piece \in Messages /\ piece.type = "piece" /\ Stream' = Append(Stream, piece)
          BY <1>0, <1>7, <3>1, StreamLoads, MessageTypes
        <4>2. ~now
          BY <1>0, <3>1 DEF Loading
        <4> HIDE DEF now, piece
        <4>3. Talk(peerChoked, Append(Stream, piece),
                   piece.type = "choke" \/ (now /\ piece.type # "unchoke"))
          BY <2>1, <2>2, <4>1, <4>2, TalkAppend
        <4> QED
          BY <4>1, <4>2, <4>3 DEF Talk
      <3>2. CASE ~Loading
        <4>1. Stream' = Stream
          BY <1>0, <1>7, <3>2, StreamLoads
        <4> QED
          BY <2>1, <4>1
      <3> QED
        BY <3>1, <3>2
    <2>4. pendingBlocks' # <<>> => ~Choking'
      BY <1>0, <2>1
    <2> QED
      BY <2>1, <2>3, <2>4
  <1>8. CASE Timeout
    <2>1. CASE UNCHANGED <<connection, sentHandShake, parsed, pwState, incoming,
                 pendingRequestTimer, outgoingBuffer, upload, readIds, toPeer, fromPeer, peer>>
      <3>1. /\ UNCHANGED <<toPeer, outgoingBuffer, peerChoked>> /\ Choking' = Choking
            /\ pendingBlocks' # <<>> => pendingBlocks # <<>>
        BY <2>1 DEF upload, peer, Choking
      <3>2. ChokingInv'
        BY <3>1, <1>b
      <3> QED
        BY <3>2 DEF ChokingInv
    <2> QED
      BY <1>8, <1>a, <2>1 DEF Timeout, ChokingInv
  <1>9. CASE HandShakePacket \/ ChokePacket \/ FlagPacket \/ RequestPacket \/ PeerRequests
               \/ UNCHANGED vars
    <2>1. UNCHANGED <<toPeer, outgoingBuffer, upload, peerChoked>>
      BY <1>9 DEF HandShakePacket, ChokePacket, FlagPacket, RequestPacket, PeerRequests,
                  vars, peer
    <2>2. Choking' = Choking
      BY <1>9 DEF HandShakePacket, ChokePacket, FlagPacket, RequestPacket, PeerRequests,
                  vars, Choking
    <2>3. ChokingInv'
      BY <2>1, <2>2, <1>b DEF upload
    <2> QED
      BY <2>3 DEF ChokingInv
  <1>10. CASE HavePacket
    <2>1. /\ UNCHANGED <<toPeer, peerChoked>> /\ UNCHANGED pendingBlocks
          /\ Choking' = Choking
      BY <1>10 DEF HavePacket, sendInterested, sendNotInterested, upload, peer, Choking
    <2>2. write(<<Other>>) \/ UNCHANGED outgoingBuffer
      BY <1>10 DEF HavePacket, sendInterested, sendNotInterested
    <2>3. ChokingInv'
      <3>1. CASE write(<<Other>>)
        BY <2>1, <3>1, <1>d, <1>c
      <3>2. CASE UNCHANGED outgoingBuffer
        BY <2>1, <3>2, <1>b
      <3> QED
        BY <2>2, <3>1, <3>2
    <2> QED
      BY <2>3 DEF ChokingInv
  <1>11. CASE PiecePacket
    <2>1. PICK more \in SUBSET Downloads : write([i \in 1 .. Cardinality(more) |-> Other])
      BY <1>11 DEF PiecePacket
    <2> DEFINE n == Cardinality(more)
               t == [i \in 1 .. n |-> Other]
    <2>2. n \in Nat
      BY <2>1, PWAssumption, FS_Subset, FS_CardinalityType
    <2>3. t \in Seq(Messages) /\ Len(t) = n
      <3> HIDE DEF n
      <3> QED
        BY <2>2, Others
    <2>4. \A i \in 1 .. Len(t) : t[i].type \notin {"choke", "unchoke", "piece"}
      <3>1. Other.type = "other"
        BY MessageTypes DEF Other
      <3>2. \A i \in 1 .. n : t[i] = Other
        OBVIOUS
      <3> QED
        BY <2>3, <3>1, <3>2
    <2>5. /\ UNCHANGED <<toPeer, peerChoked>> /\ UNCHANGED pendingBlocks
          /\ Choking' = Choking
      BY <1>11 DEF PiecePacket, upload, peer, Choking
    <2>6. write(t)
      BY <2>1
    <2> HIDE DEF t
    <2>7. ChokingInv'
      BY <2>3, <2>4, <2>5, <2>6, <1>c
    <2> QED
      BY <2>7 DEF ChokingInv
  <1>12. CASE CancelPacket
    <2>1. /\ UNCHANGED <<toPeer, outgoingBuffer, peerChoked>> /\ Choking' = Choking
          /\ pendingBlocks' = RemoveFirst(pendingBlocks, Received)
      BY <1>12 DEF CancelPacket, peer, Choking
    <2>2. pendingBlocks' # <<>> => pendingBlocks # <<>>
      <3>1. pendingBlocks \in Seq(Uploads) /\ pendingBlocks' \in Seq(Uploads)
            /\ Len(pendingBlocks') <= Len(pendingBlocks)
        BY <1>0, <2>1, RemoveFirstShortens DEF TypeOK
      <3>2. pendingBlocks = <<>> => Len(pendingBlocks') = 0
        BY <3>1
      <3> QED
        BY <3>1, <3>2, EmptySeq
    <2>3. ChokingInv'
      BY <2>1, <2>2, <1>b
    <2> QED
      BY <2>3 DEF ChokingInv
  <1>13. CASE PeerReads
    <2> DEFINE m == Head(toPeer)
    <2>1. CASE ~greeted /\ m.type # "handshake"
      BY <1>13, <1>a, <2>1 DEF PeerReads, ChokingInv
    <2>2. CASE ~(~greeted /\ m.type # "handshake")
      <3>1. /\ toPeer # <<>> /\ toPeer' = Tail(toPeer)
            /\ UNCHANGED <<pwState, outgoingBuffer, upload>>
            /\ peerChoked' = (m.type = "choke" \/ (peerChoked /\ m.type # "unchoke"))
        BY <1>13, <2>2 DEF PeerReads
      <3>2. toPeer \in Seq(Messages) /\ outgoingBuffer \in Seq(Messages) /\ peerChoked \in BOOLEAN
        BY <1>0 DEF TypeOK
      <3>3. /\ Stream # <<>> /\ Head(Stream) = m /\ Stream' = Tail(Stream)
            /\ Stream \in Seq(Messages)
        <4>1. toPeer \o outgoingBuffer \in Seq(Messages)
          BY <3>2, ConcatProperties
        <4> QED
          BY <3>1, <3>2, <4>1, StreamRead DEF Stream
      <3> DEFINE now == Choking
      <3>4. now \in BOOLEAN /\ Talk(peerChoked, Stream, now) /\ Choking' = now
            /\ pendingBlocks' = pendingBlocks
        BY <3>1 DEF ChokingInv, Choking, upload
      <3> HIDE DEF now, m
      <3>5. peerChoked' \in BOOLEAN
        BY <3>1, <3>2
      <3>6. Talk(peerChoked', Tail(Stream), now)
        BY <3>1, <3>2, <3>3, <3>4, <3>5, TalkRead
      <3>7. Talk(peerChoked', Stream', Choking')
        BY <3>3, <3>4, <3>6
      <3>8. pendingBlocks' # <<>> => ~Choking'
        BY <1>0, <3>4 DEF now
      <3> QED
        BY <3>7, <3>8
    <2> QED
      BY <2>1, <2>2
  <1> QED
    BY <1>1, <1>2, <1>3, <1>4, <1>5, <1>6, <1>7, <1>8, <1>9, <1>10, <1>11, <1>12, <1>13 DEF Next

(* When the peer has read all that is under way it knows whether we choke  *)
(* it (chokePeer, unchokePeer, sendBlock), for any history of the flag.    *)
THEOREM PeerAlwaysLearnsChoking == Spec => []PeerLearnsChoking
  <1>1. ChokingInv => PeerLearnsChoking
    BY DEF ChokingInv, Talk, PeerLearnsChoking, Choking
  <1> QED
    BY ChokingInit, ChokingStep, <1>1, PTL DEF Spec

(* No block reaches the peer between a choke and the next unchoke, though  *)
(* control messages overtake the queued blocks (writeToSocket).            *)
THEOREM BlocksOnlyUnchoked == Spec => []NoBlockWhileChoked
  <1>1. ChokingInv => NoBlockWhileChoked
    <2> SUFFICES ASSUME ChokingInv PROVE NoBlockWhileChoked
      OBVIOUS
    <2>1. toPeer \in Seq(Messages) /\ outgoingBuffer \in Seq(Messages)
      BY DEF ChokingInv, TypeInv, TypeOK
    <2>2. Stream \in Seq(Messages)
      BY <2>1, ConcatProperties DEF Stream
    <2>3. DOMAIN Stream = 1 .. Len(Stream)
      BY <2>2, LenProperties
    <2> QED
      BY <2>3 DEF ChokingInv, Talk, NoBlockWhileChoked
  <1> QED
    BY ChokingInit, ChokingStep, <1>1, PTL DEF Spec

-----------------------------------------------------------------------------
(* The requests of the peer.                                               *)

(* A peer that takes itself for choked awaits nothing.                     *)
NothingAsked == peerChoked => outstanding = {}

(* It asked again after it cancelled what it still awaits.                 *)
CancelsAreOld ==
    \A b \in outstanding, i \in 1 .. Len(fromPeer) :
        fromPeer[i] = BlockMsg("cancel", b) =>
            \E j \in i + 1 .. Len(fromPeer) : fromPeer[j] = BlockMsg("request", b)

RequestInv == ChokingInv /\ NothingAsked /\ CancelsAreOld /\ PeerIsNotStranded

LEMMA RequestInit == Init => RequestInv
  <1>1. Init => outstanding = {}
    BY DEF Init
  <1> QED
    BY <1>1, ChokingInit DEF RequestInv, NothingAsked, CancelsAreOld, PeerIsNotStranded

LEMMA NothingAskedStep == NothingAsked /\ [Next]_vars => NothingAsked'
  <1> SUFFICES ASSUME NothingAsked, [Next]_vars PROVE NothingAsked'
    OBVIOUS
  <1>a. ASSUME abort PROVE NothingAsked'
    BY <1>a DEF abort, NothingAsked
  <1>b. ASSUME UNCHANGED peer PROVE NothingAsked'
    BY <1>b DEF NothingAsked, peer
  <1>1. CASE DropUploader \/ BadData
    BY <1>1, <1>a DEF DropUploader, BadData
  <1>2. CASE Timeout
    BY <1>2, <1>a, <1>b DEF Timeout
  <1>3. CASE PeerRequests
    BY <1>3 DEF PeerRequests, NothingAsked
  <1>4. CASE PeerReads
    <2> DEFINE m == Head(toPeer)
    <2>1. CASE ~greeted /\ m.type # "handshake"
      BY <1>4, <1>a, <2>1 DEF PeerReads
    <2>2. CASE ~(~greeted /\ m.type # "handshake")
      <3>1. /\ peerChoked' = (m.type = "choke" \/ (peerChoked /\ m.type # "unchoke"))
            /\ outstanding' = CASE m.type = "choke" -> {}
                                [] m.type = "piece" -> outstanding \ {m.block}
                                [] OTHER -> outstanding
        BY <1>4, <2>2 DEF PeerReads
      <3> HIDE DEF m
      <3>2. CASE m.type = "choke"
        BY <3>1, <3>2 DEF NothingAsked
      <3>3. CASE m.type = "piece"
        BY <3>1, <3>3 DEF NothingAsked
      <3>4. CASE m.type \notin {"choke", "piece"}
        BY <3>1, <3>4 DEF NothingAsked
      <3> QED
        BY <3>2, <3>3, <3>4
    <2> QED
      BY <2>1, <2>2
  <1>5. CASE SetupConnection \/ ScheduleUploads \/ Notify \/ ScheduleDownload \/ SendToPeer
               \/ WriteToSocket \/ HandShakePacket \/ ChokePacket \/ FlagPacket \/ HavePacket
               \/ RequestPacket \/ PiecePacket \/ CancelPacket \/ UNCHANGED vars
    BY <1>5, <1>b DEF SetupConnection, ScheduleUploads, Notify, ScheduleDownload, SendToPeer,
       WriteToSocket, HandShakePacket, ChokePacket, FlagPacket, HavePacket, RequestPacket,
       PiecePacket, CancelPacket, vars
  <1> QED
    BY <1>1, <1>2, <1>3, <1>4, <1>5 DEF Next

LEMMA CancelsStep == TypeOK /\ CancelsAreOld /\ [Next]_vars => CancelsAreOld'
  <1> SUFFICES ASSUME TypeOK, CancelsAreOld, [Next]_vars PROVE CancelsAreOld'
    OBVIOUS
  <1>0. fromPeer \in Seq(Requests) /\ Len(fromPeer) \in Nat
    BY LenProperties DEF TypeOK
  <1>a. ASSUME abort PROVE CancelsAreOld'
    BY <1>a DEF abort, CancelsAreOld
  <1>b. ASSUME UNCHANGED fromPeer, outstanding' \subseteq outstanding PROVE CancelsAreOld'
    BY <1>b DEF CancelsAreOld
  <1>c. ASSUME NEW t, ReceiveNext(t), UNCHANGED outstanding PROVE CancelsAreOld'
    <2>1. /\ fromPeer # <<>> /\ fromPeer' = Tail(fromPeer)
          /\ Len(fromPeer') = Len(fromPeer) - 1
          /\ \A i \in 1 .. Len(fromPeer) - 1 : fromPeer'[i] = fromPeer[i + 1]
      BY <1>0, <1>c, HeadTailProperties DEF ReceiveNext
    <2> SUFFICES ASSUME NEW b \in outstanding, NEW i \in 1 .. Len(fromPeer'),
                        fromPeer'[i] = BlockMsg("cancel", b)
                 PROVE  \E j \in i + 1 .. Len(fromPeer') : fromPeer'[j] = BlockMsg("request", b)
      BY <1>c DEF CancelsAreOld
    <2>2. i + 1 \in 1 .. Len(fromPeer) /\ fromPeer[i + 1] = BlockMsg("cancel", b)
      BY <1>0, <2>1
    <2>3. PICK j \in (i + 1) + 1 .. Len(fromPeer) : fromPeer[j] = BlockMsg("request", b)
      BY <2>2 DEF CancelsAreOld
    <2>4. j - 1 \in i + 1 .. Len(fromPeer') /\ j - 1 \in 1 .. Len(fromPeer) - 1
          /\ (j - 1) + 1 = j
      BY <1>0, <2>1
    <2>5. fromPeer'[j - 1] = BlockMsg("request", b)
      BY <2>1, <2>3, <2>4
    <2> QED
      BY <2>4, <2>5
  <1>1. CASE DropUploader \/ BadData
    BY <1>1, <1>a DEF DropUploader, BadData
  <1>2. CASE Timeout
    BY <1>2, <1>a, <1>b DEF Timeout, peer
  <1>3. CASE RequestPacket \/ CancelPacket
    BY <1>3, <1>c DEF RequestPacket, CancelPacket, peer
  <1>4. CASE PeerRequests
    <2> DEFINE n == Len(fromPeer)
    <2>1. PICK b \in Uploads :
            \/ /\ outstanding' = outstanding \cup {b}
               /\ fromPeer' = Append(fromPeer, BlockMsg("request", b))
            \/ /\ outstanding' = outstanding \ {b}
               /\ fromPeer' = Append(fromPeer, BlockMsg("cancel", b))
      BY <1>4 DEF PeerRequests
    <2> DEFINE req == BlockMsg("request", b)
               can == BlockMsg("cancel", b)
    <2>2. /\ req \in Requests /\ can \in Requests
          /\ \A z : BlockMsg("cancel", z) # req
          /\ \A z : BlockMsg("cancel", z) = can => z = b
      BY MessageTypes
    <2> HIDE DEF req, can
    <2>3. /\ Len(fromPeer') = n + 1 /\ n \in Nat
          /\ \A i \in 1 .. n : fromPeer'[i] = fromPeer[i]
          /\ fromPeer'[n + 1] \in {req, can}
          /\ fromPeer'[n + 1] = can => outstanding' = outstanding \ {b}
          /\ fromPeer'[n + 1] = req => outstanding' = outstanding \cup {b}
      <3>1. req # can
        BY <2>2 DEF can
      <3>2. CASE outstanding' = outstanding \cup {b} /\ fromPeer' = Append(fromPeer, req)
        BY <1>0, <2>2, <3>1, <3>2, AppendProperties
      <3>3. CASE outstanding' = outstanding \ {b} /\ fromPeer' = Append(fromPeer, can)
        BY <1>0, <2>2, <3>1, <3>3, AppendProperties
      <3> QED
        BY <2>1, <3>2, <3>3 DEF req, can
    <2> SUFFICES ASSUME NEW z \in outstanding', NEW i \in 1 .. n + 1,
                        fromPeer'[i] = BlockMsg("cancel", z)
                 PROVE  \E j \in i + 1 .. n + 1 : fromPeer'[j] = BlockMsg("request", z)
      BY <2>3 DEF CancelsAreOld
    <2>4. i # n + 1
      BY <2>2, <2>3
    <2>5. i \in 1 .. n /\ fromPeer[i] = BlockMsg("cancel", z)
      BY <2>3, <2>4
    <2>6. CASE z \in outstanding
      <3>1. PICK j \in i + 1 .. n : fromPeer[j] = BlockMsg("request", z)
        BY <2>5, <2>6 DEF CancelsAreOld
      <3>2. j \in 1 .. n /\ j \in i + 1 .. n + 1
        BY <2>3, <2>5
      <3> QED
        BY <2>3, <3>1, <3>2
    <2>7. CASE z \notin outstanding
      <3>1. z = b /\ fromPeer'[n + 1] = req
        BY <2>3, <2>7
      <3>2. n + 1 \in i + 1 .. n + 1
        BY <2>3, <2>5
      <3> QED
        BY <3>1, <3>2 DEF req
    <2> QED
      BY <2>6, <2>7
  <1>5. CASE PeerReads
    <2> DEFINE m == Head(toPeer)
    <2>1. CASE ~greeted /\ m.type # "handshake"
      BY <1>5, <1>a, <2>1 DEF PeerReads
    <2>2. CASE ~(~greeted /\ m.type # "handshake")
      <3>1. UNCHANGED fromPeer /\ outstanding' \in {{}, outstanding \ {m.block}, outstanding}
        BY <1>5, <2>2 DEF PeerReads
      <3> QED
        BY <1>b, <3>1
    <2> QED
      BY <2>1, <2>2
  <1>6. CASE SetupConnection \/ ScheduleUploads \/ Notify \/ ScheduleDownload \/ SendToPeer
               \/ WriteToSocket \/ HandShakePacket \/ ChokePacket \/ FlagPacket \/ HavePacket
               \/ PiecePacket \/ UNCHANGED vars
    BY <1>6, <1>b DEF SetupConnection, ScheduleUploads, Notify, ScheduleDownload, SendToPeer,
       WriteToSocket, HandShakePacket, ChokePacket, FlagPacket, HavePacket, Receive,
       PiecePacket, vars, peer
  <1> QED
    BY <1>1, <1>2, <1>3, <1>4, <1>5, <1>6 DEF Next

(* A request that is dropped because the peer is choked has a choke under  *)
(* way.                                                                    *)
LEMMA ChokeUnderWay ==
    ASSUME ChokingInv, NothingAsked, Choking, outstanding # {}
    PROVE  Msg("choke") \in ToSet(Stream)
  <1>1. Stream \in Seq(Messages)
    <2>1. toPeer \in Seq(Messages) /\ outgoingBuffer \in Seq(Messages)
      BY DEF ChokingInv, TypeInv, TypeOK
    <2> QED
      BY <2>1, ConcatProperties DEF Stream
  <1>2. ~peerChoked /\ Choked(peerChoked, Stream, Len(Stream))
    BY DEF ChokingInv, NothingAsked, Talk
  <1>3. PICK i \in 1 .. Len(Stream) : Stream[i].type = "choke"
    BY <1>2 DEF Choked
  <1>4. Stream[i] \in Messages
    BY <1>1
  <1>5. Stream[i] = Msg("choke")
    BY <1>3, <1>4, MessageTypes
  <1> QED
    BY <1>1, <1>5, InToSet

(* A step leaves what the peer waits for where it is, moves it on towards  *)
(* the peer, or leaves a choke on the way.                                 *)
LEMMA NotStrandedStep == RequestInv /\ [Next]_vars => PeerIsNotStranded'
  <1> SUFFICES ASSUME RequestInv, [Next]_vars PROVE PeerIsNotStranded'
    OBVIOUS
  <1>0. /\ TypeOK /\ ChokingInv /\ NothingAsked /\ CancelsAreOld /\ PeerIsNotStranded
        /\ outgoingBuffer \in Seq(Messages) /\ toPeer \in Seq(Messages)
        /\ Stream \in Seq(Messages) /\ fromPeer \in Seq(Requests)
        /\ pendingBlocks \in Seq(Uploads) /\ readIds \in Seq(Uploads)
    <2>1. TypeOK /\ ChokingInv /\ NothingAsked /\ CancelsAreOld /\ PeerIsNotStranded
      BY DEF RequestInv, ChokingInv, TypeInv
    <2> QED
      BY <2>1, ConcatProperties DEF TypeOK, Stream
  <1>a. ASSUME abort PROVE PeerIsNotStranded'
    BY <1>a DEF abort, PeerIsNotStranded
  <1>c. ASSUME Msg("choke") \in ToSet(Stream') PROVE PeerIsNotStranded'
    BY <1>c DEF PeerIsNotStranded
  <1>k. ASSUME outstanding' \subseteq outstanding,
               ToSet(Stream) \subseteq ToSet(Stream'),
               \A b \in outstanding' :
                 /\ BlockMsg("request", b) \in ToSet(fromPeer) =>
                      \/ BlockMsg("request", b) \in ToSet(fromPeer')
                      \/ b \in ToSet(readIds')
                 /\ b \in ToSet(readIds) => b \in ToSet(readIds') \cup ToSet(pendingBlocks')
                 /\ b \in ToSet(pendingBlocks) =>
                      \/ b \in ToSet(pendingBlocks')
                      \/ BlockMsg("request", b) \in ToSet(fromPeer')
                      \/ BlockMsg("piece", b) \in ToSet(Stream')
        PROVE  PeerIsNotStranded'
    BY <1>0, <1>k DEF PeerIsNotStranded
  <1>u. ASSUME UNCHANGED <<toPeer, outgoingBuffer, outstanding, fromPeer, readIds, pendingBlocks>>
        PROVE  PeerIsNotStranded'
    <2>1. Stream' = Stream
      BY <1>u DEF Stream
    <2> QED
      BY <1>0, <1>u, <2>1 DEF PeerIsNotStranded
  <1>w. ASSUME NEW t \in Seq(Messages), write(t),
               UNCHANGED <<toPeer, outstanding, fromPeer, readIds, pendingBlocks>>
        PROVE  PeerIsNotStranded'
    <2>1. Stream' = Stream \o t
      BY <1>0, <1>w, StreamWrite
    <2>2. ToSet(Stream) \subseteq ToSet(Stream')
      BY <1>0, <1>w, <2>1, ConcatKeeps
    <2> QED
      BY <1>0, <1>w, <2>2 DEF PeerIsNotStranded
  <1>x. ASSUME NEW t \in Seq(Messages), write(t), UNCHANGED toPeer,
               Msg("choke") \in ToSet(t)
        PROVE  PeerIsNotStranded'
    <2>1. Stream' = Stream \o t
      BY <1>0, <1>x, StreamWrite
    <2>2. ToSet(t) \subseteq ToSet(Stream')
      BY <1>0, <1>x, <2>1, ConcatKeeps
    <2> QED
      BY <1>c, <1>x, <2>2
  <1>y. /\ <<Msg("choke")>> \in Seq(Messages)
        /\ <<Msg("choke"), Msg("unchoke")>> \in Seq(Messages)
        /\ Msg("choke") \in ToSet(<<Msg("choke")>>)
        /\ Msg("choke") \in ToSet(<<Msg("choke"), Msg("unchoke")>>)
    <2> DEFINE ch == Msg("choke")
               un == Msg("unchoke")
    <2>1. /\ <<ch>> \in Seq(Messages) /\ <<ch, un>> \in Seq(Messages)
      BY SomeMessages
    <2> HIDE DEF ch, un
    <2>2. Len(<<ch>>) = 1 /\ <<ch>>[1] = ch /\ Len(<<ch, un>>) = 2 /\ <<ch, un>>[1] = ch
      OBVIOUS
    <2>3. 1 \in 1 .. Len(<<ch>>) /\ 1 \in 1 .. Len(<<ch, un>>)
      BY <2>2
    <2>4. ch \in ToSet(<<ch>>) /\ ch \in ToSet(<<ch, un>>)
      BY <2>1, <2>2, <2>3, InToSet
    <2> QED
      BY <2>1, <2>4 DEF ch, un
  <1>z. ASSUME Choking, UNCHANGED <<toPeer, outgoingBuffer, outstanding>>
        PROVE  PeerIsNotStranded'
    <2>1. Stream' = Stream
      BY <1>z DEF Stream
    <2>2. CASE outstanding = {}
      BY <1>z, <2>2 DEF PeerIsNotStranded
    <2>3. CASE outstanding # {}
      BY <1>0, <1>c, <1>z, <2>1, <2>3, ChokeUnderWay
    <2> QED
      BY <2>2, <2>3
  <1>1. CASE SetupConnection
    <2>1. PICK list \in {<<>>, <<Msg("bitfield")>>} : write(<<Msg("handshake")>> \o list)
      BY <1>1 DEF SetupConnection
    <2>2. <<Msg("handshake")>> \o list \in Seq(Messages)
      BY SomeMessages, ConcatProperties
    <2>3. UNCHANGED <<toPeer, outstanding, fromPeer, readIds, pendingBlocks>>
      BY <1>1 DEF SetupConnection, upload, peer
    <2> QED
      BY <2>1, <2>2, <2>3, <1>w
  <1>2. CASE ScheduleUploads
    <2>0. UNCHANGED <<toPeer, outstanding, fromPeer, readIds>>
      BY <1>2 DEF ScheduleUploads, peer
    <2>1. CASE chokePeer
      BY <2>0, <2>1, <1>x, <1>y DEF chokePeer
    <2>2. CASE unchokePeer /\ UNCHANGED upload
      <3>1. write(<<Msg("unchoke")>>) /\ UNCHANGED pendingBlocks
        BY <2>2 DEF unchokePeer, upload
      <3> QED
        BY <2>0, <3>1, <1>w, SomeMessages
    <2> QED
      BY <1>2, <2>1, <2>2 DEF ScheduleUploads
  <1>3. CASE DropUploader \/ BadData
    BY <1>3, <1>a DEF DropUploader, BadData
  <1>4. CASE Notify \/ ScheduleDownload
    <2>1. /\ write(<<Other>>)
          /\ UNCHANGED <<toPeer, outstanding, fromPeer, readIds, pendingBlocks>>
      BY <1>4 DEF Notify, sendPieceNotification, sendKeepAlive, ScheduleDownload,
                  requestBlock, cancelRequest, upload, peer
    <2> QED
      BY <2>1, <1>w, SomeMessages
  <1>5. CASE SendToPeer
    <2>0. /\ readIds # <<>> /\ readIds' = Tail(readIds)
          /\ UNCHANGED <<toPeer, outstanding, fromPeer>>
      BY <1>5 DEF SendToPeer, peer
    <2>1. CASE Choking /\ UNCHANGED outgoingBuffer
      BY <2>0, <2>1, <1>z
    <2>2. CASE sendBlock(Head(readIds))
      <3>1. CASE write(<<Msg("choke"), Msg("unchoke")>>)
        BY <2>0, <3>1, <1>x, <1>y
      <3>2. CASE /\ pendingBlocks' = Append(pendingBlocks, Head(readIds))
                 /\ UNCHANGED outgoingBuffer
        <4>1. Stream' = Stream
          BY <2>0, <3>2 DEF Stream
        <4>2. ToSet(readIds) = ToSet(readIds') \cup {Head(readIds)} /\ Head(readIds) \in Uploads
          BY <1>0, <2>0, TailKeeps, HeadTailProperties
        <4>3. ToSet(pendingBlocks') = ToSet(pendingBlocks) \cup {Head(readIds)}
          BY <1>0, <3>2, <4>2, AppendKeeps
        <4> QED
          BY <2>0, <4>1, <4>2, <4>3, <1>k
      <3> QED
        BY <2>2, <3>1, <3>2 DEF sendBlock
    <2> QED
      BY <1>5, <2>1, <2>2 DEF SendToPeer, Choking
  <1>6. CASE WriteToSocket
    <2>0. UNCHANGED <<outstanding, fromPeer, readIds>>
      BY <1>6 DEF WriteToSocket, peer
    <2>1. CASE Loading
      <3> DEFINE h == Head(pendingBlocks)
      <3>1. /\ Stream' = Append(Stream, BlockMsg("piece", h))
            /\ BlockMsg("piece", h) \in Messages /\ pendingBlocks' = Tail(pendingBlocks)
        BY <1>0, <1>6, <2>1, StreamLoads
      <3>2. ToSet(Stream') = ToSet(Stream) \cup {BlockMsg("piece", h)}
        BY <1>0, <3>1, AppendKeeps
      <3>3. ToSet(pendingBlocks) = ToSet(pendingBlocks') \cup {h}
        BY <1>0, <2>1, <3>1, TailKeeps DEF Loading
      <3> HIDE DEF h
      <3> QED
        BY <2>0, <3>2, <3>3, <1>k
    <2>2. CASE ~Loading
      <3>1. Stream' = Stream /\ pendingBlocks' = pendingBlocks
        BY <1>0, <1>6, <2>2, StreamLoads
      <3> QED
        BY <2>0, <3>1, <1>k
    <2> QED
      BY <2>1, <2>2
  <1>7. CASE Timeout
    <2>1. CASE UNCHANGED <<connection, sentHandShake, parsed, pwState, incoming,
                 pendingRequestTimer, outgoingBuffer, upload, readIds, toPeer, fromPeer, peer>>
      BY <2>1, <1>u DEF upload, peer
    <2> QED
      BY <1>7, <1>a, <2>1 DEF Timeout
  <1>8. CASE HandShakePacket \/ ChokePacket \/ FlagPacket \/ UNCHANGED vars
    BY <1>8, <1>u DEF HandShakePacket, ChokePacket, FlagPacket, Receive, vars, upload, peer
  <1>9. CASE HavePacket
    <2>1. UNCHANGED <<toPeer, outstanding, fromPeer, readIds, pendingBlocks>>
      BY <1>9 DEF HavePacket, Receive, upload, peer
    <2>2. write(<<Other>>) \/ UNCHANGED outgoingBuffer
      BY <1>9 DEF HavePacket, sendInterested, sendNotInterested
    <2> QED
      BY <2>1, <2>2, <1>u, <1>w, SomeMessages
  <1>10. CASE PiecePacket
    <2>1. PICK more \in SUBSET Downloads : write([i \in 1 .. Cardinality(more) |-> Other])
      BY <1>10 DEF PiecePacket
    <2>2. Cardinality(more) \in Nat
      BY PWAssumption, FS_Subset, FS_CardinalityType
    <2>3. [i \in 1 .. Cardinality(more) |-> Other] \in Seq(Messages)
      BY <2>2, Others
    <2>4. UNCHANGED <<toPeer, outstanding, fromPeer, readIds, pendingBlocks>>
      BY <1>10 DEF PiecePacket, Receive, upload, peer
    <2> QED
      BY <2>1, <2>3, <2>4, <1>w
  <1>r. ASSUME NEW t, ReceiveNext(t)
        PROVE  /\ fromPeer # <<>> /\ fromPeer' = Tail(fromPeer)
               /\ ToSet(fromPeer) = ToSet(fromPeer') \cup {Head(fromPeer)}
               /\ Head(fromPeer) = BlockMsg(t, Received) /\ Received \in Uploads
    <2>1. fromPeer # <<>> /\ fromPeer' = Tail(fromPeer) /\ Head(fromPeer).type = t
      BY <1>r DEF ReceiveNext
    <2>2. Head(fromPeer) \in Requests
      BY <1>0, <2>1, HeadTailProperties
    <2>3. Head(fromPeer) = BlockMsg(t, Received) /\ Received \in Uploads
      BY <2>1, <2>2, MessageTypes DEF Received
    <2> QED
      BY <1>0, <2>1, <2>3, TailKeeps
  <1>11. CASE RequestPacket
    <2>1. /\ ReceiveNext("request")
          /\ readIds' = IF Choking THEN readIds ELSE Append(readIds, Received)
          /\ UNCHANGED <<toPeer, outgoingBuffer, outstanding, pendingBlocks>>
      BY <1>11 DEF RequestPacket, upload, peer, Choking
    <2>2. CASE Choking
      BY <2>1, <2>2, <1>z
    <2>3. CASE ~Choking
      <3>1. /\ ToSet(fromPeer) = ToSet(fromPeer') \cup {BlockMsg("request", Received)}
            /\ Received \in Uploads
        BY <2>1, <1>r
      <3>2. ToSet(readIds') = ToSet(readIds) \cup {Received}
        BY <1>0, <2>1, <2>3, <3>1, AppendKeeps
      <3>3. Stream' = Stream
        BY <2>1 DEF Stream
      <3>4. \A b : BlockMsg("request", b) = BlockMsg("request", Received) => b = Received
        BY MessageTypes
      <3> QED
        BY <2>1, <3>1, <3>2, <3>3, <3>4, <1>k
    <2> QED
      BY <2>2, <2>3
  <1>12. CASE CancelPacket
    <2>1. /\ ReceiveNext("cancel")
          /\ pendingBlocks' = RemoveFirst(pendingBlocks, Received)
          /\ UNCHANGED <<toPeer, outgoingBuffer, outstanding, readIds>>
      BY <1>12 DEF CancelPacket, upload, peer
    <2>2. /\ fromPeer # <<>> /\ fromPeer' = Tail(fromPeer)
          /\ ToSet(fromPeer) = ToSet(fromPeer') \cup {BlockMsg("cancel", Received)}
          /\ Head(fromPeer) = BlockMsg("cancel", Received) /\ Received \in Uploads
      BY <2>1, <1>r
    <2>3. \A b : BlockMsg("request", b) # BlockMsg("cancel", Received)
      BY MessageTypes
    <2>4. \A z \in ToSet(pendingBlocks) : z # Received => z \in ToSet(pendingBlocks')
      BY <1>0, <2>1, RemoveFirstShortens
    <2>5. Received \in outstanding => BlockMsg("request", Received) \in ToSet(fromPeer')
      <3> SUFFICES ASSUME Received \in outstanding
                   PROVE  BlockMsg("request", Received) \in ToSet(fromPeer')
        OBVIOUS
      <3>1. /\ Len(fromPeer) \in Nat \ {0} /\ fromPeer' \in Seq(Requests)
            /\ Len(fromPeer') = Len(fromPeer) - 1 /\ Head(fromPeer) = fromPeer[1]
            /\ \A i \in 1 .. Len(fromPeer) - 1 : fromPeer'[i] = fromPeer[i + 1]
        BY <1>0, <2>2, HeadTailProperties, EmptySeq
      <3>2. 1 \in 1 .. Len(fromPeer) /\ fromPeer[1] = BlockMsg("cancel", Received)
        BY <2>2, <3>1
      <3>3. PICK j \in 1 + 1 .. Len(fromPeer) : fromPeer[j] = BlockMsg("request", Received)
        BY <1>0, <3>2 DEF CancelsAreOld
      <3>4. j - 1 \in 1 .. Len(fromPeer') /\ (j - 1) + 1 = j
        BY <3>1
      <3>5. fromPeer'[j - 1] = BlockMsg("request", Received)
        BY <3>1, <3>3, <3>4
      <3> QED
        BY <3>1, <3>4, <3>5, InToSet
    <2>6. Stream' = Stream
      BY <2>1 DEF Stream
    <2> QED
      BY <2>1, <2>2, <2>3, <2>4, <2>5, <2>6, <1>k
  <1>13. CASE PeerRequests
    <2>1. PICK b \in Uploads :
            \/ /\ outstanding' = outstanding \cup {b}
               /\ fromPeer' = Append(fromPeer, BlockMsg("request", b))
            \/ /\ outstanding' = outstanding \ {b}
               /\ fromPeer' = Append(fromPeer, BlockMsg("cancel", b))
      BY <1>13 DEF PeerRequests
    <2>2. UNCHANGED <<toPeer, outgoingBuffer, readIds, pendingBlocks>>
      BY <1>13 DEF PeerRequests, upload
    <2>3. Stream' = Stream
      BY <2>2 DEF Stream
    <2>4. BlockMsg("request", b) \in Requests /\ BlockMsg("cancel", b) \in Requests
      BY MessageTypes
    <2>5. CASE /\ outstanding' = outstanding \cup {b}
               /\ fromPeer' = Append(fromPeer, BlockMsg("request", b))
      <3>1. ToSet(fromPeer') = ToSet(fromPeer) \cup {BlockMsg("request", b)}
        BY <1>0, <2>4, <2>5, AppendKeeps
      <3> QED
        BY <1>0, <2>2, <2>3, <2>5, <3>1 DEF PeerIsNotStranded
    <2>6. CASE /\ outstanding' = outstanding \ {b}
               /\ fromPeer' = Append(fromPeer, BlockMsg("cancel", b))
      <3>1. ToSet(fromPeer') = ToSet(fromPeer) \cup {BlockMsg("cancel", b)}
        BY <1>0, <2>4, <2>6, AppendKeeps
      <3> QED
        BY <2>2, <2>3, <2>6, <3>1, <1>k
    <2> QED
      BY <2>1, <2>5, <2>6
  <1>14. CASE PeerReads
    <2> DEFINE m == Head(toPeer)
    <2>1. CASE ~greeted /\ m.type # "handshake"
      BY <1>14, <1>a, <2>1 DEF PeerReads
    <2>2. CASE ~(~greeted /\ m.type # "handshake")
      <3>1. /\ toPeer # <<>> /\ toPeer' = Tail(toPeer)
            /\ outstanding' = CASE m.type = "choke" -> {}
                                [] m.type = "piece" -> outstanding \ {m.block}
                                [] OTHER -> outstanding
            /\ UNCHANGED <<outgoingBuffer, pendingBlocks, readIds, fromPeer>>
        BY <1>14, <2>2 DEF PeerReads, upload
      <3>2. Stream # <<>> /\ Head(Stream) = m /\ Stream' = Tail(Stream)
        BY <1>0, <3>1, StreamRead DEF Stream
      <3>3. ToSet(Stream) = ToSet(Stream') \cup {m}
        BY <1>0, <3>2, TailKeeps
      <3> HIDE DEF m
      <3>4. /\ Msg("choke").type = "choke"
            /\ \A b : BlockMsg("piece", b).type = "piece" /\ BlockMsg("piece", b).block = b
        BY MessageTypes
      <3>5. outstanding' \subseteq outstanding
        BY <3>1
      <3>6. ASSUME NEW b \in outstanding' PROVE m # Msg("choke") /\ m # BlockMsg("piece", b)
        <4>1. m.type # "choke"
          BY <3>1, <3>6
        <4>2. m.type = "piece" => m.block # b
          BY <3>1, <3>6, <4>1
        <4> QED
          BY <3>4, <4>1, <4>2
      <3> QED
        BY <1>0, <3>1, <3>3, <3>5, <3>6 DEF PeerIsNotStranded
    <2> QED
      BY <2>1, <2>2
  <1> QED
    BY <1>1, <1>2, <1>3, <1>4, <1>5, <1>6, <1>7, <1>8, <1>9, <1>10, <1>11, <1>12, <1>13,
       <1>14 DEF Next

(* No request of the peer is lost: its block is on the way, or a choke is, *)
(* after which it asks again (peerRequestsBlock, sendToPeer, sendBlock).   *)
THEOREM PeerIsNeverStranded == Spec => []PeerIsNotStranded
  <1>1. RequestInv /\ [Next]_vars => RequestInv'
    <2>1. RequestInv => TypeOK
      BY DEF RequestInv, ChokingInv, TypeInv
    <2> QED
      BY <2>1, ChokingStep, NothingAskedStep, CancelsStep, NotStrandedStep DEF RequestInv
  <1>2. RequestInv => PeerIsNotStranded
    BY DEF RequestInv
  <1> QED
    BY RequestInit, <1>1, <1>2, PTL DEF Spec
=============================================================================
