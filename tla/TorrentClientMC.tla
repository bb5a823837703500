-------------------------- MODULE TorrentClientMC --------------------------
(* The scheduler on small instances: the peers are interchangeable.        *)
EXTENDS TorrentClient, TLC

CONSTANTS c1, c2

MCClients == {c1, c2}

(* The helpers on lists are the ones of the community modules.             *)
ASSUME HelpersAssumption ==
    /\ \A S \in SUBSET (0 .. 3) : InOrder(S) = SetToSortSeq(S, LAMBDA m, n : m < n)
    /\ \A s \in UNION {[1 .. n -> 0 .. 2] : n \in 0 .. 3} :
          /\ \A S \in SUBSET (0 .. 2) : Kept(s, S) = SelectSeq(s, LAMBDA e : e \in S)
          /\ \A e \in 0 .. 2 : Without(s, e) = Remove(s, e)

Symmetry == Permutations(MCClients)
=============================================================================
