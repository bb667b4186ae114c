----------------------------- MODULE RecentWindow -----------------------------
(***************************************************************************)
(* What a replay buffer promises (crates/trolly-gym/src/replay.rs): it     *)
(* holds the last Capacity transitions pushed, oldest first.               *)
(***************************************************************************)
EXTENDS Naturals, Sequences

CONSTANTS Capacity, Transition

VARIABLE recent

\* The sequence, the element added, and no more than the last n kept.
KeepLast(s, x, n) == IF Len(s) < n THEN Append(s, x) ELSE Append(Tail(s), x)

Init == recent = <<>>

Record(t) == recent' = KeepLast(recent, t, Capacity)

Next == \E t \in Transition : Record(t)

Spec == Init /\ [][Next]_recent

=============================================================================
