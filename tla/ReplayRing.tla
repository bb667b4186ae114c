------------------------------ MODULE ReplayRing ------------------------------
(***************************************************************************)
(* The ring buffer of ReplayBuffer (crates/trolly-gym/src/replay.rs), and  *)
(* of FeatureRingBuffer, which repeats it: a vector of slots, the index of *)
(* the next one to write and the number of slots in use.                   *)
(***************************************************************************)
EXTENDS Naturals, Sequences

CONSTANTS
  Capacity,    \* replay_capacity; push indexes out of bounds, and panics, when it is 0
  Transition,  \* the transitions that may be pushed
  None         \* an empty slot

ASSUME CapacityAssumption == Capacity \in Nat \ {0}
ASSUME NoneAssumption == None \notin Transition

VARIABLES slots, head, len
ring == <<slots, head, len>>

Index == 0 .. Capacity - 1

RingInit ==
  /\ slots = [i \in Index |-> None]
  /\ head = 0
  /\ len = 0

\* Mutant of Push: the slot after the head is written.
PushAfterHead(t) ==
  /\ slots' = [slots EXCEPT ![(head + 1) % Capacity] = t]
  /\ head' = (head + 1) % Capacity
  /\ len' = IF len < Capacity THEN len + 1 ELSE len

\* push(): the oldest transition is overwritten when every slot is in use.
Push(t) ==
  /\ slots' = [slots EXCEPT ![head] = t]
  /\ head' = (head + 1) % Capacity
  /\ len' = IF len < Capacity THEN len + 1 ELSE len

\* snapshot(): from the oldest slot on.  filter_map skips empty slots; RingType says that
\* there are none among them.
Start == IF len = Capacity THEN head ELSE 0
Snapshot == [i \in 1 .. len |-> slots[(Start + (i - 1)) % Capacity]]

RingSpec == RingInit /\ [][\E t \in Transition : Push(t)]_ring

-----------------------------------------------------------------------------
\* The slots in use, and no other, hold a transition; until all are, they are the first.
RingType ==
  /\ slots \in [Index -> Transition \cup {None}]
  /\ head \in Index
  /\ len \in 0 .. Capacity
  /\ len < Capacity => head = len
  /\ \A i \in Index : i < len <=> slots[i] # None

(***************************************************************************)
(* The ring refines the window of the last Capacity transitions: through   *)
(* every wrap-around of the head, snapshot() gives the last ones pushed,   *)
(* oldest first.                                                           *)
(***************************************************************************)
Recent == INSTANCE RecentWindow WITH recent <- Snapshot
RingKeepsLast == Recent!Spec

=============================================================================
