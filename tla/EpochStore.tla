----------------------------- MODULE EpochStore -----------------------------
(***************************************************************************)
(* What the epoch repository of one table promises, without files, locks   *)
(* or threads (storage/repository.h): epochs are published whole under a   *)
(* version that is free, are never changed afterwards and may only be      *)
(* dropped while CURRENT does not name them; CURRENT only ever names an    *)
(* epoch that is there; and a loss of power returns to some state passed   *)
(* since the last synchronisation.                                         *)
(***************************************************************************)
CONSTANTS
  Version,   \* version numbers
  NoVersion, \* what CURRENT names before the first publish
  Row,       \* rows
  NoEpoch    \* a version that holds no epoch

VARIABLES
  state,     \* the epochs and CURRENT
  possible   \* the states a loss of power may return to

vars == <<state, possible>>

Init ==
  /\ state = [epochs |-> [v \in Version |-> NoEpoch], current |-> NoVersion]
  /\ possible = {state}

Become(s) ==
  /\ state' = s
  /\ possible' = possible \cup {s}

Publish(v) ==
  /\ state.epochs[v] = NoEpoch
  /\ \E rows \in SUBSET Row : Become([state EXCEPT !.epochs[v] = rows])

PointAt(v) ==
  /\ state.epochs[v] # NoEpoch
  /\ Become([state EXCEPT !.current = v])

Drop(v) ==
  /\ v # state.current
  /\ Become([state EXCEPT !.epochs[v] = NoEpoch])

Synchronise ==
  /\ possible' = {state}
  /\ UNCHANGED state

Recover ==
  \E s \in possible :
    /\ state' = s
    /\ possible' = {s}

Next ==
  \/ \E v \in Version : Publish(v) \/ PointAt(v) \/ Drop(v)
  \/ Synchronise
  \/ Recover

Spec == Init /\ [][Next]_vars
=============================================================================
