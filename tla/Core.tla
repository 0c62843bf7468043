-------------------------------- MODULE Core --------------------------------
(***************************************************************************)
(* The classes of the core library that no thread shares: a game value;    *)
(* snapshots of objects with such values, and their messages; and          *)
(* observers.  Nothing one of them does depends on the others, so each     *)
(* moves while the others rest.                                            *)
(***************************************************************************)
EXTENDS SerializedPair, GameValues

CONSTANTS GameObject, Instance, Nobody

VARIABLES old, new, time, observers, object, notifying, at, reacted

valueVars == <<old, new, time>>

drawVars == <<observers, object, notifying, at, reacted>>

AValue == INSTANCE ValuePair WITH k <- time

Draws == INSTANCE Events

CoreInit == Init /\ AValue!Init /\ Draws!Init

PairNext == Next /\ AValue!Init /\ Draws!Init /\ UNCHANGED <<valueVars, drawVars>>

CoreNext ==
  \/ PairNext
  \/ AValue!Next /\ Init /\ Draws!Init /\ UNCHANGED <<vars, drawVars>>
  \/ Draws!Next /\ Init /\ AValue!Init /\ UNCHANGED <<vars, valueVars>>

CoreSpec == CoreInit /\ [][CoreNext]_<<vars, valueVars, drawVars>>

PairSpec == CoreInit /\ [][PairNext]_<<vars, valueVars, drawVars>>

\* Ints that a float holds exactly interpolate from old to new (ValuePair).
SmallIntsInterpolate == AValue!SmallIntsInterpolate

\* Any int applied in full is off by at most 5/4 of a gap (ValuePair).
IntsApplyClosely == AValue!IntsApplyClosely

\* A float applied in full is off by the rounding of the difference (ValuePair).
FloatsApplyClosely == AValue!FloatsApplyClosely

\* Lists of observers name the draw instances that exist (Events).
ObserversExist == Draws!ObserversExist
=============================================================================
