------------------------------ MODULE ValuePair ------------------------------
(***************************************************************************)
(* A game value over the ticks: old and new are its values in two          *)
(* consecutive snapshots, and k/Steps the time at which the delta between  *)
(* them is applied to the old one.                                         *)
(***************************************************************************)
EXTENDS GameValues

VARIABLES old, new, k

vars == <<old, new, k>>

Init == old = 0 /\ new = 0 /\ k = 0

Tick == old' = new /\ new' \in Ints /\ UNCHANGED k

Sample == k' \in Times /\ UNCHANGED <<old, new>>

Next == Tick \/ Sample

Spec == Init /\ [][Next]_vars

Interpolated == InterpInt(old, DeltaInt(old, new), k)

\* Ints a float represents exactly, with the difference between them.
Small == \A n \in {old, new, new - old} : Abs(n) <= 2^Precision

(***************************************************************************)
(* Between two ticks an interpolated int stays between its old and its new *)
(* value, and at the time 1.0 it is the new one (types.hpp:154-161), as    *)
(* long as the numbers are small enough for a float.                       *)
(***************************************************************************)
SmallIntsInterpolate ==
  Small =>
    /\ old <= new => Interpolated \in old .. new
    /\ new <= old => Interpolated \in new .. old
    /\ k = Steps => Interpolated = new

(***************************************************************************)
(* Any int that is applied in full is off by at most 5/4 of the gap        *)
(* between the floats of the size of the largest number involved, so that  *)
(* snapshot.hpp:48 ("a full apply") holds of the small ones only, unless   *)
(* the difference overflows or the sum in float is beyond the greatest     *)
(* int.                                                                    *)
(***************************************************************************)
IntsApplyClosely ==
  LET largest == CHOOSE n \in {old, new, new - old} :
                   \A m \in {old, new, new - old} : Abs(m) <= Abs(n)
      sum == Round(Round(old) + Round(new - old))
  IN  k = Steps /\ new - old \in Ints /\ sum \in Ints =>
        4 * Abs(Interpolated - new) <= 5 * Ulp(largest)

(***************************************************************************)
(* A float that is applied in full is off by at most the gap between the  *)
(* floats of the size of the difference, and not at all if the old and the *)
(* new value are within a factor of two: the error a replica makes in a    *)
(* tick is that of rounding the difference.                                *)
(***************************************************************************)
FloatsApplyClosely ==
  LET applied == InterpFloat(old, DeltaFloat(old, new))
      close   == old <= 2 * new /\ new <= 2 * old
  IN  Round(old) = old /\ Round(new) = new =>
        /\ Abs(applied - new) <= Ulp(new - old)
        /\ close => applied = new
=============================================================================
