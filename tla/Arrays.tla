-------------------------------- MODULE Arrays --------------------------------
(* The growing array of src/utils/array.c: the memory behind it, slot by    *)
(* slot, with the slots that were never written.                            *)
EXTENDS Integers, Sequences

CONSTANTS FirstCapacity, MaxLength, ArrayValues, Garbage

ASSUME ArrayAssumption == FirstCapacity \in Nat \ {0} /\ MaxLength \in Nat /\ Garbage \notin ArrayValues

VARIABLES slots,    \* the allocated memory, as long as the capacity
          length,   \* array->size
          expected  \* the elements its user has put there, 0 for those it has not

arrayVars == <<slots, length, expected>>

ArrayInit ==
    /\ slots = [i \in 1..FirstCapacity |-> Garbage]
    /\ length = 0
    /\ expected = <<>>

\* The memory after room has been made for n elements.
EnsureSize(n) ==
    LET double == 2 * Len(slots)
        capacity == double * ((n \div double) + 1)
    IN  IF n <= Len(slots) THEN slots
        ELSE [i \in 1..capacity |-> IF i <= Len(slots) THEN slots[i] ELSE Garbage]

ArrayAppend(v) ==
    /\ length < MaxLength
    /\ slots' = [EnsureSize(length + 1) EXCEPT ![length + 1] = v]
    /\ length' = length + 1
    /\ expected' = Append(expected, v)

\* Elements that come back after the array was shorter are cleared, too.
ArrayResize(n) ==
    /\ slots' = LET room == EnsureSize(n)
                IN  [i \in DOMAIN room |-> IF i \in (length + 1)..n THEN 0 ELSE room[i]]
    /\ length' = n
    /\ expected' = [i \in 1..n |-> IF i <= length THEN expected[i] ELSE 0]

ArraySet(i, v) ==
    /\ i <= length
    /\ slots' = [slots EXCEPT ![i] = v]
    /\ expected' = [expected EXCEPT ![i] = v]
    /\ UNCHANGED length

FillZero ==
    /\ slots' = [i \in DOMAIN slots |-> IF i <= length THEN 0 ELSE slots[i]]
    /\ expected' = [i \in 1..length |-> 0]
    /\ UNCHANGED length

ArrayNext ==
    \/ \E v \in ArrayValues : ArrayAppend(v)
    \/ \E n \in 0..MaxLength : ArrayResize(n)
    \/ \E i \in 1..MaxLength, v \in ArrayValues : ArraySet(i, v)
    \/ FillZero

ArraySpec == ArrayInit /\ [][ArrayNext]_arrayVars

\* What can be read is what was put there, or zero, never memory that was
\* not written, over any sequence of growing and shrinking (array.c:81, 127).
ArrayHoldsItsElements ==
    /\ length = Len(expected) /\ length <= Len(slots)
    /\ \A i \in 1..length : slots[i] = expected[i]
=============================================================================
