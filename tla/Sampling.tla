-------------------------------- MODULE Sampling --------------------------------
(* The sample sets of src/utils/sampling.c: a ring of the last values, with *)
(* their sum and the sum of their squares kept up to date by differences,   *)
(* in words of a fixed width.  Signed and unsigned sets differ in how the   *)
(* result is read.                                                          *)
EXTENDS Integers, FiniteSetsExt, Functions

CONSTANTS
    RingSize,     \* size
    Word,         \* 2^64: how many numbers a word holds
    Samples       \* the values that are submitted, negative ones to signed sets only

ASSUME SamplingAssumption == RingSize \in Nat \ {0} /\ Word \in Nat \ {0} /\ Samples \subseteq Int

VARIABLES ring,         \* the values
          place,        \* index
          sum, squares, \* the words sum and sum_squared
          started,      \* initialized
          signed        \* whether this is the set of int64_t or that of uint64_t

sampleVars == <<ring, place, sum, squares, started, signed>>

SampleInit ==
    /\ ring = [i \in 0..(RingSize - 1) |-> 0]
    /\ place = 0 /\ sum = 0 /\ squares = 0
    /\ started = FALSE
    /\ signed \in BOOLEAN

\* The first value fills the ring.
SubmitFirst(v) ==
    /\ ~ started
    /\ ring' = [i \in DOMAIN ring |-> v]
    /\ sum' = (v * RingSize) % Word
    /\ squares' = (v * RingSize * v) % Word
    /\ started' = TRUE
    /\ UNCHANGED <<place, signed>>

Submit(v) ==
    /\ started
    /\ ring' = [ring EXCEPT ![place] = v]
    /\ sum' = (sum + v - ring[place]) % Word
    /\ squares' = (squares + v * v - ring[place] * ring[place]) % Word
    /\ place' = (place + 1) % RingSize
    /\ UNCHANGED <<started, signed>>

SampleNext == \E v \in Samples : (signed \/ v >= 0) /\ (SubmitFirst(v) \/ Submit(v))

SampleSpec == SampleInit /\ [][SampleNext]_sampleVars

\* A word read as a signed number.
AsSigned(w) == IF w < Word \div 2 THEN w ELSE w - Word

\* Both kinds divide the word as an unsigned number: size is a size_t.
Mean == IF signed THEN AsSigned(sum \div RingSize) ELSE sum \div RingSize
Variance == ((squares \div RingSize) - (sum \div RingSize) * (sum \div RingSize)) % Word

-----------------------------------------------------------------------------
Total(Of(_)) == FoldFunction(+, 0, [i \in DOMAIN ring |-> Of(ring[i])])

\* The two sums, kept up by differences in wrapping words, never drift from
\* the values that are in the ring (pomelo_sample_set_*_submit).
SumsOfTheRing ==
    started => LET square(v) == v * v
                   value(v) == v
               IN  sum = Total(value) % Word /\ squares = Total(square) % Word

\* The result read from an unsigned set lies among its values, and rounding
\* the mean down never makes the variance wrap (pomelo_sample_set_u64_calc):
\* squares / size >= (sum / size)^2 whatever the order of the values.
UnsignedResultInRange ==
    (started /\ ~ signed) =>
        LET values == {ring[i] : i \in DOMAIN ring}
        IN  /\ Mean \in Min(values)..Max(values)
            /\ Variance <= Max(values) * Max(values)
=============================================================================
