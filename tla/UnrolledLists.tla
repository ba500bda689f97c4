----------------------------- MODULE UnrolledLists -----------------------------
(* The unrolled list of src/utils/list.c: a list of buckets of Width slots, *)
(* with its two iterators.  Slots past the size keep what they held.        *)
EXTENDS Integers, Sequences, SequencesExt

CONSTANTS Width,        \* bucket_elements
          Values,       \* what is stored; 0 is a cleared slot
          MaxSize       \* bound on the number of elements

ASSUME UnrolledAssumption == Width \in Nat \ {0} /\ 0 \in Values /\ MaxSize \in Nat

VARIABLES rows,     \* the buckets, front first
          count,    \* list->size
          cursor,   \* an iterator: the position of its bucket and its index, 0 based
          output    \* what the last read returned: a value and the index it is of

unrolledVars == <<rows, count, cursor, output>>

NoCursor == [row |-> -1, index |-> -1]
NoOutput == [index |-> -1, value |-> 0]
Cleared == [i \in 1..Width |-> 0]

Buckets(n) == (n + Width - 1) \div Width
RowOf(i) == (i \div Width) + 1
PlaceOf(i) == (i % Width) + 1
Slot(i) == rows[RowOf(i)][PlaceOf(i)]
Contents == [i \in 1..count |-> Slot(i - 1)]

UnrolledInit == rows = <<>> /\ count = 0 /\ cursor = NoCursor /\ output = NoOutput

\* The list of buckets is resized; new buckets are cleared.
Fit(s, n) ==
    IF n <= Len(s) THEN SubSeq(s, 1, n) ELSE s \o [i \in 1..(n - Len(s)) |-> Cleared]

\* The bucket of an element, as the search from either end finds it: the
\* search counts buckets from the front and elements from the back.
FindBucket(i) ==
    LET b == i \div Width IN
    IF b < count \div 2
    THEN IF b = 0 THEN 0 ELSE b - 1
    ELSE IF count - 1 > b THEN Len(rows) - 1 - (count - 1 - b) ELSE Len(rows) - 1

-----------------------------------------------------------------------------
\* Variant: the slot is computed from the new size.
PushBackPastSlot(v) ==
    /\ count < MaxSize
    /\ LET grown == Fit(rows, Buckets(count + 1))
       IN  rows' = [grown EXCEPT ![Len(grown)][PlaceOf(count + 1)] = v]
    /\ count' = count + 1
    /\ cursor' = NoCursor
    /\ UNCHANGED output

UPushBack(v) ==
    /\ count < MaxSize
    /\ LET grown == Fit(rows, Buckets(count + 1))
       IN  rows' = [grown EXCEPT ![Len(grown)][PlaceOf(count)] = v]
    /\ count' = count + 1
    /\ cursor' = NoCursor
    /\ UNCHANGED output

UPopBack ==
    /\ count > 0
    /\ output' = [index |-> count - 1, value |-> Last(rows)[PlaceOf(count - 1)]]
    /\ rows' = Fit(rows, Buckets(count - 1))
    /\ count' = count - 1
    /\ cursor' = NoCursor

UResize(n) ==
    /\ rows' = Fit(rows, Buckets(n))
    /\ count' = n
    /\ cursor' = NoCursor
    /\ UNCHANGED output

UClear == rows' = <<>> /\ count' = 0 /\ cursor' = NoCursor /\ UNCHANGED output

Read(i, v) == output' = [index |-> i, value |-> v] /\ UNCHANGED <<rows, count>>

GetFront == count > 0 /\ Read(0, Head(rows)[1]) /\ UNCHANGED cursor
GetBack  == count > 0 /\ Read(count - 1, Last(rows)[PlaceOf(count - 1)]) /\ UNCHANGED cursor

\* Reading and writing by index are right in the first bucket only; callers
\* that stay within it are modelled.
Get(i) ==
    /\ i < count /\ i < Width
    /\ Read(i, rows[FindBucket(i) + 1][PlaceOf(i)])
    /\ UNCHANGED cursor

Set(i, v) ==
    /\ i < count /\ i < Width
    /\ rows' = [rows EXCEPT ![FindBucket(i) + 1][PlaceOf(i)] = v]
    /\ UNCHANGED <<count, cursor, output>>

-----------------------------------------------------------------------------
\* The iterator is renewed when the list changes: it has no mod_count.
Begin == cursor' = [row |-> 0, index |-> 0] /\ UNCHANGED <<rows, count, output>>
End == cursor' = [row |-> Len(rows) - 1, index |-> count - 1] /\ UNCHANGED <<rows, count, output>>

IterateNext ==
    /\ cursor.index \in 0..(count - 1)
    /\ Read(cursor.index, rows[cursor.row + 1][PlaceOf(cursor.index)])
    /\ cursor' = [row |-> IF PlaceOf(cursor.index) = Width THEN cursor.row + 1 ELSE cursor.row,
                  index |-> cursor.index + 1]

IteratePrev ==
    /\ cursor.index \in 0..(count - 1)
    /\ Read(cursor.index, rows[cursor.row + 1][PlaceOf(cursor.index)])
    /\ cursor' = [row |-> IF PlaceOf(cursor.index) = 1 THEN cursor.row - 1 ELSE cursor.row,
                  index |-> cursor.index - 1]

UnrolledNext ==
    \/ \E v \in Values : UPushBack(v)
    \/ UPopBack \/ UClear \/ GetFront \/ GetBack \/ Begin \/ End \/ IterateNext \/ IteratePrev
    \/ \E n \in 0..MaxSize : UResize(n)
    \/ \E i \in 0..(MaxSize - 1) : Get(i)
    \/ \E i \in 0..(MaxSize - 1), v \in Values : Set(i, v)

UnrolledSpec == UnrolledInit /\ [][UnrolledNext]_unrolledVars

-----------------------------------------------------------------------------
\* A step appends one element, removes elements from the back, replaces one
\* of the first bucket, or extends the list: what else it holds keeps its
\* place, also across the border of a bucket (list.c:806, 838).
UnrolledIsSequence ==
    [][ \/ \E v \in Values : Contents' = Append(Contents, v)
        \/ count' <= count /\ Contents' = SubSeq(Contents, 1, count')
        \/ count' = count /\ \E i \in 1..count : Contents' = [Contents EXCEPT ![i] = Slot(i - 1)']
        \/ count' > count + 1 /\ Contents = SubSeq(Contents', 1, count) ]_<<rows, count>>

\* Every read, by either end, by an index in the first bucket or by an
\* iterator in either direction, returns the element at its place
\* (list.c:904, 932).
ReadsAreRight ==
    [][ output' # output =>
          output'.index < count /\ output'.value = Contents[output'.index + 1] ]_output
=============================================================================
