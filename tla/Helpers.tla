------------------------------- MODULE Helpers -------------------------------
(***************************************************************************)
(* The helpers: the generators batch and text_as_fragments of           *)
(* src/src/spidercheck/seqtools.py, each as the loop it is (one step per   *)
(* pass of the loop body, what it yields appended to an output sequence,   *)
(* the caller draining the generator), and the date arithmetic of         *)
(* src/fechas.py (next_day, next_month) applied again and again. One of   *)
(* the three runs per behaviour; the other two stay at rest.              *)
(***************************************************************************)
EXTENDS Integers, Sequences, SequencesExt

CONSTANTS
    BatchInputs,    \* the iterables given to batch: sequences of items
    BatchSizes,     \* its size argument
    Texts,          \* the texts given to text_as_fragments: sequences of characters
    Blocks,         \* its <<mean_block_size, max_block_size>> arguments
    NL, SP,         \* the characters '\n' and ' '
    Years,          \* the years the date walk may reach: an interval
    NoDate          \* "no date": the walk is not run

VARIABLES
    bSrc, bSize,    \* batch's arguments
    bIn,            \* what the iterator has still to give
    bChunk, bI,     \* the chunk being filled and the index of range(size)
    bOut,           \* the tuples yielded so far
    bPc,            \* "for" (inside the while loop) or "done"
    fSrc, fMean, fMax, \* text_as_fragments's arguments
    fText,          \* the text variable, cut at each pass
    fOut,           \* the fragments yielded so far
    fPc,            \* "while" or "done"
    date            \* the date walk: [y, m, d]

batchVars == <<bSrc, bSize, bIn, bChunk, bI, bOut, bPc>>
fragVars == <<fSrc, fMean, fMax, fText, fOut, fPc>>
helperVars == <<batchVars, fragVars, date>>

(***************************************************************************)
(* batch(iterable, size)                                                   *)
(***************************************************************************)
BatchInit ==
    /\ bSrc \in BatchInputs /\ bSize \in BatchSizes
    /\ bIn = bSrc /\ bChunk = <<>> /\ bI = 0 /\ bOut = <<>> /\ bPc = "for"

(* chunk.append(next(iterable)) *)
BatchTake ==
    /\ bPc = "for" /\ bI < bSize /\ bIn # <<>>
    /\ bChunk' = Append(bChunk, Head(bIn))
    /\ bIn' = Tail(bIn)
    /\ bI' = bI + 1
    /\ UNCHANGED <<bSrc, bSize, bOut, bPc, fragVars, date>>

(* StopIteration with the return indented under "if chunk:": an empty   *)
(* chunk goes on with the for loop                                        *)
BatchStopInsideIf ==
    /\ bPc = "for" /\ bI < bSize /\ bIn = <<>>
    /\ \/ bChunk # <<>> /\ bOut' = Append(bOut, bChunk) /\ bPc' = "done"
          /\ bChunk' = <<>> /\ UNCHANGED bI
       \/ bChunk = <<>> /\ bI' = bI + 1 /\ UNCHANGED <<bOut, bPc, bChunk>>
    /\ UNCHANGED <<bSrc, bSize, bIn, fragVars, date>>

(* StopIteration without "if chunk: yield tuple(chunk)": just return *)
BatchStopNoYield ==
    /\ bPc = "for" /\ bI < bSize /\ bIn = <<>>
    /\ bPc' = "done" /\ bChunk' = <<>>
    /\ UNCHANGED <<bSrc, bSize, bIn, bI, bOut, fragVars, date>>

(* StopIteration: "if chunk: yield tuple(chunk)", then return *)
BatchStop ==
    /\ bPc = "for" /\ bI < bSize /\ bIn = <<>>
    /\ bOut' = IF bChunk # <<>> THEN Append(bOut, bChunk) ELSE bOut
    /\ bPc' = "done" /\ bChunk' = <<>>
    /\ UNCHANGED <<bSrc, bSize, bIn, bI, fragVars, date>>

(* range(size) exhausted: "if chunk: yield tuple(chunk)", and the while  *)
(* loop starts again with chunk = []                                     *)
BatchYield ==
    /\ bPc = "for" /\ bI = bSize
    /\ bOut' = IF bChunk # <<>> THEN Append(bOut, bChunk) ELSE bOut
    /\ bChunk' = <<>> /\ bI' = 0
    /\ UNCHANGED <<bSrc, bSize, bIn, bPc, fragVars, date>>

(* the docstring's result: tuples of size elements, the last one shorter *)
RECURSIVE Chunks(_, _)
Chunks(s, n) ==
    IF Len(s) <= n THEN (IF s = <<>> THEN <<>> ELSE <<s>>)
    ELSE <<SubSeq(s, 1, n)>> \o Chunks(SubSeq(s, n + 1, Len(s)), n)

(***************************************************************************)
(* text_as_fragments(text, mean_block_size, max_block_size)               *)
(***************************************************************************)
FragInit ==
    /\ fSrc \in Texts /\ \E b \in Blocks : fMean = b[1] /\ fMax = b[2]
    /\ fText = fSrc /\ fOut = <<>> /\ fPc = "while"

(* str.find(c, start): the lowest 0-based index >= start holding c, or -1 *)
Find(t, c, start) ==
    LET I == {i \in 1..Len(t) : i > start /\ t[i] = c}
    IN IF I = {} THEN -1 ELSE Min(I) - 1

(* the newline search starting at 0 instead of mean_block_size *)
CutAtNoStart(t, mean, max) ==
    LET nl == Find(t, NL, 0)
        sp == Find(t, SP, mean)
    IN IF nl # -1 /\ nl <= max THEN nl
       ELSE IF sp # -1 /\ sp <= max THEN sp
       ELSE max

(* idx: the first '\n' from mean_block_size, else the first ' ', if not  *)
(* beyond max_block_size, else max_block_size                            *)
CutAt(t, mean, max) ==
    LET nl == Find(t, NL, mean)
        sp == Find(t, SP, mean)
    IN IF nl # -1 /\ nl <= max THEN nl
       ELSE IF sp # -1 /\ sp <= max THEN sp
       ELSE max

(* "while text:" ends *)
FragEnd ==
    /\ fPc = "while" /\ fText = <<>>
    /\ fPc' = "done"
    /\ UNCHANGED <<fSrc, fMean, fMax, fText, fOut, batchVars, date>>

(* size <= max_block_size: yield text, break *)
FragLast ==
    /\ fPc = "while" /\ fText # <<>> /\ Len(fText) <= fMax
    /\ fOut' = Append(fOut, fText)
    /\ fPc' = "done"
    /\ UNCHANGED <<fSrc, fMean, fMax, fText, batchVars, date>>

(* the cut with text = text[idx + 1:], the separator dropped *)
FragCutDropSep ==
    /\ fPc = "while" /\ Len(fText) > fMax
    /\ LET idx == CutAt(fText, fMean, fMax) IN
       /\ fOut' = Append(fOut, SubSeq(fText, 1, idx))
       /\ fText' = SubSeq(fText, idx + 2, Len(fText))
    /\ UNCHANGED <<fSrc, fMean, fMax, fPc, batchVars, date>>

(* yield text[0:idx]; text = text[idx:] *)
FragCut ==
    /\ fPc = "while" /\ Len(fText) > fMax
    /\ LET idx == CutAt(fText, fMean, fMax) IN
       /\ fOut' = Append(fOut, SubSeq(fText, 1, idx))
       /\ fText' = SubSeq(fText, idx + 1, Len(fText))
    /\ UNCHANGED <<fSrc, fMean, fMax, fPc, batchVars, date>>

(***************************************************************************)
(* fechas.py                                                               *)
(***************************************************************************)
MinYear == CHOOSE y \in Years : \A z \in Years : y <= z
MaxYear == CHOOSE y \in Years : \A z \in Years : y >= z

(* calendar.monthrange(year, month)[1]: the Gregorian month lengths *)
DaysIn(y, m) ==
    CASE m = 2 -> IF y % 4 = 0 /\ (y % 100 # 0 \/ y % 400 = 0) THEN 29 ELSE 28
      [] m \in {4, 6, 9, 11} -> 30
      [] OTHER -> 31

Dates(Y) == {[y |-> y, m |-> m, d |-> d] : y \in Y, m \in 1..12, d \in 1..31}
Valid(Y) == {x \in Dates(Y) : x.d <= DaysIn(x.y, x.m)}

(* fecha + ONE_DAY *)
NextDay(x) ==
    IF x.d < DaysIn(x.y, x.m) THEN [x EXCEPT !.d = @ + 1]
    ELSE IF x.m < 12 THEN [x EXCEPT !.m = @ + 1, !.d = 1]
    ELSE [y |-> x.y + 1, m |-> 1, d |-> 1]

(* next_month without "day = min(days, day)" *)
NextMonthUnclamped(x) ==
    LET y == IF x.m < 12 THEN x.y ELSE x.y + 1
        m == IF x.m < 12 THEN x.m + 1 ELSE 1
    IN [y |-> y, m |-> m, d |-> x.d]

(* next_month: the month after (December wraps to January of the next   *)
(* year), the same day number cut to the month's monthrange length        *)
NextMonth(x) ==
    LET y == IF x.m < 12 THEN x.y ELSE x.y + 1
        m == IF x.m < 12 THEN x.m + 1 ELSE 1
    IN [y |-> y, m |-> m, d |-> IF DaysIn(y, m) < x.d THEN DaysIn(y, m) ELSE x.d]

DayStep ==
    /\ date # NoDate
    /\ NextDay(date).y <= MaxYear
    /\ date' = NextDay(date)
    /\ UNCHANGED <<batchVars, fragVars>>

MonthStep ==
    /\ date # NoDate
    /\ NextMonth(date).y <= MaxYear
    /\ date' = NextMonth(date)
    /\ UNCHANGED <<batchVars, fragVars>>

-----------------------------------------------------------------------------
(* one helper runs: batch, text_as_fragments, or the walk from any date   *)
(* of the first year; the others are at rest (an empty input, returned)   *)
BatchAtRest ==
    /\ bSrc = <<>> /\ bSize = 1 /\ bIn = <<>> /\ bChunk = <<>> /\ bI = 0
    /\ bOut = <<>> /\ bPc = "done"

FragAtRest ==
    /\ fSrc = <<>> /\ fMean = 0 /\ fMax = 0 /\ fText = <<>> /\ fOut = <<>>
    /\ fPc = "done"

HelpersInit ==
    \/ BatchInit /\ FragAtRest /\ date = NoDate
    \/ BatchAtRest /\ FragInit /\ date = NoDate
    \/ BatchAtRest /\ FragAtRest /\ date \in Valid({MinYear})

HelpersNext ==
    \/ BatchTake \/ BatchStop \/ BatchYield
    \/ FragEnd \/ FragLast \/ FragCut
    \/ DayStep \/ MonthStep

(* the generators are drained by their caller: each pass of a loop that  *)
(* can run does                                                          *)
HelpersSpec == HelpersInit /\ [][HelpersNext]_helperVars /\ WF_helperVars(HelpersNext)

-----------------------------------------------------------------------------
(***************************************************************************)
(* Properties                                                              *)
(***************************************************************************)

(* batch yields what its docstring says: the items in order, in tuples of *)
(* size items, the last one shorter and never empty (the "if chunk:" on   *)
(* both exits of the loop).                                               *)
BatchAsDocumented == bPc = "done" => bOut = Chunks(bSrc, bSize)

(* text_as_fragments loses and adds nothing: its fragments, joined, are   *)
(* the text, whichever of the newline, space and hard cuts it took.       *)
FragmentsJoinToText == fPc = "done" => FlattenSeq(fOut) = fSrc

(* Fragments have "similar sizes" (the docstring): none is longer than    *)
(* max_block_size, and every one but the last is at least mean_block_size *)
(* long, because the searches for '\n' and ' ' start at mean_block_size.  *)
FragmentSizes ==
    \A i \in 1..Len(fOut) :
        /\ Len(fOut[i]) <= fMax
        /\ (i < Len(fOut) \/ fPc = "while") => Len(fOut[i]) >= fMean

(* Both generators end when drained: batch's while True loop returns at  *)
(* the StopIteration, text_as_fragments's text shrinks at every cut.      *)
GeneratorsTerminate == <>(bPc = "done" /\ fPc = "done")
-----------------------------------------------------------------------------
(* the months counted from year 0 *)
MonthIndex(x) == 12 * x.y + x.m - 1

Dist(a, b) == IF a >= b THEN a - b ELSE b - a

(* next_month gives a date of the month after, with "el mismo día de ese *)
(* mes, si puede, y si no, el día más cercano" (its docstring), across   *)
(* month lengths, leap Februaries and the December wrap.                 *)
NextMonthNearestDay ==
    date # NoDate =>
        LET F == {z \in Valid({date.y, date.y + 1}) : MonthIndex(z) = MonthIndex(date) + 1}
        IN /\ NextMonth(date) \in F
           /\ \A z \in F : Dist(NextMonth(date).d, date.d) <= Dist(z.d, date.d)

=============================================================================
