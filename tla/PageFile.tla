------------------------------ MODULE PageFile ------------------------------
(***************************************************************************)
(* What a PageList promises, without pages: every byte of the file has a  *)
(* loaded and a modified flag, and the file remembers an uncommitted      *)
(* truncation.  How the bytes are grouped into pages (split by Parse,     *)
(* merged by Compress) is invisible here, so those operations are         *)
(* stuttering steps.  PageList implements this specification under the    *)
(* mapping bytes <- ByteView(pages) (MCPageList).                          *)
(***************************************************************************)
EXTENDS Integers, FiniteSets

CONSTANT MaxSize

VARIABLES bytes,    \* [0..size-1 -> [loaded, modified]]
          shrunk    \* a truncation not yet committed

Flag(l, m) == [loaded |-> l, modified |-> m]
FileSize == Cardinality(DOMAIN bytes)

Sizes == 0..MaxSize

\* A file of size bytes, all flagged (l, m); no pending truncation
Reset(size, l, m) ==
    /\ bytes' = [b \in 0..(size - 1) |-> Flag(l, m)]
    /\ shrunk' = FALSE

\* An empty file takes the new size whole; a file grows by bytes flagged
\* (l, m); a truncation drops the tail and, when it is to be committed
\* (m), is remembered.
ChangeSize(size, l, m) ==
    /\ bytes' = [b \in 0..(size - 1) |-> IF b < FileSize THEN bytes[b] ELSE Flag(l, m)]
    /\ shrunk' = (shrunk \/ (m /\ size < FileSize))

\* Flag [start, start+size) (l, m); a range starting past the end extends
\* the file, and the bytes between the old end and start become
\* unloaded, flagged modified as the range is.
SetRange(start, size, l, m) ==
    LET newsize == IF FileSize < start + size THEN start + size ELSE FileSize
    IN  /\ bytes' = [b \in 0..(newsize - 1) |->
                       IF start <= b /\ b < start + size THEN Flag(l, m)
                       ELSE IF b < FileSize THEN bytes[b]
                       ELSE Flag(FALSE, m)]
        /\ UNCHANGED shrunk

\* Everything committed: no byte modified, no pending truncation
Commit ==
    /\ bytes' = [b \in DOMAIN bytes |-> [bytes[b] EXCEPT !.modified = FALSE]]
    /\ shrunk' = FALSE

Init ==
    /\ \E size \in Sizes, l, m \in BOOLEAN : bytes = [b \in 0..(size - 1) |-> Flag(l, m)]
    /\ shrunk = FALSE

Next ==
    \/ \E size \in Sizes, l, m \in BOOLEAN : Reset(size, l, m) \/ ChangeSize(size, l, m)
    \/ \E start, size \in Sizes, l, m \in BOOLEAN : start + size <= MaxSize /\ SetRange(start, size, l, m)
    \/ Commit

Spec == Init /\ [][Next]_<<bytes, shrunk>>

=============================================================================
