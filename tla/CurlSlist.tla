------------------------------ MODULE CurlSlist ------------------------------
(***************************************************************************)
(* The sorted request-header list of src/src/curl_util.cpp: a curl_slist  *)
(* whose entries are "<key>: <value>" strings kept in case-insensitive    *)
(* order of their keys, so that the AWS signature can be computed from it *)
(* (get_sorted_header_keys, get_canonical_headers) and headers read back  *)
(* (get_header_value).                                                     *)
(*                                                                         *)
(* A key is a sequence of character codes.  A value is abstracted to a    *)
(* number: 0 is a value that trims to the empty string, and the text      *)
(* "<key>: <value>" is kept as its two parts, since every reader cuts it  *)
(* at the first ':' (keys hold no ':').  The failures of strdup and       *)
(* malloc, and a null key, return the list unchanged: they are stutters.  *)
(***************************************************************************)
EXTENDS Integers, Sequences, SequencesExt

CONSTANTS KeyChars,   \* character codes a key is made of
          MaxKeyLen,  \* longest key
          Vals,       \* values; 0 is the empty (or all blank) value
          MaxLen      \* longest list

SP == 32

ASSUME /\ KeyChars \subseteq 32..126 /\ 58 \notin KeyChars
       /\ 0 \in Vals /\ MaxLen \in Nat


VARIABLES list,  \* the curl_slist: a sequence of [key |-> raw key, val |-> value]
          last   \* history: the caller's last request [op, key, val]

vars == <<list, last>>

-----------------------------------------------------------------------------
(* String helpers of string_util (not among the sources) and libc.        *)

\* tolower of one character, and lower() of a string
Lower(c) == IF 65 <= c /\ c <= 90 THEN c + 32 ELSE c
LowerStr(s) == [i \in DOMAIN s |-> Lower(s[i])]

\* trim(): the string without its leading and trailing blanks
Trim(s) ==
    LET kept == {i \in DOMAIN s : s[i] # SP}
    IN  IF kept = {} THEN <<>> ELSE SubSeq(s, Min(kept), Max(kept))

\* the keys callers pass: header names, never all blank
Keys == {k \in UNION {[1..n -> KeyChars] : n \in 1..MaxKeyLen} : Trim(k) # <<>>}

\* strcasecmp as its sign (-1, 0 or 1): the lowered strings compared at
\* their first difference, a proper prefix being the smaller
Sign(x) == IF x < 0 THEN -1 ELSE IF x > 0 THEN 1 ELSE 0
StrCaseCmp(a, b) ==
    LET la   == LowerStr(a)
        lb   == LowerStr(b)
        diff == {i \in 1..Len(a) \cap 1..Len(b) : la[i] # lb[i]}
    IN  IF diff = {} THEN Sign(Len(a) - Len(b))
        ELSE Sign(la[Min(diff)] - lb[Min(diff)])

-----------------------------------------------------------------------------
(* The list operations.                                                    *)

\* (mutant) a key equal to an entry's is inserted before it, not replaced
SortInsertNoReplace(l, key, val) ==
    LET strkey == Trim(key)
        stop   == {i \in DOMAIN l : StrCaseCmp(strkey, l[i].key) <= 0}
        p      == IF stop = {} THEN Len(l) + 1 ELSE Min(stop)
    IN  InsertAt(l, p, [key |-> key, val |-> val])

\* (mutant) the matching entry keeps its old data
SortInsertKeepOld(l, key, val) ==
    LET strkey == Trim(key)
        stop   == {i \in DOMAIN l : StrCaseCmp(strkey, l[i].key) <= 0}
        p      == IF stop = {} THEN Len(l) + 1 ELSE Min(stop)
    IN  IF p <= Len(l) /\ StrCaseCmp(strkey, l[p].key) = 0 THEN l
        ELSE InsertAt(l, p, [key |-> key, val |-> val])

\* curl_slist_sort_insert: the walk compares the trimmed key with each
\* entry's key (its data up to ':'), stops at the first entry not below
\* it, replaces that entry's data when equal and inserts before it
\* otherwise.  The new data holds the key as given, untrimmed.
CurlSlistSortInsert(l, key, val) ==
    LET strkey == Trim(key)
        stop   == {i \in DOMAIN l : StrCaseCmp(strkey, l[i].key) <= 0}
        p      == IF stop = {} THEN Len(l) + 1 ELSE Min(stop)
        data   == [key |-> key, val |-> val]
    IN  IF p <= Len(l) /\ StrCaseCmp(strkey, l[p].key) = 0
        THEN [l EXCEPT ![p] = data]
        ELSE InsertAt(l, p, data)

\* curl_slist_remove: every entry whose key equals the trimmed key
CurlSlistRemove(l, key) ==
    SelectSeq(l, LAMBDA e : StrCaseCmp(Trim(key), e.key) # 0)

\* (mutant) entries with an empty value are signed too
SortedHeaderKeysAll(l) == [i \in DOMAIN l |-> LowerStr(l[i].key)]

\* get_sorted_header_keys, as the sequence of names it joins with ';':
\* entries with an empty value are skipped, the key is lowered (not trimmed)
SortedHeaderKeys(l) ==
    LET kept == SelectSeq(l, LAMBDA e : e.val # 0)
    IN  [i \in DOMAIN kept |-> LowerStr(kept[i].key)]

\* get_canonical_headers(list, false), as its sequence of "key:value" lines:
\* the key is lowered and trimmed, entries with an empty value are skipped
CanonicalHeaders(l) ==
    LET kept == SelectSeq(l, LAMBDA e : e.val # 0)
    IN  [i \in DOMAIN kept |-> [key |-> Trim(LowerStr(kept[i].key)), val |-> kept[i].val]]

\* get_header_value: the value of the first entry whose trimmed key equals
\* key without case, or the empty value when there is none
HeaderEntries(l, key) == {i \in DOMAIN l : StrCaseCmp(Trim(l[i].key), key) = 0}
GetHeaderValue(l, key) ==
    IF HeaderEntries(l, key) = {} THEN 0 ELSE l[Min(HeaderEntries(l, key))].val

-----------------------------------------------------------------------------
(* The state machine: callers add and remove headers in any order.        *)

Init == /\ list = <<>>
        /\ last = [op |-> "none", key |-> <<>>, val |-> 0]

\* list = curl_slist_sort_insert(list, key, value); the list is bounded
SortInsert(key, val) ==
    /\ Len(CurlSlistSortInsert(list, key, val)) <= MaxLen
    /\ list' = CurlSlistSortInsert(list, key, val)
    /\ last' = [op |-> "put", key |-> key, val |-> val]

\* list = curl_slist_remove(list, key)
SlistRemove(key) == /\ list' = CurlSlistRemove(list, key)
                    /\ last' = [op |-> "delete", key |-> key, val |-> 0]

Next == \E key \in Keys : SlistRemove(key) \/ \E val \in Vals : SortInsert(key, val)

Spec == Init /\ [][Next]_vars

-----------------------------------------------------------------------------
(* Properties.                                                             *)

\* After any sequence of inserts and removes the header names, compared as
\* the signature compares them (trimmed, without case), are strictly
\* ascending: the list is sorted and holds each header once, as the
\* comment on curl_slist_sort_insert ("AWS signature needs sorted header")
\* requires.
SortedUnique ==
    \A i \in 1..(Len(list) - 1) : StrCaseCmp(Trim(list[i].key), Trim(list[i + 1].key)) < 0

\* The SignedHeaders list of the signature names exactly the headers of the
\* canonical request, in the same strictly ascending order: the names
\* get_sorted_header_keys joins are the keys get_canonical_headers prints.
SignatureHeadersConsistent ==
    LET c == CanonicalHeaders(list)
    IN  /\ SortedHeaderKeys(list) = [i \in DOMAIN c |-> c[i].key]
        /\ \A i \in 1..(Len(c) - 1) : StrCaseCmp(c[i].key, c[i + 1].key) < 0

\* The list implements HeaderMap: after every insert and remove, reading
\* any header with get_header_value gives the value of its last insert
\* since its last remove, and nothing else changed.
Names == {Trim(LowerStr(k)) : k \in Keys}
HeaderValues(l) == [n \in Names |-> IF HeaderEntries(l, n) = {} THEN -1 ELSE GetHeaderValue(l, n)]
HM == INSTANCE HeaderMap WITH
        Values <- Vals,
        NoName <- <<>>,
        hmap <- HeaderValues(list),
        call <- [op   |-> last.op,
                 name |-> Trim(LowerStr(last.key)),
                 val  |-> IF last.op = "put" THEN last.val ELSE -1]
HeaderMapSpec == HM!Spec

=============================================================================
