------------------------------ MODULE PageList ------------------------------
(***************************************************************************)
(* The page-state engine of one open cache file (class PageList in         *)
(* src/src/fdcache_page.cpp).  The state is the ordered list of pages      *)
(* (fdpage: offset, bytes, loaded, modified) and the is_shrink flag.       *)
(* Every public operation that changes that state is one action; the      *)
(* list algorithms it calls (Compress, Parse, Resize, the raw compression  *)
(* of the planner) are pure operators over sequences of page records, so   *)
(* the nested calls of the C++ code (SetPageLoadedStatus calling Resize     *)
(* calling Init and Compress) are nested operator applications here.       *)
(*                                                                         *)
(* Offsets and sizes are small naturals bounded by MaxSize; the 64-bit     *)
(* width of off_t never matters at these sizes.                            *)
(***************************************************************************)
EXTENDS Integers, Sequences, SequencesExt, FiniteSets

CONSTANT MaxSize    \* largest file size / offset any operation is given

ASSUME MaxSize \in Nat \ {0}

VARIABLES pages,      \* the fdpage list (PageList::pages)
          is_shrink   \* PageList::is_shrink

vars == <<pages, is_shrink>>

-----------------------------------------------------------------------------
(* fdpage and its helpers (fdcache_page.h: the header is not part of the   *)
(* sources; next() and end() are taken from their uses in the .cpp).       *)

MkPage(o, b, l, m) == [offset |-> o, bytes |-> b, loaded |-> l, modified |-> m]

\* fdpage::next(): the first offset after the page
PageNext(p) == p.offset + p.bytes

\* fdpage::end(): the last offset of the page, 0 for an empty page
PageEnd(p) == IF 0 < p.bytes THEN p.offset + p.bytes - 1 ELSE 0

\* the empty fdpage() a local variable starts as
NoPage == MkPage(0, 0, FALSE, FALSE)

\* PageList::page_status and the two flags SetPageLoadedStatus derives from it
PageStatus == {"NOT_LOAD_MODIFIED", "LOADED", "MODIFIED", "LOAD_MODIFIED"}
StatusLoaded(st)   == st \in {"LOAD_MODIFIED", "LOADED"}
StatusModified(st) == st \in {"LOAD_MODIFIED", "MODIFIED"}

-----------------------------------------------------------------------------
(* Pure list algorithms, each returning the new list (and shrink flag).    *)

\* PageList::Size()
ListSize(ps) == IF ps = <<>> THEN 0 ELSE PageNext(ps[Len(ps)])

\* (mutant) a negative size is not refused
InitPagesNoCheck(size, l, m) == <<MkPage(0, size, l, m)>>

\* PageList::Init(): one page for the whole file, none when size < 0
InitPages(size, l, m) == IF 0 <= size THEN <<MkPage(0, size, l, m)>> ELSE <<>>

\* (mutant) pages are merged when their loaded flags agree, whatever
\* their modified flags
CompressStepLoadedOnly(out, it) ==
    IF out = <<>> THEN <<it>>
    ELSE LET last   == out[Len(out)]
             gapped == IF PageNext(last) = it.offset THEN out
                       ELSE IF last.loaded \/ last.modified
                            THEN Append(out, MkPage(PageNext(last), it.offset - PageNext(last), FALSE, FALSE))
                            ELSE [out EXCEPT ![Len(out)].bytes = it.offset - last.offset]
             cur    == gapped[Len(gapped)]
         IN  IF cur.loaded = it.loaded
             THEN [gapped EXCEPT ![Len(gapped)].bytes = @ + it.bytes]
             ELSE Append(gapped, it)

\* One iteration of the loop of PageList::Compress(): fill a gap before it
\* (extending an unflagged last page, else inserting an unflagged page),
\* then merge it into the last page when both flags agree.
CompressStep(out, it) ==
    IF out = <<>> THEN <<it>>
    ELSE LET last   == out[Len(out)]
             gapped == IF PageNext(last) = it.offset THEN out
                       ELSE IF last.loaded \/ last.modified
                            THEN Append(out, MkPage(PageNext(last), it.offset - PageNext(last), FALSE, FALSE))
                            ELSE [out EXCEPT ![Len(out)].bytes = it.offset - last.offset]
             cur    == gapped[Len(gapped)]
         IN  IF cur.loaded = it.loaded /\ cur.modified = it.modified
             THEN [gapped EXCEPT ![Len(gapped)].bytes = @ + it.bytes]
             ELSE Append(gapped, it)

\* PageList::Compress()
CompressPages(ps) == FoldLeft(CompressStep, <<>>, ps)

\* (mutant) the front part of a split page is inserted after the back part
ParseInsertAfter(ps, pos) ==
    LET hits == {i \in DOMAIN ps : \/ ps[i].offset = pos
                                   \/ ps[i].offset < pos /\ pos < PageNext(ps[i])}
        i    == Min(hits)
    IN  IF hits = {} THEN [ok |-> FALSE, pages |-> ps]
        ELSE IF ps[i].offset = pos THEN [ok |-> TRUE, pages |-> ps]
        ELSE [ok |-> TRUE,
              pages |-> InsertAt([ps EXCEPT ![i].bytes = @ - (pos - ps[i].offset),
                                            ![i].offset = pos],
                                 i + 1,
                                 MkPage(ps[i].offset, pos - ps[i].offset, ps[i].loaded, ps[i].modified))]

\* PageList::Parse(new_pos): split the page strictly containing new_pos.
\* ok is FALSE when no page starts at or contains new_pos.
Parse(ps, pos) ==
    LET hits == {i \in DOMAIN ps : \/ ps[i].offset = pos
                                   \/ ps[i].offset < pos /\ pos < PageNext(ps[i])}
        i    == Min(hits)
    IN  IF hits = {} THEN [ok |-> FALSE, pages |-> ps]
        ELSE IF ps[i].offset = pos THEN [ok |-> TRUE, pages |-> ps]
        ELSE [ok |-> TRUE,
              pages |-> InsertAt([ps EXCEPT ![i].bytes = @ - (pos - ps[i].offset),
                                            ![i].offset = pos],
                                 i,
                                 MkPage(ps[i].offset, pos - ps[i].offset, ps[i].loaded, ps[i].modified))]

\* The cut loop of PageList::Resize(): keep pages ending by size, shorten
\* the page straddling size, erase the pages starting at or after it.
CutPages(ps, size) ==
    LET keep(p) == PageNext(p) <= size \/ p.offset < size
        kept    == SelectSeq(ps, keep)
    IN  [i \in DOMAIN kept |-> IF PageNext(kept[i]) <= size THEN kept[i]
                               ELSE [kept[i] EXCEPT !.bytes = size - kept[i].offset]]

\* PageList::Resize(size, is_loaded, is_modified) on a list pl = [pages, shrink]
Resize(pl, size, l, m) ==
    LET total == ListSize(pl.pages)
        res   == CASE total = 0    -> [pages |-> InitPages(size, l, m), shrink |-> pl.shrink]
                   [] total < size -> [pl EXCEPT !.pages = Append(@, MkPage(total, size - total, l, m))]
                   [] size < total -> [pages |-> CutPages(pl.pages, size), shrink |-> pl.shrink \/ m]
                   [] OTHER        -> pl
    IN  [res EXCEPT !.pages = CompressPages(@)]

\* The flag loop of SetPageLoadedStatus on an inner range, after both ends
\* were parsed: every page overlapping [start, start+size) gets the flags.
\* (The loop breaks at the first page at or after start+size; on the
\* sorted lists WellFormed guarantees, no later page overlaps either.)
SetFlags(ps, start, size, l, m) ==
    [i \in DOMAIN ps |-> IF ~(PageEnd(ps[i]) < start) /\ ps[i].offset < start + size
                         THEN [ps[i] EXCEPT !.loaded = l, !.modified = m]
                         ELSE ps[i]]

\* PageList::SetPageLoadedStatus(start, size, pstatus, is_compress)
SetPageLoadedStatus(pl, start, size, st, comp) ==
    LET now == ListSize(pl.pages)
        l   == StatusLoaded(st)
        m   == StatusModified(st)
        res == IF now <= start
               THEN Resize(IF now < start THEN Resize(pl, start, FALSE, m) ELSE pl,
                           start + size, l, m)
               ELSE IF now <= start + size
               THEN Resize(Resize(pl, start, FALSE, FALSE), start + size, l, m)
               ELSE LET parsed == Parse(Parse(pl.pages, start).pages, start + size).pages
                    IN  [pl EXCEPT !.pages = SetFlags(parsed, start, size, l, m)]
    IN  IF comp THEN [res EXCEPT !.pages = CompressPages(@)] ELSE res

\* (mutant) the pending truncation is not cleared with the flags
ClearAllModifiedKeepShrink(pl) ==
    [pages  |-> CompressPages([i \in DOMAIN pl.pages |-> [pl.pages[i] EXCEPT !.modified = FALSE]]),
     shrink |-> pl.shrink]

\* PageList::ClearAllModified()
ClearAllModified(pl) ==
    [pages  |-> CompressPages([i \in DOMAIN pl.pages |-> [pl.pages[i] EXCEPT !.modified = FALSE]]),
     shrink |-> FALSE]

\* PageList::BytesModified() and PageList::IsModified()
BytesModified(ps) == FoldLeft(LAMBDA t, p : IF p.modified THEN t + p.bytes ELSE t, 0, ps)
IsModified(pl) == pl.shrink \/ \E i \in DOMAIN pl.pages : pl.pages[i].modified

-----------------------------------------------------------------------------
(* Read-only queries.  "size = 0" means "up to the end of the list".       *)

\* (mutant) a range ending exactly at the end of a page is not found
\* complete there
IsPageLoadedPastEnd(ps, start, size) ==
    LET RECURSIVE Scan(_)
        Scan(i) == IF i > Len(ps) THEN TRUE
                   ELSE IF PageEnd(ps[i]) < start THEN Scan(i + 1)
                   ELSE IF ~ps[i].loaded THEN FALSE
                   ELSE IF size # 0 /\ start + size < PageNext(ps[i]) THEN TRUE
                   ELSE Scan(i + 1)
    IN  Scan(1)

\* PageList::IsPageLoaded(start, size)
IsPageLoaded(ps, start, size) ==
    LET RECURSIVE Scan(_)
        Scan(i) == IF i > Len(ps) THEN TRUE
                   ELSE IF PageEnd(ps[i]) < start THEN Scan(i + 1)
                   ELSE IF ~ps[i].loaded THEN FALSE
                   ELSE IF size # 0 /\ start + size <= PageNext(ps[i]) THEN TRUE
                   ELSE Scan(i + 1)
    IN  Scan(1)

Unloaded(p) == ~p.loaded /\ ~p.modified

\* PageList::FindUnloadedPage(start): first unloaded, unmodified page whose
\* end is at or after start, returned whole.
FindUnloadedPage(ps, start) ==
    LET hits == {i \in DOMAIN ps : start <= PageEnd(ps[i]) /\ Unloaded(ps[i])}
    IN  IF hits = {} THEN [found |-> FALSE, start |-> 0, size |-> 0]
        ELSE [found |-> TRUE, start |-> ps[Min(hits)].offset, size |-> ps[Min(hits)].bytes]

\* The end of the range a size-0 query means ("If size is 0, it means
\* loading to end"); size stays 0 when start is past the end.
QueryNext(ps, start, size) ==
    start + (IF size = 0 /\ start < ListSize(ps) THEN ListSize(ps) - start ELSE size)

\* Pages of the loop of GetTotalUnloadedPageSize / GetUnloadedPages that
\* contribute: unloaded and unmodified, overlapping [start, next).  The
\* loop breaks at the first page at or after next; on a sorted list no
\* later page overlaps either.
UnloadedInRange(ps, start, next) ==
    SelectSeq(ps, LAMBDA p : ~(PageNext(p) <= start) /\ p.offset < next /\ Unloaded(p))

\* The part of page p inside [start, next)
Clip(p, start, next) ==
    LET b == IF start > p.offset THEN start ELSE p.offset
        e == IF next < PageNext(p) THEN next ELSE PageNext(p)
    IN  MkPage(b, e - b, FALSE, FALSE)

\* PageList::GetTotalUnloadedPageSize(start, size, limit_size)
GetTotalUnloadedPageSize(ps, start, size, limit) ==
    LET next == QueryNext(ps, start, size)
    IN  FoldLeft(LAMBDA t, p : LET c == Clip(p, start, next).bytes
                               IN  IF limit = 0 \/ c < limit THEN t + c ELSE t,
                 0, UnloadedInRange(ps, start, next))

\* PageList::GetUnloadedPages(unloaded_list, start, size) with an empty
\* unloaded_list: the clipped pages, each merged into the previous output
\* page when it continues it.
GetUnloadedPages(ps, start, size) ==
    LET next == QueryNext(ps, start, size)
    IN  FoldLeft(LAMBDA out, p :
                    LET c == Clip(p, start, next)
                    IN  IF out # <<>> /\ PageNext(out[Len(out)]) = c.offset
                        THEN [out EXCEPT ![Len(out)].bytes = @ + c.bytes]
                        ELSE Append(out, c),
                 <<>>, UnloadedInRange(ps, start, next))

-----------------------------------------------------------------------------
(* raw_compress_fdpage_list(): the compression the planner and             *)
(* GetNoDataPageLists use on lists they build.  ignore_load/ignore_modify  *)
(* drop one flag from the comparison and replace it by a default value;    *)
(* empty pages are dropped; a gap after a page flagged in a compared flag  *)
(* gets an unflagged page, any other gap is absorbed by the last page.     *)

\* raw_add_compress_fdpage_list()
RawAdd(out, p, il, im, dl, dm) ==
    IF 0 < p.bytes
    THEN Append(out, [p EXCEPT !.loaded   = IF il THEN dl ELSE @,
                               !.modified = IF im THEN dm ELSE @])
    ELSE out

RawCompressStep(out, it, il, im, dl, dm) ==
    IF it.bytes = 0 THEN out
    ELSE IF out = <<>> THEN RawAdd(out, it, il, im, dl, dm)
    ELSE LET last   == out[Len(out)]
             gapped == IF PageNext(last) = it.offset THEN out
                       ELSE IF (~il /\ last.loaded) \/ (~im /\ last.modified)
                            THEN RawAdd(out, MkPage(PageNext(last), it.offset - PageNext(last), FALSE, FALSE),
                                        il, im, dl, dm)
                            ELSE [out EXCEPT ![Len(out)].bytes = it.offset - last.offset]
             cur    == gapped[Len(gapped)]
         IN  IF (~il /\ cur.loaded # it.loaded) \/ (~im /\ cur.modified # it.modified)
             THEN RawAdd(gapped, it, il, im, dl, dm)
             ELSE [gapped EXCEPT ![Len(gapped)].bytes = @ + it.bytes]

\* raw_compress_fdpage_list(pages, compressed, il, im, dl, dm)
RawCompress(ps, il, im, dl, dm) ==
    FoldLeft(LAMBDA out, p : RawCompressStep(out, p, il, im, dl, dm), <<>>, ps)

\* PageList::GetNoDataPageLists(nodata_pages, start, size) on the already
\* compressed list: the unmodified pages from start on, "clipped" as the
\* code does it, then compressed.
GetNoDataPageLists(ps, start, size) ==
    LET stop == IF size = 0 THEN -1 ELSE start + size
        sel  == SelectSeq(ps, LAMBDA p : ~(PageNext(p) < start)
                                         /\ ~(stop # -1 /\ stop <= p.offset)
                                         /\ ~p.modified)
        tmp  == [i \in DOMAIN sel |->
                   LET o == IF sel[i].offset > start THEN sel[i].offset ELSE start
                   IN  MkPage(o,
                              IF stop = -1 THEN sel[i].bytes
                              ELSE IF sel[i].bytes < stop - o THEN sel[i].bytes ELSE stop - o,
                              sel[i].loaded, sel[i].modified)]
    IN  RawCompress(tmp, FALSE, FALSE, FALSE, FALSE)

-----------------------------------------------------------------------------
(* The state machine: a caller (the file entity, single writer per list)   *)
(* may invoke any public operation with any arguments within the bounds.   *)

PL == [pages |-> pages, shrink |-> is_shrink]

Apply(res) == pages' = res.pages /\ is_shrink' = res.shrink

Sizes == 0..MaxSize
Flags == BOOLEAN

\* PageList(size, is_loaded, is_modified, shrunk): the constructor stores
\* shrunk, then Init() calls Clear(), which resets is_shrink to false.
Init ==
    \E size \in Sizes, l, m \in Flags :
        /\ pages = InitPages(size, l, m)
        /\ is_shrink = FALSE

\* PageList::Init(size, is_loaded, is_modified)
InitList(size, l, m) ==
    /\ pages' = InitPages(size, l, m)
    /\ is_shrink' = FALSE

ResizeList(size, l, m) == Apply(Resize(PL, size, l, m))

\* PageList::Parse(new_pos): fails without a change past the end
ParseList(pos) == pages' = Parse(pages, pos).pages /\ UNCHANGED is_shrink

CompressList == pages' = CompressPages(pages) /\ UNCHANGED is_shrink

SetStatus(start, size, st, comp) == Apply(SetPageLoadedStatus(PL, start, size, st, comp))

ClearModified == Apply(ClearAllModified(PL))

\* GetNoDataPageLists and GetPageListsForMultipartUpload both begin with
\* Compress(); that is the only change they make to the list.
GetNoData(start, size) == CompressList
PlanMultipart == CompressList

Next ==
    \/ \E size \in {-1} \cup Sizes, l, m \in Flags : InitList(size, l, m)
    \/ \E size \in Sizes, l, m \in Flags : ResizeList(size, l, m)
    \/ \E pos \in Sizes : ParseList(pos)
    \/ CompressList
    \/ \E start, size \in Sizes, st \in PageStatus, comp \in BOOLEAN :
          start + size <= MaxSize /\ SetStatus(start, size, st, comp)
    \/ ClearModified
    \/ \E start, size \in Sizes : GetNoData(start, size)
    \/ PlanMultipart

Spec == Init /\ [][Next]_vars

-----------------------------------------------------------------------------
(* The byte view: what each byte of the file is, whatever the paging.      *)

Bytes(ps) == 0..(ListSize(ps) - 1)

\* the flags of the (first) page holding byte b
ByteFlags(ps, b) ==
    LET i == Min({j \in DOMAIN ps : ps[j].offset <= b /\ b < PageNext(ps[j])})
    IN  [loaded |-> ps[i].loaded, modified |-> ps[i].modified]

ByteView(ps) == [b \in Bytes(ps) |-> ByteFlags(ps, b)]

\* the bytes a query over (start, size) is about
QueryBytes(ps, start, size) == {b \in Bytes(ps) : start <= b /\ b < QueryNext(ps, start, size)}

\* the maximal runs of a finite set of offsets, as unflagged pages in order
RECURSIVE Runs(_)
Runs(S) ==
    IF S = {} THEN <<>>
    ELSE LET lo == Min(S)
             hi == Min({k \in S : k + 1 \notin S /\ lo <= k})
         IN  <<MkPage(lo, hi - lo + 1, FALSE, FALSE)>> \o Runs(S \ (lo..hi))

-----------------------------------------------------------------------------
(* Properties.                                                             *)

TypeOK ==
    /\ pages \in Seq([offset : 0..MaxSize, bytes : 0..MaxSize,
                      loaded : BOOLEAN, modified : BOOLEAN])
    /\ is_shrink \in BOOLEAN

\* Spec I1/I2/I4, after every public operation (Resize's cut loop, Parse's
\* split, SetPageLoadedStatus's Resize/Parse/flag sequence): the pages
\* start at 0, each starts where the previous ends, and only a single
\* page may be empty.
WellFormed ==
    pages # <<>> =>
        /\ pages[1].offset = 0
        /\ \A i \in 1..(Len(pages) - 1) : PageNext(pages[i]) = pages[i + 1].offset
        /\ Len(pages) > 1 => \A i \in DOMAIN pages : pages[i].bytes > 0

\* Compress() (spec I3 and "idempotent"): on the current list it changes no
\* byte, leaves no two neighbours with equal flags, and a second pass
\* changes nothing.
CompressLaws ==
    LET c == CompressPages(pages)
    IN  /\ ByteView(c) = ByteView(pages)
        /\ \A i \in 1..(Len(c) - 1) : ~(c[i].loaded = c[i + 1].loaded /\ c[i].modified = c[i + 1].modified)
        /\ CompressPages(c) = c

\* The range queries that drive downloads (IsPageLoaded, FindUnloadedPage,
\* GetTotalUnloadedPageSize, GetUnloadedPages) and BytesModified answer
\* what the byte view says, for every range of a file holding at least
\* one byte: their clipping, the "size 0 means to the end" rule and the
\* end() based skipping are right.  (The empty file is EmptyFileIsLoaded.)
QueriesMatchByteView ==
    ListSize(pages) > 0 =>
    LET bv == ByteView(pages)
        UU(b) == ~bv[b].loaded /\ ~bv[b].modified
    IN  /\ BytesModified(pages) = Cardinality({b \in Bytes(pages) : bv[b].modified})
        /\ \A start, size \in Sizes :
              LET q   == QueryBytes(pages, start, size)
                  fu  == FindUnloadedPage(pages, start)
                  ub  == {b \in Bytes(pages) : start <= b /\ UU(b)}
              IN  /\ IsPageLoaded(pages, start, size) = \A b \in q : bv[b].loaded
                  /\ GetTotalUnloadedPageSize(pages, start, size, 0) = Cardinality({b \in q : UU(b)})
                  /\ GetUnloadedPages(pages, start, size) = Runs({b \in q : UU(b)})
                  /\ fu.found = (ub # {})
                  /\ fu.found => fu.start <= Min(ub) /\ Min(ub) < fu.start + fu.size

\* Spec 4.1: IsPageLoaded is true iff every page intersecting the range is
\* loaded, so on a file with no bytes (Init(0, ...) or a Resize to 0) it is
\* true for every range.
EmptyFileIsLoaded ==
    ListSize(pages) = 0 => \A start, size \in Sizes : IsPageLoaded(pages, start, size)

\* Spec scenario 2 (Init(0); SetPageLoadedStatus(100, 50, MODIFIED) gives
\* [(0,100,false,false),(100,50,false,true)] and BytesModified() = 50): a
\* status set past the end leaves the bytes between the old end and start
\* unmodified, so only the bytes written count as modified.
GapNotModified ==
    \A start, size \in Sizes, st \in PageStatus :
        (ListSize(pages) < start /\ start + size <= MaxSize) =>
            LET after == SetPageLoadedStatus(PL, start, size, st, TRUE).pages
                bv    == ByteView(after)
            IN  \A b \in ListSize(pages)..(start - 1) : ~bv[b].modified

\* PageList implements PageFile: under the byte view every operation is the
\* abstract one (Parse, Compress and the compressing queries are stutters),
\* whatever splits, cuts, merges and gap fills the list algorithms do.
Abstract == INSTANCE PageFile WITH bytes <- ByteView(pages), shrunk <- is_shrink
AbstractSpec == Abstract!Spec

\* GetNoDataPageLists(start, size) returns exactly the unmodified bytes of
\* [start, start+size) (to the end for size 0), each page carrying the
\* loaded flag of those bytes.
NoDataMatchesByteView ==
    LET c  == CompressPages(pages)
        bv == ByteView(c)
    IN  \A start, size \in Sizes :
          LET nd  == GetNoDataPageLists(c, start, size)
              q   == {b \in Bytes(c) : start <= b /\ (size = 0 \/ b < start + size) /\ ~bv[b].modified}
              out == {b \in 0..(2 * MaxSize) : \E i \in DOMAIN nd : nd[i].offset <= b /\ b < PageNext(nd[i])}
          IN  out = q

=============================================================================
