----------------------------- MODULE SparseFile -----------------------------
(***************************************************************************)
(* Reconciliation of a page list with the cache file on disk              *)
(* (src/src/fdcache_page.cpp): GetSparseFilePages lists the file's holes  *)
(* and data with lseek(SEEK_HOLE/SEEK_DATA), and CompareSparseFile checks *)
(* every page against that list, reading an unclaimed data area to see    *)
(* whether it is zero.                                                     *)
(*                                                                         *)
(* The cache file is its layout: a sequence giving each byte as a hole,   *)
(* allocated zeros, or allocated non-zero data.  A filesystem without     *)
(* holes is a layout without "hole".  lseek follows Linux: SEEK_DATA and  *)
(* SEEK_HOLE fail (ENXIO) at or past the end, and the end of the file is  *)
(* a hole.  failed is an lseek that fails for another reason at offset 0. *)
(* CheckZeroAreaInFile reads the file as it is when it reads (g), which   *)
(* is the probed file f unless the file shrank in between; readfail is a  *)
(* pread that fails (EIO).  The operators are pure; the page list is      *)
(* PageList's variable.                                                    *)
(***************************************************************************)
EXTENDS PageList

Kinds == {"hole", "zero", "data"}

\* byte b (from 0) of layout f
At(f, b) == f[b + 1]

\* the layouts of a file of n bytes
Layouts(n) == [1..n -> Kinds]

-----------------------------------------------------------------------------
(* lseek(fd, off, whence) on a file of layout f.                           *)

SeekData(f, off) ==
    LET s == {b \in off..(Len(f) - 1) : At(f, b) # "hole"}
    IN  IF off >= Len(f) \/ s = {} THEN -1 ELSE Min(s)

SeekHole(f, off) ==
    IF off >= Len(f) THEN -1
    ELSE Min({b \in off..(Len(f) - 1) : At(f, b) = "hole"} \cup {Len(f)})

-----------------------------------------------------------------------------
(* GetSparseFilePages.                                                     *)

\* (mutant) the last page stops one byte short of file_size
SparsePageBytesShort(fsize, cur, nxt) == IF nxt = -1 THEN fsize - cur - 1 ELSE nxt - cur

\* page.bytes: up to the next change of kind, or to file_size when lseek
\* finds none
SparsePageBytes(fsize, cur, nxt) == IF nxt = -1 THEN fsize - cur ELSE nxt - cur

\* The loop: one page from cur_pos per lseek, alternating hole and data;
\* it ends when lseek fails.
RECURSIVE SparseLoop(_, _, _, _, _)
SparseLoop(f, fsize, cur, is_hole, acc) ==
    IF cur < 0 THEN acc
    ELSE LET nxt  == IF is_hole THEN SeekData(f, cur) ELSE SeekHole(f, cur)
             page == MkPage(cur, SparsePageBytes(fsize, cur, nxt), ~is_hole, FALSE)
         IN  SparseLoop(f, fsize, nxt, ~is_hole, Append(acc, page))

\* The first hole and data positions decide the kind at offset 0: the
\* smaller wins, a failed probe loses, both failing is an error.
GetSparseFilePages(f, fsize, failed) ==
    LET hole_pos == IF failed THEN -1 ELSE SeekHole(f, 0)
        data_pos == IF failed THEN -1 ELSE SeekData(f, 0)
        is_hole  == IF hole_pos = -1 THEN FALSE
                    ELSE IF data_pos = -1 THEN TRUE
                    ELSE hole_pos < data_pos
    IN  IF fsize = 0 THEN [ok |-> TRUE, list |-> <<>>]
        ELSE IF hole_pos = -1 /\ data_pos = -1 THEN [ok |-> FALSE, list |-> <<>>]
        ELSE [ok |-> TRUE, list |-> SparseLoop(f, fsize, 0, is_hole, <<>>)]

-----------------------------------------------------------------------------
(* CheckZeroAreaInFile, CheckAreaInSparseFile and CompareSparseFile.       *)

\* CHECK_CACHEFILE_PART_SIZE (16 KiB), scaled to the model's file sizes
CheckPartSize == 2

\* (mutant) pread returns one byte less than the file holds
PreadShort(g, readfail, off, n) ==
    IF readfail THEN -1 ELSE IF off >= Len(g) THEN 0 ELSE Min({n, Len(g) - off}) - 1

\* pread(fd, buf, n, off) on file g: the bytes up to its end, -1 on error
Pread(g, readfail, off, n) ==
    IF readfail THEN -1 ELSE IF off >= Len(g) THEN 0 ELSE Min({n, Len(g) - off})

\* The chunk loop from comp_bytes: "zero" (true), "bad" (false: a failed
\* read or a non-zero byte) or "hang": a pread returning 0 leaves
\* comp_bytes where it is, so the same read repeats forever.
RECURSIVE ZeroLoop(_, _, _, _, _)
ZeroLoop(g, readfail, start, bytes, comp) ==
    IF comp >= bytes THEN "zero"
    ELSE LET check == IF CheckPartSize < bytes - comp THEN CheckPartSize ELSE bytes - comp
             got   == Pread(g, readfail, start + comp, check)
         IN  IF got = -1 THEN "bad"
             ELSE IF \E b \in (start + comp)..(start + comp + got - 1) : At(g, b) = "data" THEN "bad"
             ELSE IF got = 0 THEN "hang"
             ELSE ZeroLoop(g, readfail, start, bytes, comp + got)

CheckZeroAreaInFile(g, readfail, start, bytes) == ZeroLoop(g, readfail, start, bytes, 0)

\* The area of sparse page it checked against checkpage cp, by the code's
\* else-if chain of cases 2 to 5 (cases 0 and 1 do not overlap).  Case 3
\* is taken by every sparse page ending after cp, also one that starts
\* before cp (the comment there assumes it does not).
CheckArea(cp, it) ==
    IF it.offset < cp.offset /\ PageNext(it) < PageNext(cp)
    THEN [start |-> cp.offset, bytes |-> it.bytes - (cp.offset - it.offset)]
    ELSE IF PageNext(cp) < PageNext(it)
    THEN [start |-> it.offset, bytes |-> cp.bytes - (it.offset - cp.offset)]
    ELSE IF cp.offset < it.offset /\ PageNext(it) < PageNext(cp)
    THEN [start |-> it.offset, bytes |-> it.bytes]
    ELSE [start |-> cp.offset, bytes |-> cp.bytes]

\* (mutant) only a loaded page claims data; a modified one is not checked
ClaimsDataLoadedOnly(cp) == cp.loaded

\* a page that says its bytes are in the cache file
ClaimsData(cp) == cp.loaded \/ cp.modified

\* One iteration over the sparse list: skip a page before cp (case 0), stop
\* at one after it (case 1); a hole under a claimed page is an error, data
\* under an unclaimed one a warning when the area is not all zero.  A hung
\* zero check never returns: nothing after it happens.
CheckStep(g, readfail, cp, acc, it) ==
    LET a == CheckArea(cp, it)
        z == CheckZeroAreaInFile(g, readfail, a.start, a.bytes)
    IN  IF acc.hang \/ acc.stop \/ PageNext(it) <= cp.offset THEN acc
        ELSE IF PageNext(cp) <= it.offset THEN [acc EXCEPT !.stop = TRUE]
        ELSE IF ClaimsData(cp) /\ ~it.loaded
        THEN [acc EXCEPT !.ok = FALSE, !.err = Append(@, MkPage(a.start, a.bytes, FALSE, FALSE))]
        ELSE IF ~ClaimsData(cp) /\ it.loaded /\ z = "hang" THEN [acc EXCEPT !.hang = TRUE]
        ELSE IF ~ClaimsData(cp) /\ it.loaded /\ z = "bad"
        THEN [acc EXCEPT !.ok = FALSE, !.warn = Append(@, MkPage(a.start, a.bytes, TRUE, FALSE))]
        ELSE acc

\* CheckAreaInSparseFile for one page, adding to the err and warn lists
CheckAreaInSparseFile(g, readfail, cp, sparse, r) ==
    LET s == FoldLeft(LAMBDA acc, it : CheckStep(g, readfail, cp, acc, it),
                  [ok |-> TRUE, stop |-> FALSE, hang |-> r.hang, err |-> r.err, warn |-> r.warn], sparse)
    IN  [ok |-> r.ok /\ s.ok, hang |-> s.hang, err |-> s.err, warn |-> s.warn]

\* CompareSparseFile(fd, file_size) of page list ps: probing file f,
\* reading file g
CompareSparseFile(ps, f, g, failed, readfail) ==
    LET sp == GetSparseFilePages(f, Len(f), failed)
    IN  IF ~sp.ok THEN [ok |-> FALSE, hang |-> FALSE, err |-> <<MkPage(0, Len(f), FALSE, FALSE)>>, warn |-> <<>>]
        ELSE IF sp.list = <<>> /\ ps = <<>> THEN [ok |-> TRUE, hang |-> FALSE, err |-> <<>>, warn |-> <<>>]
        ELSE FoldLeft(LAMBDA r, cp : CheckAreaInSparseFile(g, readfail, cp, sp.list, r),
                      [ok |-> TRUE, hang |-> FALSE, err |-> <<>>, warn |-> <<>>], ps)


-----------------------------------------------------------------------------
(* Properties, for the current page list and every cache file of its size. *)

\* the bytes a page list claims to hold, and the bytes of a list of areas
ClaimedBytes(ps) == {b \in Bytes(ps) : ByteView(ps)[b].loaded \/ ByteView(ps)[b].modified}
AreaBytes(l) == UNION {l[i].offset..(PageNext(l[i]) - 1) : i \in DOMAIN l}
KindBytes(f, k) == {b \in 0..(Len(f) - 1) : At(f, b) = k}

\* the mismatches: claimed bytes in a hole, unclaimed non-zero bytes
ErrBytes(ps, f)  == ClaimedBytes(ps) \cap KindBytes(f, "hole")
WarnBytes(ps, f) == (Bytes(ps) \ ClaimedBytes(ps)) \cap KindBytes(f, "data")

\* The lseek walk of GetSparseFilePages ends exactly at file_size: its
\* pages start at 0, follow each other without gap or overlap, end at the
\* end of the file, and each byte is data exactly when it is allocated.
SparseProbeExact ==
    \A f \in Layouts(ListSize(pages)) :
        LET sp == GetSparseFilePages(f, Len(f), FALSE).list
        IN  /\ GetSparseFilePages(f, Len(f), FALSE).ok
            /\ sp # <<>> => sp[1].offset = 0
            /\ \A i \in 1..(Len(sp) - 1) : PageNext(sp[i]) = sp[i + 1].offset
            /\ ListSize(sp) = Len(f)
            /\ \A b \in 0..(Len(f) - 1) : ByteView(sp)[b].loaded = (At(f, b) # "hole")

\* CompareSparseFile misses no mismatch: every claimed byte in a hole lies
\* in an error area (a failed probe reports the whole file), every
\* unclaimed non-zero byte lies in a warning area when the probe worked,
\* and it returns true only on a consistent file, also when a pread fails.
ReconcileReportsEveryMismatch ==
    \A f \in Layouts(ListSize(pages)), failed, readfail \in BOOLEAN :
        LET r == CompareSparseFile(pages, f, f, failed, readfail)
        IN  /\ ErrBytes(pages, f) \subseteq AreaBytes(r.err)
            /\ ~failed => WarnBytes(pages, f) \subseteq AreaBytes(r.warn)
            /\ r.ok => ErrBytes(pages, f) \cup WarnBytes(pages, f) = {}

\* Spec 4.3 (each reported area is the intersection of a page with a
\* sparse segment) and its note that a filesystem without holes must not
\* cause spurious warnings: CompareSparseFile returns true on a consistent
\* file, and reports exactly the claimed bytes in holes as errors and only
\* unclaimed bytes as warnings.
ReconcileExact ==
    \A f \in Layouts(ListSize(pages)) :
        LET r == CompareSparseFile(pages, f, f, FALSE, FALSE)
        IN  /\ r.ok = (ErrBytes(pages, f) \cup WarnBytes(pages, f) = {})
            /\ AreaBytes(r.err) = ErrBytes(pages, f)
            /\ AreaBytes(r.warn) \subseteq Bytes(pages) \ ClaimedBytes(pages)

\* The chunked zero check of CheckZeroAreaInFile ends on a file that did
\* not change since the lseek probe (pread stops short only at the end of
\* the file, and every checked area lies inside the file), and a warning
\* area then holds a non-zero byte unless a pread failed.
ZeroCheckSound ==
    \A f \in Layouts(ListSize(pages)), readfail \in BOOLEAN :
        LET r == CompareSparseFile(pages, f, f, FALSE, readfail)
        IN  /\ ~r.hang
            /\ ~readfail => \A i \in DOMAIN r.warn :
                             \E b \in r.warn[i].offset..(PageNext(r.warn[i]) - 1) : At(f, b) = "data"

\* CompareSparseFile returns also when the cache file shrank between the
\* lseek probe and the zero check.
ZeroCheckTerminates ==
    \A f \in Layouts(ListSize(pages)), k \in 0..ListSize(pages) :
        ~CompareSparseFile(pages, f, SubSeq(f, 1, k), FALSE, FALSE).hang

=============================================================================
