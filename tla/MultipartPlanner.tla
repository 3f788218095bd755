-------------------------- MODULE MultipartPlanner --------------------------
(***************************************************************************)
(* PageList::GetPageListsForMultipartUpload (src/src/fdcache_page.cpp):    *)
(* from the page list of an open file, the list of ranges to download      *)
(* (dlpages) and the ordered upload parts (mixuppages), each part COPY     *)
(* (modified = FALSE: re-use the remote bytes) or PUT (modified = TRUE:    *)
(* upload the local bytes).  The planner is evaluated on every list the    *)
(* PageList state machine reaches; its only change to the list itself is  *)
(* the Compress() it starts with (PageList!PlanMultipart).                 *)
(***************************************************************************)
EXTENDS PageList

CONSTANTS MIN_MULTIPART_SIZE,   \* the object store's minimum non-tail part size
          MaxPartSize           \* max_partsize, the configured part size

ASSUME /\ MIN_MULTIPART_SIZE \in Nat \ {0}
       /\ MaxPartSize \in Nat /\ MaxPartSize >= MIN_MULTIPART_SIZE

-----------------------------------------------------------------------------

\* (mutant) the padding taken from the area is not downloaded
PadPartNoDownload(acc, it) ==
    LET missing == MIN_MULTIPART_SIZE - acc.prev.bytes
    IN  IF missing + MIN_MULTIPART_SIZE < it.bytes
        THEN [prev |-> [it EXCEPT !.offset = @ + missing, !.bytes = @ - missing],
              dl   |-> acc.dl,
              mix  |-> Append(acc.mix, [acc.prev EXCEPT !.bytes = MIN_MULTIPART_SIZE])]
        ELSE [prev |-> [acc.prev EXCEPT !.bytes = @ + it.bytes],
              dl   |-> Append(acc.dl, it),
              mix  |-> acc.mix]

\* An unmodified area after a modified part prev below the minimum: the
\* part is padded to the minimum from the front of the area (downloaded),
\* or, when the rest of the area would fall below the minimum, the whole
\* area is downloaded and joins the part.
PadPart(acc, it) ==
    LET missing == MIN_MULTIPART_SIZE - acc.prev.bytes
    IN  IF missing + MIN_MULTIPART_SIZE < it.bytes
        THEN [prev |-> [it EXCEPT !.offset = @ + missing, !.bytes = @ - missing],
              dl   |-> Append(acc.dl, MkPage(it.offset, missing, FALSE, FALSE)),
              mix  |-> Append(acc.mix, [acc.prev EXCEPT !.bytes = MIN_MULTIPART_SIZE])]
        ELSE [prev |-> [acc.prev EXCEPT !.bytes = @ + it.bytes],
              dl   |-> Append(acc.dl, it),
              mix  |-> acc.mix]

\* (mutant) a modified part is closed whatever its size
PlanStepNoPad(acc, it) ==
    LET prev == acc.prev
    IN  IF it.modified = prev.modified THEN [acc EXCEPT !.prev.bytes = @ + it.bytes]
        ELSE IF it.modified /\ prev.bytes < MIN_MULTIPART_SIZE
        THEN [prev |-> it, dl |-> Append(acc.dl, prev),
              mix |-> Append(acc.mix, [prev EXCEPT !.modified = TRUE])]
        ELSE [prev |-> it, dl |-> acc.dl, mix |-> Append(acc.mix, prev)]

\* The body of the loop over modified_pages.  acc.prev is prev_page,
\* acc.dl download_pages, acc.mix mixupload_pages.
PlanStep(acc, it) ==
    LET prev == acc.prev
    IN
    IF it.modified THEN
        IF ~prev.modified THEN
            IF prev.bytes < MIN_MULTIPART_SIZE
            \* too small to copy: download it and upload it with the part
            THEN [prev |-> it, dl |-> Append(acc.dl, prev),
                  mix |-> Append(acc.mix, [prev EXCEPT !.modified = TRUE])]
            \* large enough: a COPY part
            ELSE [prev |-> it, dl |-> acc.dl,
                  mix |-> Append(acc.mix, [prev EXCEPT !.modified = FALSE])]
        ELSE [acc EXCEPT !.prev.bytes = @ + it.bytes]
    ELSE
        IF ~prev.modified THEN [acc EXCEPT !.prev.bytes = @ + it.bytes]
        ELSE IF prev.bytes < MIN_MULTIPART_SIZE THEN PadPart(acc, it)
        ELSE [prev |-> it, dl |-> acc.dl, mix |-> Append(acc.mix, prev)]

\* parse_partsize_fdpage_list(): a modified page is cut into max_partsize
\* pieces while more than twice max_partsize remains; the rest is one piece.
RECURSIVE SplitModified(_, _, _, _)
SplitModified(p, start, rest, maxp) ==
    IF rest <= 0 THEN <<>>
    ELSE IF maxp * 2 < rest
         THEN <<[p EXCEPT !.offset = start, !.bytes = maxp]>>
              \o SplitModified(p, start + maxp, rest - maxp, maxp)
         ELSE <<[p EXCEPT !.offset = start, !.bytes = rest]>>

ParsePartsize(ps, maxp) ==
    FoldLeft(LAMBDA out, p : out \o (IF p.modified THEN SplitModified(p, p.offset, p.bytes, maxp)
                                     ELSE <<p>>),
             <<>>, ps)

\* PageList::GetPageListsForMultipartUpload(dlpages, mixuppages, max_partsize)
GetPageListsForMultipartUpload(ps, maxp) ==
    LET modified_pages == RawCompress(CompressPages(ps), TRUE, FALSE, FALSE, FALSE)
        walk   == FoldLeft(PlanStep, [prev |-> NoPage, dl |-> <<>>, mix |-> <<>>], modified_pages)
        mix    == IF 0 < walk.prev.bytes THEN Append(walk.mix, walk.prev) ELSE walk.mix
    IN  [dlpages    |-> ParsePartsize(RawCompress(walk.dl, FALSE, TRUE, FALSE, FALSE), maxp),
         mixuppages |-> ParsePartsize(RawCompress(mix, TRUE, FALSE, FALSE, FALSE), maxp)]

-----------------------------------------------------------------------------
(* Properties of the plan for the current list.                            *)

Plan == GetPageListsForMultipartUpload(pages, MaxPartSize)

\* the offsets a list of pages covers
Covered(ps) == {b \in 0..(2 * MaxSize) : \E i \in DOMAIN ps : ps[i].offset <= b /\ b < PageNext(ps[i])}
PutBytes(ps) == Covered(SelectSeq(ps, LAMBDA p : p.modified))

\* The upload parts tile the file from 0 to Size() in order, every part but
\* the last is at least MIN_MULTIPART_SIZE, and no PUT part is larger than
\* twice max_partsize.  A plan violating this is refused by the object
\* store or uploads the wrong object.
UploadPlanShape ==
    LET mix == Plan.mixuppages
    IN  /\ mix # <<>> => mix[1].offset = 0 /\ PageNext(mix[Len(mix)]) = ListSize(pages)
        /\ \A i \in 1..(Len(mix) - 1) : PageNext(mix[i]) = mix[i + 1].offset
        /\ \A i \in 1..(Len(mix) - 1) : mix[i].bytes >= MIN_MULTIPART_SIZE
        /\ \A i \in DOMAIN mix : mix[i].modified => mix[i].bytes <= 2 * MaxPartSize

\* Every locally modified byte is uploaded by a PUT part (never taken from
\* the stale remote object by a COPY), and every byte of a PUT part that is
\* not modified is in the download list, so the part holds real data.
UploadPlanData ==
    LET bv  == ByteView(pages)
        put == PutBytes(Plan.mixuppages)
        dl  == Covered(Plan.dlpages)
    IN  \A b \in Bytes(pages) :
          /\ bv[b].modified => b \in put
          /\ (b \in put /\ ~bv[b].modified) => b \in dl

\* Spec 8: "Every page in either output list has length <= MAX".
PartsAtMostMax ==
    \A i \in DOMAIN Plan.mixuppages : Plan.mixuppages[i].bytes <= MaxPartSize

\* Spec 8: "Every byte of download_pages lies within an unmodified page of
\* the input": the download list never covers a locally modified byte.
DownloadOnlyUnmodified ==
    LET bv == ByteView(pages)
    IN  \A b \in Covered(Plan.dlpages) : b \in Bytes(pages) /\ ~bv[b].modified

=============================================================================
