------------------------------ MODULE StatsFile ------------------------------
(***************************************************************************)
(* PageList::Serialize and PageList::Deserialize (src/src/fdcache_page.cpp) *)
(* over the stats file of one cache file.  The file is its text: a         *)
(* sequence of characters, each a decimal digit 0..9 or one of the two     *)
(* separators COLON and NL.  Serialize prints the list, truncates the file *)
(* and writes the text; Deserialize splits the text as the getline calls   *)
(* do, parses each field as cvt_strtoofft does, and rebuilds the list with *)
(* SetPageLoadedStatus.                                                    *)
(*                                                                         *)
(* Faults (the code handles neither): a pwrite that writes a non-empty     *)
(* prefix of the text and still counts as success ("short"), and a        *)
(* Serialize that truncates the file and then fails or crashes before the *)
(* write ("truncate").  saved is a history variable: the list and inode of *)
(* the last Serialize that returned true.                                  *)
(***************************************************************************)
EXTENDS PageList

CONSTANTS Inodes,   \* inode numbers of the cache file (positive, one digit)
          Faults    \* a subset of {"short", "truncate"}

ASSUME /\ Inodes \subseteq 1..9 /\ Inodes # {}
       /\ Faults \subseteq {"short", "truncate"}
       /\ MaxSize <= 9

VARIABLES disk,     \* the text of the stats file
          saved     \* [ino, pl] of the last successful Serialize (ino 0: none yet)

statsVars == <<pages, is_shrink, disk, saved>>

COLON == 10
NL    == 11

-----------------------------------------------------------------------------
(* Text conversions.                                                       *)

\* operator<< of an off_t or ino_t: its decimal digits
RECURSIVE ToDigits(_)
ToDigits(n) == IF n < 10 THEN <<n>> ELSE ToDigits(n \div 10) \o <<n % 10>>

\* cvt_strtoofft(str, 10) on a string of digits (0 for the empty string)
Num(s) == FoldLeft(LAMBDA v, d : v * 10 + d, 0, s)

\* the successive results of getline(stream, part, c) until it fails: the
\* text is cut at each c; an empty rest after a c is no further field
RECURSIVE Tokens(_, _)
Tokens(s, c) ==
    LET i == SelectInSeq(s, LAMBDA x : x = c)
    IN  IF s = <<>> THEN <<>>
        ELSE IF i = 0 THEN <<s>>
        ELSE <<SubSeq(s, 1, i - 1)>> \o Tokens(SubSeq(s, i + 1, Len(s)), c)

\* (mutant) the modified flag is printed before the loaded flag
EncodeSwapped(pl, ino) ==
    LET Bit(b) == IF b THEN 1 ELSE 0
    IN  ToDigits(ino) \o <<COLON>> \o ToDigits(ListSize(pl.pages))
        \o FoldLeft(LAMBDA t, p : t \o <<NL>> \o ToDigits(p.offset) \o <<COLON>>
                                    \o ToDigits(p.bytes) \o <<COLON, Bit(p.modified), COLON, Bit(p.loaded)>>,
                    <<>>, pl.pages)

\* "<inode>:<size>" then "\n<offset>:<bytes>:<loaded>:<modified>" per page
Encode(pl, ino) ==
    LET Bit(b) == IF b THEN 1 ELSE 0
    IN  ToDigits(ino) \o <<COLON>> \o ToDigits(ListSize(pl.pages))
        \o FoldLeft(LAMBDA t, p : t \o <<NL>> \o ToDigits(p.offset) \o <<COLON>>
                                    \o ToDigits(p.bytes) \o <<COLON, Bit(p.loaded), COLON, Bit(p.modified)>>,
                    <<>>, pl.pages)

-----------------------------------------------------------------------------
(* Deserialize.                                                            *)

\* Clear(): what every failure after the read leaves
Cleared == [ok |-> FALSE, pages |-> <<>>, shrink |-> FALSE]

\* the page_status of a line's loaded and modified flags
LineStatus(l, m) ==
    IF l THEN (IF m THEN "LOAD_MODIFIED" ELSE "LOADED")
    ELSE (IF m THEN "MODIFIED" ELSE "NOT_LOAD_MODIFIED")

\* One iteration of the loop over the page lines: fewer than three fields
\* is a parse error that ends the loop; a missing fourth field is "not
\* modified"; the page is added with SetPageLoadedStatus.
ParseLine(acc, line) ==
    LET f == Tokens(line, COLON)
    IN  IF acc.err THEN acc
        ELSE IF Len(f) < 3 THEN [acc EXCEPT !.err = TRUE]
        ELSE [acc EXCEPT !.pl = SetPageLoadedStatus(@, Num(f[1]), Num(f[2]),
                                   LineStatus(Num(f[3]) = 1, Len(f) >= 4 /\ Num(f[4]) = 1), TRUE)]

\* (mutant) the inode of the header is not compared with the caller's
DeserializeAnyInode(text, ino) ==
    LET lines == Tokens(text, NL)
        head  == Tokens(lines[1], COLON)
        total == IF Len(head) = 1 THEN Num(head[1]) ELSE Num(head[2])
        cino  == IF Len(head) = 1 THEN 0 ELSE Num(head[1])
        body  == FoldLeft(ParseLine, [err |-> FALSE, pl |-> [pages |-> <<>>, shrink |-> FALSE]],
                          Tail(lines))
    IN  IF text = <<>> THEN [ok |-> TRUE, pages |-> InitPages(0, FALSE, FALSE), shrink |-> FALSE]
        ELSE IF head = <<>> THEN Cleared
        ELSE IF Len(head) > 1 /\ cino = 0 THEN Cleared
        ELSE IF body.err THEN Cleared
        ELSE IF total # ListSize(body.pl.pages) THEN Cleared
        ELSE [ok |-> TRUE, pages |-> body.pl.pages, shrink |-> body.pl.shrink]

\* PageList::Deserialize(file, inode) on the text of the file
Deserialize(text, ino) ==
    LET lines == Tokens(text, NL)
        head  == Tokens(lines[1], COLON)
        total == IF Len(head) = 1 THEN Num(head[1]) ELSE Num(head[2])
        cino  == IF Len(head) = 1 THEN 0 ELSE Num(head[1])
        body  == FoldLeft(ParseLine, [err |-> FALSE, pl |-> [pages |-> <<>>, shrink |-> FALSE]],
                          Tail(lines))
    IN  IF text = <<>> THEN [ok |-> TRUE, pages |-> InitPages(0, FALSE, FALSE), shrink |-> FALSE]
        ELSE IF head = <<>> THEN Cleared
        ELSE IF Len(head) > 1 /\ cino = 0 THEN Cleared
        ELSE IF cino # 0 /\ cino # ino THEN Cleared
        ELSE IF body.err THEN Cleared
        ELSE IF total # ListSize(body.pl.pages) THEN Cleared
        ELSE [ok |-> TRUE, pages |-> body.pl.pages, shrink |-> body.pl.shrink]

-----------------------------------------------------------------------------
(* The state machine: the list changes by PageList's operations, is saved  *)
(* and is reloaded (after a restart, or when the file is opened again).    *)

\* no Serialize has succeeded yet
NotSaved == [ino |-> 0, pl |-> [pages |-> <<>>, shrink |-> FALSE]]

StatsInit == Init /\ disk = <<>> /\ saved = NotSaved

\* any PageList operation; the stats file is left alone
ChangeList == Next /\ UNCHANGED <<disk, saved>>

\* Serialize: ftruncate(fd, 0), then pwrite of the whole text; true
Serialize(ino) ==
    /\ disk' = Encode(PL, ino)
    /\ saved' = [ino |-> ino, pl |-> PL]
    /\ UNCHANGED <<pages, is_shrink>>

\* pwrite writes a non-empty prefix only; "0 >= pwrite" does not see it,
\* and Serialize returns true
SerializeShort(ino) ==
    /\ "short" \in Faults
    /\ \E n \in 1..(Len(Encode(PL, ino)) - 1) : disk' = SubSeq(Encode(PL, ino), 1, n)
    /\ saved' = [ino |-> ino, pl |-> PL]
    /\ UNCHANGED <<pages, is_shrink>>

\* ftruncate done, then pwrite fails (Serialize returns false) or the
\* process dies before it
SerializeTruncated ==
    /\ "truncate" \in Faults
    /\ disk' = <<>>
    /\ UNCHANGED <<pages, is_shrink, saved>>

\* Deserialize replaces the list by what the file holds (or by the cleared
\* list when it fails)
Load(ino) ==
    LET r == Deserialize(disk, ino)
    IN  /\ pages' = r.pages
        /\ is_shrink' = r.shrink
        /\ UNCHANGED <<disk, saved>>

StatsNext ==
    \/ ChangeList
    \/ \E ino \in Inodes : Serialize(ino) \/ SerializeShort(ino) \/ Load(ino)
    \/ SerializeTruncated

StatsSpec == StatsInit /\ [][StatsNext]_statsVars

-----------------------------------------------------------------------------
(* Properties.                                                             *)

\* Spec 8 round trip and spec 4.4 inode binding: Deserialize of the file
\* as the last successful Serialize left it succeeds for that inode and
\* gives the saved list (equal under compression), and refuses every
\* other inode.
RoundTrip ==
    saved # NotSaved /\ disk = Encode(saved.pl, saved.ino) =>
        \A ino \in Inodes :
            LET r == Deserialize(disk, ino)
            IN  /\ r.ok = (ino = saved.ino)
                /\ r.ok => CompressPages(r.pages) = CompressPages(saved.pl.pages)

\* A load that succeeds never returns a list the program did not save: a
\* stats file damaged by a failed or interrupted Serialize is refused, so
\* no locally modified byte is forgotten as "unmodified" after a reload.
LoadNeverWrong ==
    saved # NotSaved =>
        \A ino \in Inodes :
            LET r == Deserialize(disk, ino)
            IN  r.ok => /\ ino = saved.ino
                        /\ ByteView(r.pages) = ByteView(saved.pl.pages)

\* Whatever the faults leave in the file, a load that succeeds only ever
\* forgets: the file it gives is no longer than the saved one, every byte
\* has the saved loaded flag, and a byte comes back modified only if it was
\* modified when saved.  A damaged file may lose local changes (see
\* LoadNeverWrong) but never makes an unmodified byte be uploaded or a byte
\* that was not downloaded be read from the cache.
LoadOnlyForgets ==
    saved # NotSaved =>
        \A ino \in Inodes :
            LET r  == Deserialize(disk, ino)
                rv == ByteView(r.pages)
                sv == ByteView(saved.pl.pages)
            IN  r.ok => /\ DOMAIN rv \subseteq DOMAIN sv
                        /\ \A b \in DOMAIN rv :
                              /\ rv[b].loaded = sv[b].loaded
                              /\ rv[b].modified => sv[b].modified

\* IsModified() after a reload is what it was when the list was saved, so
\* a truncation still to be uploaded (is_shrink) survives a restart.
LoadKeepsModified ==
    saved # NotSaved =>
        LET r == Deserialize(disk, saved.ino)
        IN  r.ok => IsModified([pages |-> r.pages, shrink |-> r.shrink]) = IsModified(saved.pl)

=============================================================================
