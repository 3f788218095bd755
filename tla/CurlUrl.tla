------------------------------- MODULE CurlUrl -------------------------------
(***************************************************************************)
(* The URL helpers of src/src/curl_util.cpp: MakeUrlResource builds the   *)
(* path-style URL of an object from s3host, service_path and the bucket;  *)
(* prepare_url rewrites it to the request URL (virtual-host style moves   *)
(* the bucket into the host name); url_to_host and get_bucket_host give   *)
(* the host name that goes into the Host header and the signature.        *)
(*                                                                         *)
(* A string is a sequence of character codes, as in CurlSlist.  Names are *)
(* made of the letters 'a' and 'b', which urlEncodePath (string_util, not  *)
(* among the sources) copies unchanged, as it does '/' and '.'.  size_t   *)
(* arithmetic on std::string::npos wraps, and substr with a position past *)
(* the end throws std::out_of_range ("ok" false).  The global            *)
(* pathrequeststyle is set once from the options at startup and read by   *)
(* prepare_url and get_bucket_host: a variable that the header-list steps *)
(* leave unchanged.                                                        *)
(***************************************************************************)
EXTENDS CurlSlist, FiniteSets

VARIABLE pathrequeststyle

SLASH == 47
DOT   == 46
HTTP  == <<104, 116, 116, 112, 58, 47, 47>>        \* "http://"
HTTPS == <<104, 116, 116, 112, 115, 58, 47, 47>>   \* "https://"

\* service_path: "/" unless the service_path option is given
ServicePath == <<SLASH>>

\* std::string::npos
Npos == -1

\* s.find(t, from): the first position at or after from where t occurs
Find(s, t, from) ==
    LET at == {i \in from..(Len(s) - Len(t)) : SubSeq(s, i + 1, i + Len(t)) = t}
    IN  IF at = {} THEN Npos ELSE Min(at)

\* size_t p + n and p - n, where p may be npos
SizeAdd(p, n) == IF p = Npos THEN n - 1 ELSE p + n
SizeSub(p, n) == IF p = Npos THEN Npos ELSE p - n

\* s.substr(pos, n) for pos <= Len(s); n = npos or past the end takes the rest
Substr(s, pos, n) == SubSeq(s, pos + 1, IF n = Npos \/ pos + n > Len(s) THEN Len(s) ELSE pos + n)

\* strncasecmp(s, p, Len(p)) == 0
CaseIPrefix(s, p) == Len(s) >= Len(p) /\ LowerStr(SubSeq(s, 1, Len(p))) = p

-----------------------------------------------------------------------------

\* MakeUrlResource(realpath, resourcepath, url); a null realpath (<<>>: a
\* path is never empty) is refused
MakeUrlResource(s3host, bucket, realpath) ==
    IF realpath = <<>> THEN [ok |-> FALSE, resourcepath |-> <<>>, url |-> <<>>]
    ELSE LET resourcepath == ServicePath \o bucket \o realpath
         IN  [ok |-> TRUE, resourcepath |-> resourcepath, url |-> s3host \o resourcepath]

\* prepare_url(url): the scheme (matched without case), then the host up to
\* the first "/<bucket>" after it; virtual-host style prefixes the bucket
\* to the host and keeps what follows the token as the path, path style
\* keeps the host and puts "/<bucket>" before that path (adding a '/').
PrepareUrl(url, bucket, style) ==
    LET token      == <<SLASH>> \o bucket
        uri_length == IF CaseIPrefix(url, HTTPS) THEN 8 ELSE IF CaseIPrefix(url, HTTP) THEN 7 ELSE 0
        bucket_pos == Find(url, token, uri_length)
        rest_pos   == SizeAdd(bucket_pos, Len(token))
        host_part  == Substr(url, uri_length, SizeSub(bucket_pos, uri_length))
        tail       == IF rest_pos > Len(url) THEN <<>> ELSE Substr(url, rest_pos, Npos)
        part       == IF tail # <<>> /\ tail[1] = SLASH THEN tail ELSE <<SLASH>> \o tail
    IN  [ok  |-> rest_pos <= Len(url),
         url |-> IF ~style
                 THEN SubSeq(url, 1, uri_length) \o bucket \o <<DOT>> \o host_part \o tail
                 ELSE SubSeq(url, 1, uri_length) \o host_part \o <<SLASH>> \o bucket \o part]

UrlToHost(url) ==
    LET hostname == IF IsPrefix(HTTP, url) THEN SubSeq(url, Len(HTTP) + 1, Len(url))
                    ELSE SubSeq(url, Len(HTTPS) + 1, Len(url))
        idx      == Find(hostname, <<SLASH>>, 0)
    IN  IF ~IsPrefix(HTTP, url) /\ ~IsPrefix(HTTPS, url) THEN [ok |-> FALSE, host |-> <<>>]
        ELSE [ok |-> TRUE, host |-> IF idx # Npos THEN SubSeq(hostname, 1, idx) ELSE hostname]

\* get_bucket_host(): the host of s3host, with "<bucket>." before it in
\* virtual-host style
GetBucketHost(s3host, bucket, style) ==
    LET h == UrlToHost(s3host)
    IN  IF ~style THEN [h EXCEPT !.host = bucket \o <<DOT>> \o @] ELSE h

-----------------------------------------------------------------------------
(* The configurations: s3host is "http://" or "https://" and a host, with *)
(* or without a path after it (the url option is checked for the scheme  *)
(* and stripped of trailing '/'s in s3fs.cpp, not among the sources).     *)

Letters == {97, 98}
UrlNames(n) == UNION {[1..k -> Letters] : k \in 1..n}
S3Hosts == {sc \o h \o p : sc \in {HTTP, HTTPS}, h \in UrlNames(1),
                           p \in {<<>>} \cup {<<SLASH>> \o s : s \in UrlNames(2)}}
Buckets == UrlNames(2)
RealPaths == {<<>>, <<SLASH>>} \cup {<<SLASH>> \o s : s \in UrlNames(1)}

\* the header list's steps, under either request style
UrlInit == Init /\ pathrequeststyle \in BOOLEAN
UrlNext == Next /\ UNCHANGED pathrequeststyle
UrlSpec == UrlInit /\ [][UrlNext]_<<vars, pathrequeststyle>>

\* the request URL prepare_url should give: the object path after the host,
\* and the bucket in the host (virtual-host style) or before the path
RequestUrl(s3host, bucket, realpath, style) ==
    LET sl == IF IsPrefix(HTTPS, s3host) THEN Len(HTTPS) ELSE Len(HTTP)
    IN  IF style THEN s3host \o ServicePath \o bucket \o realpath
        ELSE SubSeq(s3host, 1, sl) \o bucket \o <<DOT>> \o SubSeq(s3host, sl + 1, Len(s3host)) \o realpath

HostMatchesAnyUrl ==
    \A s3host \in S3Hosts, bucket \in Buckets, realpath \in RealPaths \ {<<>>} :
        LET style == pathrequeststyle
            u == PrepareUrl(MakeUrlResource(s3host, bucket, realpath).url, bucket, style)
        IN  u.ok /\ UrlToHost(u.url) = GetBucketHost(s3host, bucket, style)

=============================================================================
