------------------------------- MODULE MCText -------------------------------
(***************************************************************************)
(* Every short request, every short path and every small size: a request   *)
(* comes in character by character and outgrows a buffer of seven; a path   *)
(* of up to six characters is taken apart into a page's uri and a name in  *)
(* every way; a kilo is 4 and there are three names of sizes.              *)
(***************************************************************************)
EXTENDS Paths

CONSTANTS RequestChars, PathChars,
          MaxRequest, MaxPath,   \* bounds: lengths
          MaxBytes               \* bound: sizes

VARIABLES request, path, bytes

vars == <<request, path, bytes>>

Init == request = <<>> /\ path = <<>> /\ bytes = 0

NextRequest ==
  /\ Len(request) < MaxRequest /\ path = <<>> /\ bytes = 0
  /\ \E ch \in RequestChars : request' = Append(request, ch)
  /\ UNCHANGED <<path, bytes>>

NextPath ==
  /\ Len(path) < MaxPath /\ request = <<>> /\ bytes = 0
  /\ \E ch \in PathChars : path' = Append(path, ch)
  /\ UNCHANGED <<request, bytes>>

NextSize ==
  /\ bytes < MaxBytes /\ request = <<>> /\ path = <<>>
  /\ bytes' = bytes + 1
  /\ UNCHANGED <<request, path>>

Next == NextRequest \/ NextPath \/ NextSize

Spec == Init /\ [][Next]_vars

-----------------------------------------------------------------------------
\* recv_req cuts what it received into its lines and loses none, but one that
\* ends with a full buffer (http.cpp:78-93).
EveryLineComes == LinesAreTheText(request)

\* What parse has read, a first line, headers or a body, stays as it is when
\* more of the request comes in: it never acts on part of a line, and a second
\* header of one name does not replace the first (http.cpp:82, http_req.cpp:32-53).
ParsedStands ==
  request # <<>> =>
    LET before == Parse(CutLines(Front(request)))
        after == Parse(CutLines(request))
    IN  /\ before.at # "first" => after.method = before.method
        /\ before.m_header \subseteq after.m_header
        /\ IsPrefix(before.m_body, after.m_body)

PageUris == {i \in DOMAIN path : IsPageUri(SubSeq(path, 1, i))}

\* Links down and up lead back to the same page, and the search for the parent
\* does not leave the uri, for every uri the pages lead to (html_rsp.cpp:137-183).
UpFromEntry ==
  \A i \in PageUris :
    LET name == SubSeq(path, i + 1, Len(path))
    IN  IsName(name) => UpLeadsBack(SubSeq(path, 1, i), name)

\* The link of an entry fetches that entry, a file with spaces in its name too
\* (html_rsp.cpp:118-121 and 213, http_req.cpp:130-136, file.cpp:48 and 91).  Not
\* so a file whose path has a "%20" of its own, which the lookup turns into a
\* space, and a directory with a space in its name (DirectoryIsListed of
\* Request).  A page's uri has no space: it was cut out of a line at its spaces.
EntryIsFetched ==
  \A i \in PageUris :
    LET uri == SubSeq(path, 1, i)
        name == SubSeq(path, i + 1, Len(path))
    IN  IsName(name) /\ ~Contains(uri, "SP") =>
          /\ ~Contains(path, "%20") => LinkFetches(uri, name, "file")
          /\ ~Contains(name, "SP") => LinkFetches(uri, name, "dir")

\* The size in the listing is right at every power of 1024 and beside it
\* (filesys.cpp:176-187).
SizesAreRounded == SizeIsRounded(bytes)
=============================================================================
