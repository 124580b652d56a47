-------------------------------- MODULE Paths --------------------------------
(***************************************************************************)
(* Names, paths and sizes as the pages show them (html_rsp.cpp,            *)
(* filesys.cpp) and as a request brings them back (file.cpp).  A path is a *)
(* sequence of "/", "SP", ".", letters and "%20", which is one character   *)
(* here: no name can make one out of its parts when spaces are replaced.   *)
(***************************************************************************)
EXTENDS Integers, HttpText

CONSTANTS UintMax,     \* the largest unsigned int
          Kilo,        \* 1024
          SizeNames    \* how many names of sizes there are: B, kB, ...

ASSUME PathsAssumption == UintMax \in Nat /\ Kilo \in Nat \ {0, 1} /\ SizeNames \in Nat \ {0}

Slash == <<"/">>

WithSlash(uri) == IF uri # <<>> /\ Last(uri) = "/" THEN uri ELSE uri \o Slash

-----------------------------------------------------------------------------
(***************************************************************************)
(* html_rsp.cpp.                                                           *)
(***************************************************************************)
\* unsigned int index of a string's character, at 0 and below it.
Unsigned(i) == IF i < 0 THEN UintMax + 1 + i ELSE i

\* Where the last / of the first characters of a path is, 0 if there is none.
LastSlash(path, to) == SelectLastInSubSeq(path, 1, to, LAMBDA ch : ch = "/")

\* GetParentDir that takes the last / of all.
GetParentDirLast(path) == SubSeq(path, 1, LastSlash(path, Len(path)))

\* _get_parent_dir: up to the last / before the end.  max >= 0 is true of every
\* unsigned int: with no / there, the string is read before its beginning.
GetParentDir(path) ==
  LET max == Unsigned(IF path # <<>> /\ Last(path) = "/" THEN Len(path) - 2
                      ELSE Len(path) - 1)
      found == IF max >= Len(path) THEN 0
               ELSE LastSlash(path, max + 1)
  IN  IF found = 0 THEN "out of bounds" ELSE SubSeq(path, 1, found)

\* __get_vector_of_path_nodes: what each / after the first character ends.
NodeChar(st, ch) ==
  IF ch = "/" THEN [nodes |-> Append(st.nodes, st.temp), temp |-> <<>>]
  ELSE [nodes |-> st.nodes, temp |-> Append(st.temp, ch)]

NoNodes == [nodes |-> <<>>, temp |-> <<>>]

Nodes == INSTANCE Loop WITH Turn <- NodeChar

PathNodes(parent) == Nodes!Result(NoNodes, Tail(parent)).nodes

\* The links of _get_back_links.
BackLink(st, node) ==
  [links |-> Append(st.links, st.path \o node), path |-> st.path \o node \o Slash]

RootLink == [links |-> <<Slash>>, path |-> Slash]

Links == INSTANCE Loop WITH Turn <- BackLink

BackLinks(parent) == Links!Result(RootLink, PathNodes(parent)).links

\* MakeHttpFriendly for a name's first space.
MakeHttpFriendlyOnce(filename) ==
  LET space == SelectInSeq(filename, LAMBDA ch : ch = "SP")
  IN  [i \in DOMAIN filename |-> IF i = space THEN "%20" ELSE filename[i]]

\* _make_http_friendly.
MakeHttpFriendly(filename) ==
  [i \in DOMAIN filename |-> IF filename[i] = "SP" THEN "%20" ELSE filename[i]]

\* The link of an entry in the page of uri (_fill_html_body).
EntryLink(uri, name) == WithSlash(uri) \o MakeHttpFriendly(name)

-----------------------------------------------------------------------------
(***************************************************************************)
(* file.cpp and filesys.cpp.                                               *)
(***************************************************************************)
\* _clean_filename.
CleanFilename(filename) ==
  [i \in DOMAIN filename |-> IF filename[i] = "%20" THEN "SP" ELSE filename[i]]

\* _extract_name_from_path, of a path with a / in it.
ExtractName(path) ==
  SubSeq(path, LastSlash(path, Len(path)) + 1, Len(path))

\* Shift that keeps the remainder of the first division.
ShiftFirst(st, turn) ==
  IF st.quot <= Kilo THEN st
  ELSE [order |-> st.order + 1, quot |-> st.quot \div Kilo,
        rem |-> IF st.order = 0 THEN st.quot % Kilo ELSE st.rem]

\* A turn of the loop of bytes_human_readable.
Shift(st, turn) ==
  IF st.quot <= Kilo THEN st
  ELSE [order |-> st.order + 1, quot |-> st.quot \div Kilo, rem |-> st.quot % Kilo]

Shifts == INSTANCE Loop WITH Turn <- Shift

Unshifted(bytes) == [order |-> 0, quot |-> bytes, rem |-> 0]

\* bytes_human_readable: the quotient, the remainder of the last division and
\* the name of the order, which has to be one of SizeNames.  Each turn takes at
\* least one byte away, so there are no more than bytes of them.
HumanReadable(bytes) ==
  LET last == Shifts!Result(Unshifted(bytes), [turn \in 1 .. bytes |-> turn])
  IN  [last EXCEPT !.order = IF @ >= SizeNames THEN SizeNames - 1 ELSE @]

-----------------------------------------------------------------------------
(***************************************************************************)
(* What they promise, of the page of uri and an entry of it.               *)
(***************************************************************************)
\* uri is the path of a directory as the pages' own links give it.
IsPageUri(uri) ==
  /\ uri # <<>> /\ Head(uri) = "/"
  /\ \A i \in 2 .. Len(uri) : uri[i] = "/" => uri[i - 1] # "/"

IsName(name) == name # <<>> /\ ~Contains(name, "/")

\* From an entry's page, with a / at its end or not, the last link leads up to
\* the page it was listed in; and the entry's name is what was listed.
UpLeadsBack(uri, name) ==
  LET page == WithSlash(uri)
      link == EntryLink(uri, name)
  IN  /\ GetParentDir(link) = page
      /\ GetParentDir(WithSlash(link)) = page
      /\ WithSlash(Last(BackLinks(page))) = page
      /\ ExtractName(page \o name) = name

\* The uri a server reads of a request for a link.
RequestedUri(link) == ParseHttpMethod(<<"GET", "SP">> \o link \o <<"SP", "HTTP">>).m_uri

\* What a file is looked up by is cleaned (check_if_file, get_file), what a
\* directory is looked up by is not (get_file_listing).
LookedUp(kind, uri) == IF kind = "file" THEN CleanFilename(uri) ELSE uri

\* The link of an entry comes back as one uri, and is looked up as the entry.
LinkFetches(uri, name, kind) ==
  LookedUp(kind, RequestedUri(EntryLink(uri, name))) = WithSlash(uri) \o name

Times(product, factor) == product * factor

Product == INSTANCE Loop WITH Turn <- Times

\* Kilo^order.
Unit(order) == Product!Result(1, [n \in 1 .. order |-> Kilo])

\* The size shown is the size rounded down, in kilos of the unit named with it,
\* and the remainder that of the next unit below (of 1024, not decimals).
\* Beyond the last name there is no unit that says how large the file is.
SizeIsRounded(bytes) ==
  LET r == HumanReadable(bytes)
      unit == Unit(r.order)
  IN  bytes \div Unit(SizeNames - 1) <= Kilo =>
        /\ r.quot * unit <= bytes /\ bytes < (r.quot + 1) * unit
        /\ r.quot <= Kilo
        /\ r.rem = IF r.order = 0 THEN 0 ELSE (bytes \div (unit \div Kilo)) % Kilo
=============================================================================
