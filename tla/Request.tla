------------------------------- MODULE Request -------------------------------
(***************************************************************************)
(* One connection in the hands of a worker: _handle_connection of          *)
(* server.cpp, with recv_req and send_http_rsp of http.cpp, process_request*)
(* (process_request.cpp), get_file (file.cpp), get_file_listing            *)
(* (filesys.cpp) and the sends of tcp_connection.cpp, in the release build *)
(* (NDEBUG).  Beside it run the client, and whoever else changes the file  *)
(* or directory the request names.                                         *)
(*                                                                         *)
(*   pc: "recv" -> "process" -> "stat" or "list" -> "header"               *)
(*       -> "open" -> "sendfile" -> "rate" -> "close" -> "done"            *)
(*                                                                         *)
(* "crashed" is the end of the whole process.  check_if_file and           *)
(* get_file_listing look under prog_options.dir, get_file and the send in  *)
(* the working directory; here they are one directory, as they are when -d *)
(* is absolute or absent (Startup has the other case).  The resource is    *)
(* what the decoded uri names; get_file_listing does not decode it.  What  *)
(* send_http_rsp returns is only logged, and left out.                     *)
(***************************************************************************)
EXTENDS Integers

CONSTANTS Nothing,
          Changes,          \* what others may do: subset of ChangeKinds
          HeadSize,         \* bytes of what build_rsp makes
          MaxSize,          \* bound: sizes of files
          MaxChanges        \* bound: how often the resource changes

ChangeKinds == {"create", "resize", "remove", "chmod"}

\* An open file; it is linked while the path still names it.
OpenFiles == [linked : BOOLEAN, kind : {"file", "dir"}, size : 0 .. MaxSize]

ASSUME RequestAssumption ==
  /\ Nothing \notin OpenFiles
  /\ Changes \subseteq ChangeKinds
  /\ HeadSize \in Nat \ {0}
  /\ MaxSize \in Nat /\ MaxChanges \in Nat

VARIABLES fs,         \* the resource: [kind, readable, size]
          changes,    \* how often it has changed
          wants,      \* the method the client uses
          uri,        \* "encoded" has a %20 in it, "long" makes a path of
                      \* PATH_MAX or more behind -d, "plain" is neither
          arrived,    \* what came of its request: "none", "part" or "whole"
          gone,       \* the client has closed its end
          pc,
          recv_ret,   \* recv_req's answer: "no", "closed", "error", or
                      \* "part" or "data" by how much of the request it took
          m_method,   \* of HTTPRequest
          m_status, m_rsp_filename, m_len,   \* of HTTPResponse
          head,       \* how much is sent of the header, and a body that is no file
          file,       \* the open file, of OpenFiles, or Nothing
          total,      \* bytes of it sent
          rated,      \* "no", or the good_request of update_ip_addr_stats
          missed      \* history: the resource was missing once since recv

fsVars == <<fs, changes, missed>>
clientVars == <<wants, uri, arrived, gone>>
rspVars == <<m_status, m_rsp_filename, m_len>>
vars == <<fs, changes, missed, wants, uri, arrived, gone, pc, recv_ret, m_method,
          m_status, m_rsp_filename, m_len, head, file, total, rated>>

None == [kind |-> "none", readable |-> FALSE, size |-> 0]

Resources ==
  [kind : {"file", "dir"}, readable : BOOLEAN, size : 0 .. MaxSize] \cup {None}

Init ==
  /\ fs \in Resources
  /\ changes = 0
  /\ wants \in {"GET", "HEAD"}
  /\ uri \in {"plain", "encoded", "long"}
  /\ arrived = "none"
  /\ gone = FALSE
  /\ pc = "recv"
  /\ recv_ret = "no"
  /\ m_method = ""
  /\ m_status = "GEN_ERR" /\ m_rsp_filename = FALSE /\ m_len = 0
  /\ head = 0
  /\ file = Nothing
  /\ total = 0
  /\ rated = "no"
  /\ missed = FALSE

Move(from, to) == pc = from /\ pc' = to

-----------------------------------------------------------------------------
(***************************************************************************)
(* The client.  What it sends may arrive in two pieces; the first is taken *)
(* to end before the first line does.                                      *)
(***************************************************************************)
Arrive ==
  /\ ~gone
  /\ \/ arrived = "none" /\ arrived' \in {"part", "whole"}
     \/ arrived = "part" /\ arrived' = "whole"
  /\ UNCHANGED <<fsVars, wants, uri, gone, pc, recv_ret, m_method, rspVars, head,
                 file, total, rated>>

Leave ==
  /\ ~gone
  /\ gone' = TRUE
  /\ UNCHANGED <<fsVars, wants, uri, arrived, pc, recv_ret, m_method, rspVars, head,
                 file, total, rated>>

-----------------------------------------------------------------------------
(***************************************************************************)
(* Whoever else uses the served directory.                                 *)
(***************************************************************************)
\* The resource becomes r; an open file shares its fate while it is linked.
Become(r) ==
  /\ changes < MaxChanges
  /\ changes' = changes + 1
  /\ r # fs
  /\ fs' = r
  /\ missed' = (missed \/ r = None)
  /\ UNCHANGED <<clientVars, pc, recv_ret, m_method, rspVars, head, total,
                 rated>>

Create ==
  /\ "create" \in Changes
  /\ fs = None
  /\ \E r \in Resources \ {None} : Become(r)
  /\ UNCHANGED file

Remove ==
  /\ "remove" \in Changes
  /\ fs # None
  /\ Become(None)
  /\ file' = IF file = Nothing THEN file ELSE [file EXCEPT !.linked = FALSE]

Resize ==
  /\ "resize" \in Changes
  /\ fs.kind = "file"
  /\ \E n \in 0 .. MaxSize :
       /\ Become([fs EXCEPT !.size = n])
       /\ file' = IF file # Nothing /\ file.linked THEN [file EXCEPT !.size = n] ELSE file

Chmod ==
  /\ "chmod" \in Changes
  /\ fs # None
  /\ Become([fs EXCEPT !.readable = ~@])
  /\ UNCHANGED file

Others == Create \/ Remove \/ Resize \/ Chmod

-----------------------------------------------------------------------------
(***************************************************************************)
(* _handle_connection.                                                     *)
(***************************************************************************)
\* ParsedMethod of a parser that takes a line that has not ended.
ParsedMethodUnended(ret) == IF ret \in {"part", "data"} THEN wants ELSE ""

\* The method parse finds in what was received: a piece with no line feed is no
\* line at all, and a line that is not there has the method "".
ParsedMethod(ret) == IF ret = "data" THEN wants ELSE ""

\* recv_req: one recv, with no timeout.  A failed recv is not told from data
\* (server.cpp:55-60).
Recv ==
  /\ pc = "recv"
  /\ \/ arrived = "part" /\ recv_ret' = "part"
     \/ arrived = "whole" /\ recv_ret' = "data"
     \/ arrived = "none" /\ gone /\ recv_ret' = "closed"
     \/ gone /\ recv_ret' = "error"
  /\ pc' = IF recv_ret' = "closed" THEN "close" ELSE "process"
  /\ m_method' = ParsedMethod(recv_ret')
  /\ missed' = (fs = None)
  /\ UNCHANGED <<fs, changes, clientVars, rspVars, head, file, total,
                 rated>>

\* check_if_file, by the decoded path under prog_options.dir.
IsFile == uri # "long" /\ fs.kind = "file"

\* process_request up to its first look at the file system.
Process ==
  /\ pc = "process"
  /\ IF m_method # "GET"
       THEN m_status' = "405" /\ pc' = "header"
       ELSE /\ pc' = IF IsFile THEN "stat" ELSE "list"
            /\ UNCHANGED m_status
  /\ UNCHANGED <<fsVars, clientVars, recv_ret, m_method, m_rsp_filename, m_len,
                 head, file, total, rated>>

\* get_file: its stat may find what check_if_file did not see.
GetFile ==
  /\ Move("stat", "header")
  /\ IF fs = None
       THEN m_status' = "404" /\ UNCHANGED <<m_rsp_filename, m_len>>
       ELSE /\ m_status' = "200"
            /\ m_rsp_filename' = TRUE
            /\ m_len' = fs.size
  /\ UNCHANGED <<fsVars, clientVars, recv_ret, m_method, head, file, total,
                 rated>>

\* A path that get_file_listing gives up before it looks.
TooLong == [None EXCEPT !.kind = "long"]

\* What get_file_listing, which decodes nothing, may find by the uri: of a uri
\* with a %20, whatever its undecoded name stands for at that moment.
Undecoded == CASE uri = "plain" -> {fs}
               [] uri = "long" -> {TooLong}
               [] uri = "encoded" -> Resources \cup {TooLong}

\* directory_iterator can be made of what is at the path.
Listable(at) == at.kind = "dir" /\ at.readable

\* errno after a failed listing, read behind the LOG_S that tells of it, which
\* leaves it alone or sets it to the failure of a write.  A path too long sets
\* none: errno is what the stat of check_if_file, or anything before it, left.
Errnos(at) ==
  {"other"} \cup (IF at = None \/ (at = TooLong /\ uri = "encoded") THEN {"ENOENT"} ELSE {})

\* GetFileListing that takes every failure for ENOENT.
GetFileListingAnyError ==
  /\ Move("list", "header")
  /\ \E at \in Undecoded : m_status' = IF Listable(at) THEN "200" ELSE "404"
  /\ UNCHANGED <<fsVars, clientVars, recv_ret, m_method, m_rsp_filename, m_len,
                 head, file, total, rated>>

\* get_file_listing, and the page built of it.  A failure with ENOENT is a 404;
\* any other leaves the status HTTP_GEN_ERR.  An entry that cannot be looked
\* at, a link to itself for one, makes entry.is_directory () throw, and nothing
\* above the worker catches.
GetFileListing ==
  /\ pc = "list"
  /\ \E at \in Undecoded :
       \/ Listable(at) /\ m_status' = "200" /\ pc' = "header"
       \/ Listable(at) /\ pc' = "crashed" /\ UNCHANGED m_status
       \/ /\ ~Listable(at) /\ pc' = "header"
          /\ \E errno \in Errnos(at) :
               m_status' = IF errno = "ENOENT" THEN "404" ELSE "GEN_ERR"
  /\ UNCHANGED <<fsVars, clientVars, recv_ret, m_method, m_rsp_filename, m_len,
                 head, file, total, rated>>

\* build_rsp makes something to send: its other tests never fail, for every
\* other response has a type, and a file or a page that is not empty.
Built == m_status # "GEN_ERR"

\* SendHeaderEnds that gives the connection up when the send fails.
SendHeaderEndsUnrated ==
  /\ Move("header", IF Built THEN "close" ELSE "rate")
  /\ Built => gone
  /\ UNCHANGED <<fsVars, clientVars, recv_ret, m_method, rspVars, head, file, total,
                 rated>>

\* send_http_rsp up to the file: a turn of _send_wrapper's loop, in which send
\* takes some of what remains.
SendHeader ==
  /\ pc = "header" /\ Built
  /\ \E n \in 1 .. HeadSize - head : head' = head + n
  /\ pc' = IF head' < HeadSize THEN pc ELSE IF m_rsp_filename THEN "open" ELSE "rate"
  /\ UNCHANGED <<fsVars, clientVars, recv_ret, m_method, rspVars, file, total, rated>>

\* An empty response is not sent.  A send to a client that has gone may fail or
\* not yet.
SendHeaderEnds ==
  /\ Move("header", "rate")
  /\ Built => gone
  /\ UNCHANGED <<fsVars, clientVars, recv_ret, m_method, rspVars, head, file, total,
                 rated>>

\* FILE_RAII.  If fopen fails, get_fd gives -1 and send returns it, but first
\* the destructor calls fclose (NULL), which crashes.
OpenFile ==
  /\ pc = "open"
  /\ IF fs.readable
       THEN /\ pc' = "sendfile"
            /\ file' = [linked |-> TRUE, kind |-> fs.kind, size |-> fs.size]
       ELSE pc' = "crashed" /\ UNCHANGED file
  /\ UNCHANGED <<fsVars, clientVars, recv_ret, m_method, rspVars, head, total,
                 rated>>

FileSent == m_len <= total

\* SendFile that always asks for the whole size.
SendFileWhole ==
  /\ pc = "sendfile" /\ ~FileSent
  /\ file.kind = "file"
  /\ total < file.size
  /\ \E n \in 1 .. m_len : total + n <= file.size /\ total' = total + n
  /\ UNCHANGED <<fsVars, clientVars, pc, recv_ret, m_method, rspVars, head, file,
                 rated>>

\* A turn of the loop: sendfile sends some of what remains, as far as the file
\* reaches.  Where the file has ended it sends 0 bytes, and the loop turns
\* with nothing changed.
SendFile ==
  /\ pc = "sendfile" /\ ~FileSent
  /\ file.kind = "file"
  /\ total < file.size
  /\ \E n \in 1 .. m_len - total : total + n <= file.size /\ total' = total + n
  /\ UNCHANGED <<fsVars, clientVars, pc, recv_ret, m_method, rspVars, head, file,
                 rated>>

SendFileTurns ==
  /\ pc = "sendfile" /\ ~FileSent
  /\ file.kind = "file" /\ file.size <= total
  /\ UNCHANGED vars

\* The loop ends, or sendfile fails: the client has gone, or a directory has
\* taken the file's place.
FileEnds == FileSent \/ gone \/ file.kind = "dir"

\* SendFileEnds that does not look for -1.
SendFileEndsSent ==
  /\ Move("sendfile", "rate")
  /\ FileSent
  /\ file' = Nothing
  /\ UNCHANGED <<fsVars, clientVars, recv_ret, m_method, rspVars, head, total, rated>>

\* SendFileEnds that leaves the file open.
SendFileEndsOpen ==
  /\ Move("sendfile", "rate")
  /\ FileEnds
  /\ UNCHANGED <<fsVars, clientVars, recv_ret, m_method, rspVars, head, file, total, rated>>

\* SendFileEnds after the first turn, whatever it sent.
SendFileEndsShort ==
  /\ Move("sendfile", "rate")
  /\ FileEnds \/ total > 0
  /\ file' = Nothing
  /\ UNCHANGED <<fsVars, clientVars, recv_ret, m_method, rspVars, head, total, rated>>

\* The destructor closes the file.  That a send has failed stops nothing.
SendFileEnds ==
  /\ Move("sendfile", "rate")
  /\ FileEnds
  /\ file' = Nothing
  /\ UNCHANGED <<fsVars, clientVars, recv_ret, m_method, rspVars, head, total, rated>>

\* update_ip_addr_stats: good if the status is HTTP_OK, whatever was sent.
Rate ==
  /\ Move("rate", "close")
  /\ rated' = IF m_status = "200" THEN "good" ELSE "bad"
  /\ UNCHANGED <<fsVars, clientVars, recv_ret, m_method, rspVars, head, file,
                 total>>

\* The last reference to the connection goes, and its destructor closes it.
Close ==
  /\ Move("close", "done")
  /\ UNCHANGED <<fsVars, clientVars, recv_ret, m_method, rspVars, head, file,
                 total, rated>>

-----------------------------------------------------------------------------
Handler ==
  \/ Recv
  \/ Process
  \/ GetFile
  \/ GetFileListing
  \/ SendHeader
  \/ SendHeaderEnds
  \/ OpenFile
  \/ SendFile
  \/ SendFileTurns
  \/ SendFileEnds
  \/ Rate
  \/ Close

Next == Handler \/ Arrive \/ Leave \/ Others

\* The worker runs, and the client it waits for sends something or leaves: no
\* timeout bounds that wait (server.cpp:54).  The client also reads what it is
\* sent or leaves, so that no send blocks for ever.
Fairness == WF_vars(Handler) /\ WF_vars(arrived = "none" /\ (Arrive \/ Leave))

Spec == Init /\ [][Next]_vars /\ Fairness

-----------------------------------------------------------------------------
(***************************************************************************)
(* Properties.                                                             *)
(***************************************************************************)
\* Type invariant.
TypeOK ==
  /\ fs \in Resources
  /\ changes \in 0 .. MaxChanges
  /\ wants \in {"GET", "HEAD"}
  /\ uri \in {"plain", "encoded", "long"}
  /\ arrived \in {"none", "part", "whole"}
  /\ pc \in {"recv", "process", "stat", "list", "header", "open", "sendfile", "rate",
             "close", "done", "crashed"}
  /\ recv_ret \in {"no", "closed", "error", "part", "data"}
  /\ m_method \in {"", "GET", "HEAD"}
  /\ m_status \in {"200", "404", "405", "GEN_ERR"}
  /\ m_len \in 0 .. MaxSize
  /\ file \in OpenFiles \cup {Nothing}
  /\ rated \in {"no", "good", "bad"}
  /\ gone \in BOOLEAN /\ m_rsp_filename \in BOOLEAN /\ missed \in BOOLEAN
  /\ head \in 0 .. HeadSize /\ total \in Nat
  /\ pc = "sendfile" <=> file # Nothing

\* The client never gets more of a file than its Content-Length, nor any of it
\* before the whole header, though the file may change size at any time
\* (file.cpp:30, tcp_connection.cpp:149-161).
BodyWithinLength == total <= m_len /\ (total > 0 => head = HeadSize)

\* A client that stays, and asks for a file that stays, gets as many bytes as
\* its Content-Length says, however often the file changes size.
BodyIsWhole ==
  pc \in {"rate", "close", "done"} /\ m_rsp_filename /\ ~gone /\ ~missed =>
    head = HeadSize /\ total = m_len

\* A connection is rated once if anything but its end was received, and only
\* then, before it is closed (server.cpp:54-72).
RatedOnceServed ==
  /\ pc = "done" => (rated = "no" <=> recv_ret = "closed")
  /\ pc \notin {"close", "done"} => rated = "no"

\* A client told 404 asked for something that was not there at some moment
\* after its request came in, whatever check_if_file, stat, the listing and errno
\* say between them; but for a directory with a space in its path, which the
\* listing does not find (DirectoryIsListed).
NotFoundMeansMissing ==
  m_status = "404" => missed \/ (uri = "encoded" /\ fs.kind = "dir")

\* The server "will list the files and directories in it's working directory"
\* (README.md:3-4): a directory that stays and may be read is not answered 404.
DirectoryIsListed ==
  fs.kind = "dir" /\ fs.readable /\ ~missed => m_status # "404"

\* A client is told that its method is not supported (README.md:6) unless it
\* used GET and its first line came in whole; nobody else is answered from the
\* file system (http.cpp:52, process_request.cpp:44-57).
OnlyWholeGetsServed ==
  pc \in {"header", "open", "sendfile", "rate"} =>
    (m_status = "405" <=> ~(wants = "GET" /\ recv_ret = "data"))

\* Every request that came in is served and its connection closed, or the
\* process dies, or the file has lost what was promised of it: only a file cut
\* short keeps a worker for good.
ClosesUnlessCut ==
  pc = "process" ~>
    \/ pc \in {"done", "crashed"}
    \/ pc = "sendfile" /\ file.size <= total /\ total < m_len

\* Every connection is closed once the request has been served (README.md:7-8).
EveryConnectionCloses == pc = "process" ~> pc \in {"done", "crashed"}
=============================================================================
