---------------------------- MODULE RequestProofs ----------------------------
(***************************************************************************)
(* Proofs about one request, for any bounds on sizes and changes, any      *)
(* number of sends and whatever the client and the others do: its          *)
(* invariants.                                                             *)
(*                                                                         *)
(* What the properties of Request lack alone is what each stage of the     *)
(* handler leaves set (Answer, Sent), and that a resource that was there   *)
(* at every moment since recv is still what check_if_file saw (Present):   *)
(* get_file_listing then looks for a directory, or for the wrong path.     *)
(***************************************************************************)
EXTENDS Request, TLAPS

\* The method is the one parsed, and the status says what was made of it.
Answer ==
  /\ pc = "recv" => recv_ret = "no"
  /\ pc # "recv" => m_method = ParsedMethod(recv_ret)
  /\ pc \in {"recv", "process", "stat", "list"} => m_status = "GEN_ERR"
  /\ pc \in {"stat", "list"} => m_method = "GET"
  /\ m_rsp_filename => m_status = "200"
  /\ pc \in {"header", "open", "sendfile", "rate"} => (m_status = "405" <=> m_method # "GET")

\* How much is sent at each stage; a body of the length of a file
\* goes only with a file.
Sent ==
  /\ ~m_rsp_filename => m_len = 0 /\ total = 0
  /\ pc \in {"recv", "process", "stat", "list"} =>
       ~m_rsp_filename /\ head = 0
  /\ pc = "header" => total = 0 /\ head < HeadSize
  /\ pc = "header" /\ ~Built => head = 0
  /\ pc \in {"open", "sendfile"} => m_rsp_filename /\ head = HeadSize
  /\ pc = "open" => total = 0

\* A resource that was never missing since recv is there, and a file then is a
\* file still, a directory a directory.
Present ==
  pc # "recv" /\ ~missed =>
    /\ fs # None
    /\ pc = "stat" \/ m_rsp_filename => fs.kind = "file"
    /\ pc = "list" /\ uri # "long" => fs.kind = "dir"
    /\ file # Nothing => file.kind = "file"

\* Only an end of file is not rated, and nothing before its time.
Rating ==
  /\ pc \notin {"close", "done"} => rated = "no"
  /\ pc \in {"close", "done"} => (rated = "no" <=> recv_ret = "closed")
  /\ recv_ret = "closed" => pc \in {"close", "done"}

\* The inductive invariant.
IInv ==
  /\ TypeOK
  /\ Answer
  /\ Sent
  /\ Present
  /\ Rating
  /\ BodyWithinLength
  /\ BodyIsWhole
  /\ NotFoundMeansMissing

-----------------------------------------------------------------------------
(***************************************************************************)
(* What each step leaves true.                                             *)
(***************************************************************************)
\* What fs can be: no resource, or a file or directory of some size.
LEMMA ResourceShape ==
  ASSUME NEW r \in Resources
  PROVE  /\ r = None \/ r \in [kind : {"file", "dir"}, readable : BOOLEAN, size : 0 .. MaxSize]
         /\ r.kind \in {"file", "dir", "none"} /\ r.readable \in BOOLEAN
         /\ r.size \in 0 .. MaxSize
         /\ r.kind = "none" <=> r = None
         /\ r = None => ~r.readable
<1>1. CASE r = None
  BY <1>1, RequestAssumption DEF None
<1>2. CASE r \in [kind : {"file", "dir"}, readable : BOOLEAN, size : 0 .. MaxSize]
  <2>1. r.kind \in {"file", "dir"} /\ r.readable \in BOOLEAN /\ r.size \in 0 .. MaxSize
    BY <1>2
  <2> QED
    BY <1>2, <2>1 DEF None
<1> QED
  BY <1>1, <1>2 DEF Resources

\* The resource and the open file keep their types, and a file is open while
\* it is sent.
LEMMA ResourceStep ==
  ASSUME TypeOK, [Next]_vars
  PROVE  /\ fs' \in Resources /\ file' \in OpenFiles \cup {Nothing}
         /\ pc' = "sendfile" <=> file' # Nothing
<1> USE RequestAssumption
<1>1. /\ fs \in Resources /\ file \in OpenFiles \cup {Nothing}
      /\ pc = "sendfile" <=> file # Nothing
  BY DEF TypeOK
<1>2. CASE Create
  BY <1>1, <1>2 DEF Create, Become
<1>3. CASE Remove
  BY <1>1, <1>3 DEF Remove, Become, OpenFiles, Resources
<1>4. CASE Resize
  <2>1. PICK n \in 0 .. MaxSize :
          /\ fs' = [fs EXCEPT !.size = n]
          /\ file' = IF file # Nothing /\ file.linked THEN [file EXCEPT !.size = n] ELSE file
    BY <1>4 DEF Resize, Become
  <2>2. fs \in [kind : {"file", "dir"}, readable : BOOLEAN, size : 0 .. MaxSize]
    BY <1>1, <1>4, ResourceShape DEF Resize, None
  <2>3. fs' \in Resources
    BY <2>1, <2>2 DEF Resources
  <2>4. file' \in OpenFiles \cup {Nothing} /\ (file' = Nothing <=> file = Nothing)
    BY <1>1, <2>1 DEF OpenFiles
  <2> QED
    BY <1>1, <1>4, <2>3, <2>4 DEF Resize, Become
<1>5. CASE Chmod
  <2>1. fs \in [kind : {"file", "dir"}, readable : BOOLEAN, size : 0 .. MaxSize]
    BY <1>1, <1>5, ResourceShape DEF Chmod
  <2> QED
    BY <1>1, <1>5, <2>1 DEF Chmod, Become, Resources
<1>6. CASE OpenFile
  <2>1. CASE fs.readable
    <3>1. fs.kind \in {"file", "dir"} /\ fs.size \in 0 .. MaxSize
      BY <1>1, <2>1, ResourceShape
    <3>2. fs' = fs /\ file' = [linked |-> TRUE, kind |-> fs.kind, size |-> fs.size]
      BY <1>6, <2>1 DEF OpenFile, fsVars
    <3>3. file' \in OpenFiles
      BY <3>1, <3>2 DEF OpenFiles
    <3> QED
      BY <1>1, <1>6, <2>1, <3>2, <3>3 DEF OpenFile
  <2>2. CASE ~fs.readable
    BY <1>1, <1>6, <2>2 DEF OpenFile, fsVars
  <2> QED
    BY <2>1, <2>2
<1>7. CASE SendFileEnds
  BY <1>1, <1>7 DEF SendFileEnds, Move, fsVars
<1>8. CASE UNCHANGED <<fs, file>> /\ (pc' = "sendfile" <=> pc = "sendfile")
  BY <1>1, <1>8
<1> QED
  BY <1>2, <1>3, <1>4, <1>5, <1>6, <1>7, <1>8
  DEF Next, Handler, Others, vars, fsVars, Arrive, Leave, Recv, Process, GetFile,
      GetFileListing, SendHeader, SendHeaderEnds, SendFile, SendFileTurns, Rate, Close, Move

\* A step leaves every variable its type.
LEMMA TypeStep ==
  ASSUME IInv, [Next]_vars
  PROVE  TypeOK'
<1> USE RequestAssumption
    DEF IInv, Next, Handler, Others, vars, fsVars, clientVars, rspVars, Arrive, Leave,
       Create, Remove, Resize, Chmod, Become, Recv, Process, GetFile,
       GetFileListing, SendHeader, SendHeaderEnds, OpenFile, SendFile,
       SendFileTurns, SendFileEnds, Rate, Close, Move
<1>1. (changes \in 0 .. MaxChanges)'
  <2>1. changes' = changes \/ (changes < MaxChanges /\ changes' = changes + 1)
    OBVIOUS
  <2>2. changes \in 0 .. MaxChanges
    BY DEF TypeOK
  <2> HIDE DEF Next, IInv
  <2> QED
    BY <2>1, <2>2
<1>2. /\ (wants \in {"GET", "HEAD"})' /\ (uri \in {"plain", "encoded", "long"})'
      /\ (arrived \in {"none", "part", "whole"})'
  BY DEF TypeOK
<1>3. (pc \in {"recv", "process", "stat", "list", "header", "open", "sendfile", "rate",
               "close", "done", "crashed"})'
  BY DEF TypeOK
<1>4. (recv_ret \in {"no", "closed", "error", "part", "data"})'
  BY DEF TypeOK
<1>5. (m_method \in {"", "GET", "HEAD"})'
  BY DEF TypeOK, ParsedMethod
<1>6. (m_status \in {"200", "404", "405", "GEN_ERR"})'
  BY DEF TypeOK
<1>7. (rated \in {"no", "good", "bad"})'
  BY DEF TypeOK
<1>8. gone' \in BOOLEAN
  BY DEF TypeOK
<1>9. m_rsp_filename' \in BOOLEAN
  BY DEF TypeOK
<1>10. missed' \in BOOLEAN
  BY DEF TypeOK
<1>11. (m_len \in 0 .. MaxSize)'
  <2>1. m_len' = m_len \/ m_len' = fs.size
    OBVIOUS
  <2> HIDE DEF Next
  <2> QED
    BY <2>1, ResourceShape DEF TypeOK
<1>12. (head \in 0 .. HeadSize)'
  <2>1. head' = head \/ \E n \in 1 .. HeadSize - head : head' = head + n
    OBVIOUS
  <2>2. head \in 0 .. HeadSize
    BY DEF TypeOK
  <2> HIDE DEF Next, IInv
  <2> QED
    BY <2>1, <2>2
<1>13. total' \in Nat
  <2>1. total' = total \/ \E n \in 1 .. m_len - total : total' = total + n
    OBVIOUS
  <2>2. total \in Nat /\ m_len \in 0 .. MaxSize
    BY DEF TypeOK
  <2> HIDE DEF Next, IInv
  <2> QED
    BY <2>1, <2>2
<1> HIDE DEF Next
<1> QED
  BY <1>1, <1>2, <1>3, <1>4, <1>5, <1>6, <1>7, <1>8, <1>9, <1>10, <1>11, <1>12, <1>13,
     ResourceStep
  DEF TypeOK

\* A step answers by the method it has parsed.
LEMMA AnswerStep ==
  ASSUME IInv, [Next]_vars
  PROVE  Answer'
<1> USE DEF IInv, Next, Handler, Others, vars, fsVars, clientVars, rspVars, Arrive, Leave,
            Create, Remove, Resize, Chmod, Become, Recv, Process, GetFile,
            GetFileListing, SendHeader, SendHeaderEnds, OpenFile, SendFile,
            SendFileTurns, SendFileEnds, Rate, Close, Move
<1>1. (pc = "recv" => recv_ret = "no")'
  BY DEF Answer
<1>2. (pc # "recv" => m_method = ParsedMethod(recv_ret))'
  BY DEF Answer, ParsedMethod
<1>3. (pc \in {"recv", "process", "stat", "list"} => m_status = "GEN_ERR")'
  BY DEF Answer
<1>4. (pc \in {"stat", "list"} => m_method = "GET")'
  BY DEF Answer
<1>5. (m_rsp_filename => m_status = "200")'
  BY DEF Answer, Sent
<1>6. (pc \in {"header", "open", "sendfile", "rate"} =>
          (m_status = "405" <=> m_method # "GET"))'
  BY DEF Answer
<1> HIDE DEF Next, IInv
<1> QED
  BY <1>1, <1>2, <1>3, <1>4, <1>5, <1>6 DEF Answer

\* A step sends no more than it should.
LEMMA SentStep ==
  ASSUME IInv, [Next]_vars
  PROVE  Sent' /\ BodyWithinLength'
<1> USE DEF IInv, Next, Handler, Others, vars, fsVars, clientVars, rspVars, Arrive, Leave,
            Create, Remove, Resize, Chmod, Become, Recv, Process, GetFile,
            GetFileListing, SendHeader, SendHeaderEnds, OpenFile, SendFile,
            SendFileTurns, SendFileEnds, Rate, Close, Move
<1>1. (~m_rsp_filename => m_len = 0 /\ total = 0)'
  BY DEF Sent
<1>2. (pc \in {"recv", "process", "stat", "list"} => ~m_rsp_filename /\ head = 0)'
  BY DEF Sent
<1>3. (pc = "header" => total = 0 /\ head < HeadSize)'
  <2>1. pc' = "header" =>
          \/ /\ pc \in {"process", "stat", "list", "header"}
             /\ UNCHANGED <<head, total>>
          \/ pc = "header" /\ head' < HeadSize /\ total' = total
    OBVIOUS
  <2> HIDE DEF Next
  <2> QED
    BY <2>1, RequestAssumption DEF Sent
<1>4. (pc \in {"open", "sendfile"} => m_rsp_filename /\ head = HeadSize)'
  <2>1. pc' \in {"open", "sendfile"} =>
          \/ /\ pc \in {"open", "sendfile"}
             /\ UNCHANGED <<m_rsp_filename, head>>
          \/ /\ m_rsp_filename' /\ ~(head' < HeadSize)
             /\ \E n \in 1 .. HeadSize - head : head' = head + n
    OBVIOUS
  <2>2. head \in 0 .. HeadSize
    BY DEF TypeOK
  <2> HIDE DEF Next
  <2> QED
    BY <2>1, <2>2, RequestAssumption DEF Sent
<1>5. (pc = "open" => total = 0)'
  BY DEF Sent
<1>6. (total <= m_len)'
  <2>1. \/ UNCHANGED <<total, m_len>>
        \/ pc = "stat" /\ total' = total /\ m_len' = fs.size
        \/ \E n \in 1 .. m_len - total : total' = total + n /\ m_len' = m_len
    OBVIOUS
  <2>2. fs.size \in 0 .. MaxSize /\ m_len \in 0 .. MaxSize /\ total \in Nat
    BY ResourceShape DEF TypeOK
  <2> HIDE DEF Next
  <2> QED
    BY <2>1, <2>2, RequestAssumption DEF Sent, BodyWithinLength
<1>7. (total > 0 => head = HeadSize)'
  BY DEF Sent, BodyWithinLength
<1>8. (pc = "header" /\ ~Built => head = 0)'
  <2>1. pc' = "header" =>
          \/ pc \in {"process", "stat", "list"} /\ head' = head
          \/ pc = "header" /\ m_status' = m_status /\ (~Built => head' = head)
    BY DEF Built
  <2> HIDE DEF Next
  <2> QED
    BY <2>1 DEF Sent, Built
<1> HIDE DEF Next, IInv
<1> QED
  BY <1>1, <1>2, <1>3, <1>4, <1>5, <1>6, <1>7, <1>8 DEF Sent, BodyWithinLength

\* What the others do to the resource shows in missed, or leaves its kind.
LEMMA OthersStep ==
  ASSUME TypeOK, Others
  PROVE  /\ fs' = None => missed'
         /\ missed => missed'
         /\ fs # None /\ ~missed' => fs'.kind = fs.kind
         /\ fs = None => missed' = missed
         /\ file' = Nothing <=> file = Nothing
         /\ file # Nothing => file'.kind = file.kind
         /\ UNCHANGED <<uri, pc, m_rsp_filename, m_status>>
<1>1. fs \in Resources /\ file \in OpenFiles \cup {Nothing} /\ missed \in BOOLEAN
  BY DEF TypeOK
<1>2. fs # None => fs \in [kind : {"file", "dir"}, readable : BOOLEAN, size : 0 .. MaxSize]
  BY <1>1, ResourceShape
<1>3. UNCHANGED <<uri, pc, m_rsp_filename, m_status>>
  BY DEF Others, Create, Remove, Resize, Chmod, Become, rspVars, clientVars
<1>4. missed' = (missed \/ fs' = None)
  BY DEF Others, Create, Remove, Resize, Chmod, Become
<1>5. fs = None => fs' # None
  BY DEF Others, Create, Remove, Resize, Chmod, Become, None
<1>6. fs # None => fs' = None \/ fs'.kind = fs.kind
  BY <1>2 DEF Others, Create, Remove, Resize, Chmod, Become
<1>7. \/ file' = file
      \/ file # Nothing /\ file' = [file EXCEPT !.linked = FALSE]
      \/ \E n \in 0 .. MaxSize : file # Nothing /\ file' = [file EXCEPT !.size = n]
  BY DEF Others, Create, Remove, Resize, Chmod
<1>8. file' = Nothing <=> file = Nothing
  BY <1>1, <1>7, RequestAssumption DEF OpenFiles
<1>9. file # Nothing => file'.kind = file.kind
  BY <1>1, <1>7 DEF OpenFiles
<1> QED
  BY <1>1, <1>3, <1>4, <1>5, <1>6, <1>8, <1>9

\* get_file_listing finds ENOENT only for a resource that is not there, or for
\* the undecoded name of one that is.
LEMMA ListingFinds ==
  ASSUME NEW at \in Undecoded, "ENOENT" \in Errnos(at), TypeOK
  PROVE  fs = None \/ uri = "encoded"
<1>1. uri \in {"plain", "encoded", "long"}
  BY DEF TypeOK
<1>2. at = None \/ (at = TooLong /\ uri = "encoded")
  BY DEF Errnos
<1>3. TooLong.kind = "long" /\ None.kind = "none"
  BY DEF TooLong, None
<1>4. CASE uri = "plain"
  BY <1>2, <1>4 DEF Undecoded
<1>5. CASE uri = "long"
  BY <1>2, <1>3, <1>5 DEF Undecoded
<1> QED
  BY <1>1, <1>4, <1>5

\* A step misses no absence.
LEMMA PresentStep ==
  ASSUME IInv, [Next]_vars
  PROVE  Present' /\ NotFoundMeansMissing'
<1> USE DEF IInv
<1>1. CASE Others
  <2>1. None.kind # "dir"
    BY DEF None
  <2> QED
    BY <1>1, <2>1, OthersStep DEF Present, NotFoundMeansMissing
<1>2. CASE Recv
  BY <1>2 DEF Recv, clientVars, rspVars, Present, Sent, Answer, TypeOK, NotFoundMeansMissing
<1>3. CASE Process
  <2>1. fs # None /\ fs.kind # "file" => fs.kind = "dir"
    BY ResourceShape DEF TypeOK
  <2>2. /\ UNCHANGED <<fs, missed, uri, m_rsp_filename, file>>
        /\ pc = "process" /\ pc' \in {"header", "stat", "list"}
        /\ pc' = "stat" => fs.kind = "file"
        /\ pc' = "list" /\ uri # "long" => fs.kind # "file"
        /\ m_status' # "404"
    BY <1>3 DEF Process, IsFile, fsVars, clientVars, Answer
  <2> HIDE DEF IInv
  <2> QED
    BY <2>1, <2>2 DEF IInv, Present, Sent, NotFoundMeansMissing
<1>4. CASE GetFile
  <2>1. m_status' = "404" => fs = None
    BY <1>4 DEF GetFile
  <2>2. /\ UNCHANGED <<fs, missed, file>>
        /\ pc = "stat" /\ pc' = "header"
    BY <1>4 DEF GetFile, Move, fsVars
  <2> QED
    BY <2>1, <2>2 DEF Present, NotFoundMeansMissing
<1>5. CASE GetFileListing
  <2>1. /\ UNCHANGED <<fs, missed, uri, m_rsp_filename, file>>
        /\ pc = "list" /\ pc' \in {"header", "crashed"} /\ m_status = "GEN_ERR"
    BY <1>5 DEF GetFileListing, fsVars, clientVars, Answer
  <2>2. m_status' = "404" => \E at \in Undecoded : "ENOENT" \in Errnos(at)
    BY <1>5, <2>1 DEF GetFileListing
  <2>3. m_status' = "404" => fs = None \/ uri = "encoded"
    BY <2>2, ListingFinds
  <2> QED
    BY <2>1, <2>3 DEF Present, Sent, NotFoundMeansMissing
<1>6. CASE OpenFile
  <2>1. /\ UNCHANGED <<fs, missed, uri, m_rsp_filename, m_status>>
        /\ pc = "open" /\ pc' \in {"sendfile", "crashed"}
        /\ file' = file \/ file'.kind = fs.kind
    BY <1>6 DEF OpenFile, fsVars, rspVars, clientVars
  <2> QED
    BY <2>1 DEF Present, Sent, NotFoundMeansMissing
<1>7. CASE UNCHANGED <<fs, missed, uri, m_rsp_filename, m_status, file, pc>>
  BY <1>7 DEF Present, NotFoundMeansMissing
<1>8. CASE /\ UNCHANGED <<fs, missed, uri, m_rsp_filename, m_status>>
           /\ file' \in {file, Nothing}
           /\ pc \in {"header", "sendfile", "rate", "close"}
           /\ pc' \notin {"recv", "stat", "list"}
  BY <1>8 DEF Present, NotFoundMeansMissing
<1> QED
  BY <1>1, <1>2, <1>3, <1>4, <1>5, <1>6, <1>7, <1>8
  DEF Next, Handler, SendHeader, SendHeaderEnds, SendFile, SendFileTurns, SendFileEnds,
      Rate, Close, Move, Arrive, Leave, vars, fsVars, rspVars, clientVars

\* A step rates once.
LEMMA RatingStep ==
  ASSUME IInv, [Next]_vars
  PROVE  Rating'
<1> USE DEF IInv, Next, Handler, Others, vars, fsVars, clientVars, rspVars, Arrive, Leave,
            Create, Remove, Resize, Chmod, Become, Recv, Process, GetFile,
            GetFileListing, SendHeader, SendHeaderEnds, OpenFile, SendFile,
            SendFileTurns, SendFileEnds, Rate, Close, Move
<1>1. (pc \notin {"close", "done"} => rated = "no")'
  BY DEF Rating
<1>2. (pc \in {"close", "done"} => (rated = "no" <=> recv_ret = "closed"))'
  BY DEF Rating
<1>3. (recv_ret = "closed" => pc \in {"close", "done"})'
  BY DEF Rating, TypeOK, Answer
<1> HIDE DEF Next, IInv
<1> QED
  BY <1>1, <1>2, <1>3 DEF Rating

\* What is sent are numbers.
LEMMA Numbers ==
  ASSUME TypeOK
  PROVE  /\ head \in Nat /\ total \in Nat /\ m_len \in Nat /\ HeadSize \in Nat
         /\ fs.size \in Nat
<1>1. head \in 0 .. HeadSize /\ total \in Nat /\ m_len \in 0 .. MaxSize /\ fs \in Resources
  BY DEF TypeOK
<1> QED
  BY <1>1, ResourceShape, RequestAssumption

\* A step to the rating leaves nothing out, unless the client or the file went.
LEMMA DeliveredStep ==
  ASSUME IInv, [Next]_vars
  PROVE  BodyIsWhole'
<1> USE DEF IInv
<1>1. CASE /\ UNCHANGED <<pc, m_status, m_rsp_filename, m_len, head, total>>
           /\ gone => gone'
           /\ missed => missed'
  BY <1>1 DEF BodyIsWhole, Built
<1>2. CASE Recv
  BY <1>2 DEF Recv, clientVars, rspVars, Sent, Answer, BodyIsWhole, Built
<1>3. CASE Process \/ GetFile \/ GetFileListing \/ OpenFile \/ SendFile
  <2>1. pc' \notin {"rate", "close", "done"}
    BY <1>3 DEF Process, GetFile, GetFileListing, OpenFile, SendFile, Move
  <2> QED
    BY <2>1 DEF BodyIsWhole
<1>4. CASE SendHeader
  <2>1. /\ UNCHANGED <<m_status, m_rsp_filename, total>>
        /\ pc = "header"
        /\ pc' = "rate" => ~m_rsp_filename
        /\ pc' \in {"header", "open", "rate"}
        /\ \E n \in 1 .. HeadSize - head : head' = head + n
    BY <1>4 DEF SendHeader, rspVars
  <2>2. total = 0 /\ head \in Int
    BY <2>1, Numbers DEF Sent
  <2> HIDE DEF IInv
  <2> QED
    BY <2>1, <2>2, RequestAssumption DEF BodyIsWhole
<1>5. CASE SendHeaderEnds
  <2>1. /\ UNCHANGED <<m_status, m_rsp_filename, m_len, head, total, gone>>
        /\ pc = "header"
        /\ Built => gone
    BY <1>5 DEF SendHeaderEnds, Move, rspVars, clientVars
  <2>2. total = 0 /\ (~Built => head = 0) /\ (m_rsp_filename => Built)
    BY <2>1 DEF Sent, Answer, Built
  <2> HIDE DEF IInv
  <2> QED
    BY <2>1, <2>2 DEF BodyIsWhole, Built
<1>6. CASE SendFileEnds
  <2>1. /\ UNCHANGED <<m_status, m_rsp_filename, m_len, head, total, gone, missed>>
        /\ pc = "sendfile"
        /\ FileSent \/ gone \/ file.kind = "dir"
    BY <1>6 DEF SendFileEnds, FileEnds, Move, rspVars, fsVars, clientVars
  <2>2. file.kind = "dir" => missed
    BY <2>1 DEF Present, TypeOK
  <2>3. /\ m_rsp_filename
        /\ head = HeadSize /\ total <= m_len
        /\ total \in Nat /\ m_len \in Nat /\ HeadSize \in Nat
    BY <2>1, Numbers DEF Sent, BodyWithinLength
  <2> HIDE DEF IInv
  <2> QED
    BY <2>1, <2>2, <2>3 DEF BodyIsWhole, FileSent
<1>7. CASE Rate \/ Close
  BY <1>7 DEF Rate, Close, Move, rspVars, fsVars, clientVars, BodyIsWhole, Built
<1>8. CASE Others
  <2>1. missed => missed'
    BY <1>8, OthersStep
  <2>2. UNCHANGED <<pc, m_status, m_rsp_filename, m_len, head, total, gone>>
    BY <1>8 DEF Others, Create, Remove, Resize, Chmod, Become, rspVars, clientVars
  <2> QED
    BY <1>1, <2>1, <2>2
<1>9. CASE SendFileTurns \/ Arrive \/ Leave \/ UNCHANGED vars
  BY <1>1, <1>9 DEF SendFileTurns, Arrive, Leave, vars, fsVars, rspVars
<1> QED
  BY <1>2, <1>3, <1>4, <1>5, <1>6, <1>7, <1>8, <1>9 DEF Next, Handler

-----------------------------------------------------------------------------
(***************************************************************************)
(* The theorems.                                                           *)
(***************************************************************************)
\* The invariant holds before the client sends anything.
LEMMA InitIInv == Init => IInv
<1> SUFFICES ASSUME Init PROVE IInv
  OBVIOUS
<1>1. TypeOK
  <2>1. /\ changes \in 0 .. MaxChanges /\ m_len \in 0 .. MaxSize /\ head \in 0 .. HeadSize
        /\ total \in Nat
    <3>1. changes = 0 /\ m_len = 0 /\ head = 0 /\ total = 0
      BY DEF Init
    <3>2. HeadSize \in Nat /\ MaxSize \in Nat /\ MaxChanges \in Nat
      BY RequestAssumption
    <3> QED
      BY <3>1, <3>2
  <2>2. gone \in BOOLEAN /\ m_rsp_filename \in BOOLEAN /\ missed \in BOOLEAN
    BY DEF Init
  <2> QED
    BY <2>1, <2>2 DEF Init, TypeOK
<1>2. Answer /\ Sent /\ Present /\ Rating
  BY DEF Init, Answer, Sent, Present, Rating
<1>3. BodyWithinLength
  <2>1. total = 0 /\ m_len = 0
    BY DEF Init
  <2> QED
    BY <2>1 DEF BodyWithinLength
<1>4. BodyIsWhole /\ NotFoundMeansMissing
  BY DEF Init, BodyIsWhole, NotFoundMeansMissing
<1> QED
  BY <1>1, <1>2, <1>3, <1>4 DEF IInv

\* The inductive invariant: it holds in every state of a request.
THEOREM Invariance == Spec => []IInv
<1>1. Init => IInv
  BY InitIInv
<1>2. IInv /\ [Next]_vars => IInv'
  BY TypeStep, AnswerStep, SentStep, PresentStep, RatingStep, DeliveredStep DEF IInv
<1> QED
  BY <1>1, <1>2, PTL DEF Spec

\* What the request, the response and the send keep has its type.
THEOREM TypeCorrect == Spec => []TypeOK
<1>1. IInv => TypeOK
  BY DEF IInv
<1> QED
  BY <1>1, Invariance, PTL

\* send_file never sends more than the Content-Length, nor before the header,
\* whatever happens to the file.
THEOREM NeverTooMuch == Spec => []BodyWithinLength
<1>1. IInv => BodyWithinLength
  BY DEF IInv
<1> QED
  BY <1>1, Invariance, PTL

\* The handler of a client that stays does not come to the rating before it has
\* sent the whole of a file that stays.
THEOREM NeverTooLittle == Spec => []BodyIsWhole
<1>1. IInv => BodyIsWhole
  BY DEF IInv
<1> QED
  BY <1>1, Invariance, PTL

\* _handle_connection rates a connection once, and only one that sent anything.
THEOREM RatedOnce == Spec => []RatedOnceServed
<1>1. IInv => RatedOnceServed
  BY DEF IInv, Rating, RatedOnceServed
<1> QED
  BY <1>1, Invariance, PTL

\* A 404 is about something that was not there, whatever check_if_file, stat and
\* the listing see between them and errno holds, or about a directory whose uri
\* has a %20, which get_file_listing does not decode.
THEOREM AbsenceIsTrue == Spec => []NotFoundMeansMissing
<1>1. IInv => NotFoundMeansMissing
  BY DEF IInv
<1> QED
  BY <1>1, Invariance, PTL

\* The file system answers none but a GET whose line came in whole.
THEOREM OnlyWholeGets == Spec => []OnlyWholeGetsServed
<1>1. ASSUME IInv, pc \in {"header", "open", "sendfile", "rate"}
      PROVE  m_status = "405" <=> ~(wants = "GET" /\ recv_ret = "data")
  BY <1>1 DEF IInv, Answer, ParsedMethod
<1>2. IInv => OnlyWholeGetsServed
  BY <1>1 DEF OnlyWholeGetsServed
<1> QED
  BY <1>2, Invariance, PTL
=============================================================================
