------------------------------ MODULE HttpText ------------------------------
(***************************************************************************)
(* What becomes of the bytes of a request: recv's buffer, the lines        *)
(* recv_req cuts it into (http.cpp) and what parse reads in them           *)
(* (http_req.cpp), for texts in a few characters: "LF", "CR", "NUL", "SP", *)
(* ":" and letters.  "SP" is a space, a name the SMT backend can take.     *)
(***************************************************************************)
EXTENDS Naturals, SequencesExt

CONSTANT DEFAULT_BUFFER_SIZE

ASSUME HttpTextAssumption == DEFAULT_BUFFER_SIZE \in Nat \ {0}

CRLF == <<"CR", "LF">>

\* recv: the buffer has its full size, whatever came, and the rest is zero.
Buffer(text) ==
  [i \in 1 .. DEFAULT_BUFFER_SIZE |-> IF i <= Len(text) THEN text[i] ELSE "NUL"]

-----------------------------------------------------------------------------
(***************************************************************************)
(* recv_req.                                                               *)
(***************************************************************************)
\* A turn of the loop over the buffer: a line is pushed by the character after
\* its LF.
CutChar(st, ch) ==
  IF st.new_line_begin
    THEN [lines |-> Append(st.lines, st.temp_str), temp_str |-> <<ch>>,
          new_line_begin |-> ch = "LF"]
    ELSE [lines |-> st.lines, temp_str |-> Append(st.temp_str, ch),
          new_line_begin |-> ch = "LF"]

NothingCut == [lines |-> <<>>, temp_str |-> <<>>, new_line_begin |-> FALSE]

Cut == INSTANCE Loop WITH Turn <- CutChar

\* CutLines that pushes what is left over, too.
CutLinesAll(text) ==
  LET cut == Cut!Result(NothingCut, Buffer(text))
  IN  Append(cut.lines, cut.temp_str)

\* CutLines that starts at the buffer's second character.
CutLinesLate(text) == Cut!Result(NothingCut, Tail(Buffer(text))).lines

CutLines(text) == Cut!Result(NothingCut, Buffer(text)).lines

-----------------------------------------------------------------------------
(***************************************************************************)
(* HTTPRequest::parse.                                                     *)
(***************************************************************************)
\* _parse_http_method: three words, each ended by one space; the rest of the
\* line is left alone.
MethodChar(st, ch) ==
  IF ch = "SP" THEN [word |-> st.word + 1, words |-> st.words]
  ELSE IF st.word > 3 THEN st
  ELSE [word |-> st.word, words |-> [st.words EXCEPT ![st.word] = Append(@, ch)]]

NoWords == [word |-> 1, words |-> [i \in 1 .. 3 |-> <<>>]]

Method == INSTANCE Loop WITH Turn <- MethodChar

ParseHttpMethod(line) ==
  LET last == Method!Result(NoWords, line)
  IN  [m_method |-> last.words[1], m_uri |-> last.words[2], m_ver |-> last.words[3]]

\* _split_line_colon: up to the first colon, and from the first character
\* after it that is no space up to a CR.
SplitLineColon(line) ==
  LET step(st, ch) ==
        CASE st.at = "first" -> IF ch = ":" THEN [st EXCEPT !.at = "spaces"]
                                ELSE [st EXCEPT !.first = Append(@, ch)]
          [] st.at = "spaces" /\ ch = "SP" -> st
          [] st.at = "end" \/ (st.at # "first" /\ ch = "CR") -> [st EXCEPT !.at = "end"]
          [] OTHER -> [st EXCEPT !.at = "second", !.second = Append(@, ch)]
      last == FoldLeft(step, [at |-> "first", first |-> <<>>, second |-> <<>>], line)
  IN  <<last.first, last.second>>

\* A turn of parse: the first line, header lines up to an empty one, and the
\* body.  Of two headers of one name std::map keeps the first.
ParseLine(st, line) ==
  CASE st.at = "first" -> [st EXCEPT !.at = "header", !.method = ParseHttpMethod(line)]
    [] st.at = "header" /\ line = CRLF -> [st EXCEPT !.at = "body"]
    [] st.at = "header" /\ line # CRLF ->
         LET field == SplitLineColon(line)
         IN  IF \E f \in st.m_header : f[1] = field[1] THEN st
             ELSE [st EXCEPT !.m_header = @ \cup {field}]
    [] OTHER -> [st EXCEPT !.m_body = Append(@, line)]

NothingParsed ==
  [at |-> "first", method |-> ParseHttpMethod(<<>>), m_header |-> {}, m_body |-> <<>>]

Parsing == INSTANCE Loop WITH Turn <- ParseLine

Parse(lines) == Parsing!Result(NothingParsed, lines)

-----------------------------------------------------------------------------
(***************************************************************************)
(* What they promise, of a text.                                           *)
(***************************************************************************)
IndexesOf(ch, text) == {i \in DOMAIN text : text[i] = ch}

\* The lines are the pieces of the text up to each line feed that recv took,
\* in order and whole; only a line feed that is the last character of a full
\* buffer ends no line.
LinesAreTheText(text) ==
  LET buffer == Buffer(text)
      lines == CutLines(text)
      flat == FlattenSeq(lines)
  IN  /\ \A i \in DOMAIN lines : IndexesOf("LF", lines[i]) = {Len(lines[i])}
      /\ IsPrefix(flat, buffer)
      /\ \A i \in IndexesOf("LF", buffer) : i > Len(flat) => i = DEFAULT_BUFFER_SIZE
=============================================================================
