----------------------------- MODULE TextProofs -----------------------------
(***************************************************************************)
(* Proofs about the texts: whatever the characters, however long a request *)
(* and however large the buffer of recv.  All of it is about loops, and    *)
(* rests on what LoopProofs knows of any loop.                             *)
(***************************************************************************)
EXTENDS MCText, TLAPS

CutTurns == INSTANCE LoopProofs WITH Turn <- CutChar

ParsingTurns == INSTANCE LoopProofs WITH Turn <- ParseLine

-----------------------------------------------------------------------------
(***************************************************************************)
(* Sequences.                                                              *)
(***************************************************************************)
\* A prefix, index by index.
LEMMA Prefix ==
  ASSUME NEW S, NEW s \in Seq(S), NEW t \in Seq(S)
  PROVE  IsPrefix(s, t) <=> /\ Len(s) <= Len(t)
                            /\ \A i \in 1 .. Len(s) : s[i] = t[i]
<1>1. ASSUME IsPrefix(s, t)
      PROVE  Len(s) <= Len(t) /\ \A i \in 1 .. Len(s) : s[i] = t[i]
  <2>1. Len(s) <= Len(t) /\ SubSeq(s, 1, Len(s)) = SubSeq(t, 1, Len(s))
    BY <1>1 DEF IsPrefix
  <2>2. ASSUME NEW i \in 1 .. Len(s) PROVE s[i] = t[i]
    <3>1. SubSeq(s, 1, Len(s))[i] = s[i]
      OBVIOUS
    <3>2. SubSeq(t, 1, Len(s))[i] = t[i]
      BY <2>1
    <3> QED
      BY <2>1, <3>1, <3>2
  <2> QED
    BY <2>1, <2>2
<1>2. ASSUME Len(s) <= Len(t), \A i \in 1 .. Len(s) : s[i] = t[i]
      PROVE  IsPrefix(s, t)
  <2>1. SubSeq(s, 1, Len(s)) = SubSeq(t, 1, Len(s))
    BY <1>2
  <2> QED
    BY <1>2, <2>1 DEF IsPrefix
<1> QED
  BY <1>1, <1>2

\* A sequence is a prefix of itself and of what is appended to one it is a
\* prefix of.
LEMMA PrefixGrows ==
  ASSUME NEW S, NEW s \in Seq(S), NEW t \in Seq(S)
  PROVE  /\ IsPrefix(s, s)
         /\ IsPrefix(s, t) => \A x \in S : IsPrefix(s, Append(t, x))
<1>1. IsPrefix(s, s)
  BY Prefix
<1>2. ASSUME IsPrefix(s, t), NEW x \in S PROVE IsPrefix(s, Append(t, x))
  <2>1. Len(s) <= Len(t) /\ \A i \in 1 .. Len(s) : s[i] = t[i]
    BY <1>2, Prefix
  <2>2. Append(t, x) \in Seq(S) /\ Len(Append(t, x)) = Len(t) + 1
    OBVIOUS
  <2>3. \A i \in 1 .. Len(s) : Append(t, x)[i] = t[i]
    BY <2>1
  <2>4. Len(s) <= Len(Append(t, x)) /\ \A i \in 1 .. Len(s) : s[i] = Append(t, x)[i]
    BY <2>1, <2>2, <2>3
  <2> DEFINE u == Append(t, x)
  <2> HIDE DEF u
  <2>5. u \in Seq(S) /\ Len(s) <= Len(u) /\ \A i \in 1 .. Len(s) : s[i] = u[i]
    BY <2>2, <2>4 DEF u
  <2>6. IsPrefix(s, u)
    BY <2>5, Prefix
  <2> QED
    BY <2>6 DEF u
<1> QED
  BY <1>1, <1>2

-----------------------------------------------------------------------------
(***************************************************************************)
(* The lines recv_req cuts.                                                *)
(***************************************************************************)
\* The characters of a buffer.
Chars == RequestChars \cup {"NUL"}

CutStates == [lines : Seq(Seq(Chars)), temp_str : Seq(Chars), new_line_begin : BOOLEAN]

LEMMA BufferType ==
  ASSUME NEW text \in Seq(RequestChars)
  PROVE  /\ Buffer(text) \in Seq(Chars) /\ Len(Buffer(text)) = DEFAULT_BUFFER_SIZE
         /\ \A i \in 1 .. DEFAULT_BUFFER_SIZE :
              Buffer(text)[i] = IF i <= Len(text) THEN text[i] ELSE "NUL"
<1>1. DEFAULT_BUFFER_SIZE \in Nat
  BY HttpTextAssumption
<1>2. \A i \in 1 .. DEFAULT_BUFFER_SIZE :
        (IF i <= Len(text) THEN text[i] ELSE "NUL") \in Chars
  BY DEF Chars
<1> QED
  BY <1>1, <1>2 DEF Buffer

\* The turns over a buffer, with the types of what they leave.
LEMMA CutLoop ==
  ASSUME NEW b \in Seq(Chars)
  PROVE  /\ CutTurns!Turns(NothingCut, b)[0] = NothingCut
         /\ \A n \in 1 .. Len(b) :
              CutTurns!Turns(NothingCut, b)[n] = CutChar(CutTurns!Turns(NothingCut, b)[n - 1], b[n])
         /\ \A n \in 0 .. Len(b) : CutTurns!Turns(NothingCut, b)[n] \in CutStates
         /\ Cut!Result(NothingCut, b) = CutTurns!Turns(NothingCut, b)[Len(b)]
<1>1. NothingCut \in CutStates
  BY DEF NothingCut, CutStates
<1>2. \A st \in CutStates : \A ch \in Chars : CutChar(st, ch) \in CutStates
  BY DEF CutStates, CutChar
<1>3. Len(b) \in Nat /\ \A n \in 1 .. Len(b) : b[n] \in Chars
  OBVIOUS
<1>4. \A n \in 0 .. Len(b) : CutTurns!Turns(NothingCut, b)[n] \in CutStates
  BY <1>1, <1>2, <1>3, CutTurns!TurnsKeep
<1>5. Cut!Result(NothingCut, b) = CutTurns!Result(NothingCut, b)
  BY DEF Cut!Result, Cut!Turns, CutTurns!Result, CutTurns!Turns
<1> QED
  BY <1>3, <1>4, <1>5, CutTurns!TurnsFollow

\* A line that is cut stays, and lines come after it.
LEMMA CutLinesStay ==
  ASSUME NEW b \in Seq(Chars), NEW k \in 0 .. Len(b)
  PROVE  \A n \in k .. Len(b) : IsPrefix(CutTurns!Turns(NothingCut, b)[k].lines, CutTurns!Turns(NothingCut, b)[n].lines)
<1> DEFINE T(n) == CutTurns!Turns(NothingCut, b)[n]
<1> DEFINE A == {st \in CutStates : IsPrefix(T(k).lines, st.lines)}
<1>1. T(k) \in CutStates /\ T(k).lines \in Seq(Seq(Chars))
  BY CutLoop DEF CutStates
<1>2. T(k) \in A
  BY <1>1, PrefixGrows
<1>3. ASSUME NEW st \in A, NEW ch \in Chars PROVE CutChar(st, ch) \in A
  <2>1. st.lines \in Seq(Seq(Chars)) /\ st.temp_str \in Seq(Chars)
    BY DEF CutStates
  <2>2. IsPrefix(T(k).lines, Append(st.lines, st.temp_str))
    BY <1>1, <1>3, <2>1, PrefixGrows
  <2>3. CutChar(st, ch).lines \in {st.lines, Append(st.lines, st.temp_str)}
    BY DEF CutChar
  <2>4. CutChar(st, ch) \in CutStates
    BY DEF CutStates, CutChar
  <2> QED
    BY <1>3, <2>2, <2>3, <2>4
<1>4. \A n \in k .. Len(b) : T(n) \in A
  <2>1. Len(b) \in Nat /\ \A n \in 1 .. Len(b) : b[n] \in Chars
    OBVIOUS
  <2>2. \A st \in A : \A n \in k + 1 .. Len(b) : CutChar(st, b[n]) \in A
    BY <1>3, <2>1
  <2> HIDE DEF A
  <2> QED
    BY <1>2, <2>1, <2>2, CutTurns!TurnsKeepOn
<1> QED
  BY <1>4

\* The lines that are cut of a request without its last character are the first
\* lines of those cut with it: of the zeros after it, only the first one pushes
\* a line, and it is one that any character pushes.
LEMMA FrontLines ==
  ASSUME NEW text \in Seq(RequestChars), text # <<>>
  PROVE  /\ CutLines(text) \in Seq(Seq(Chars)) /\ CutLines(Front(text)) \in Seq(Seq(Chars))
         /\ IsPrefix(CutLines(Front(text)), CutLines(text))
<1> DEFINE D == DEFAULT_BUFFER_SIZE
           m == Len(text) - 1
           b == Buffer(text)
           c == Buffer(Front(text))
           B(n) == CutTurns!Turns(NothingCut, b)[n]
           C(n) == CutTurns!Turns(NothingCut, c)[n]
<1>1. /\ D \in Nat \ {0} /\ m \in Nat /\ Front(text) \in Seq(RequestChars)
      /\ Len(Front(text)) = m /\ \A i \in 1 .. m : Front(text)[i] = text[i]
  <2>1. D \in Nat \ {0} /\ m \in Nat
    BY HttpTextAssumption
  <2>2. /\ SubSeq(text, 1, m) \in Seq(RequestChars) /\ Len(SubSeq(text, 1, m)) = m
        /\ \A i \in 1 .. m : SubSeq(text, 1, m)[i] = text[i]
    <3>1. \A k \in 0 .. Len(text) :
            /\ SubSeq(text, 1, k) \in Seq(RequestChars) /\ Len(SubSeq(text, 1, k)) = k
            /\ \A i \in 1 .. k : SubSeq(text, 1, k)[i] = text[i]
      OBVIOUS
    <3>2. m \in 0 .. Len(text)
      BY <2>1
    <3> HIDE DEF m
    <3> QED
      BY <3>1, <3>2
  <2> QED
    BY <2>1, <2>2 DEF Front
<1>2. /\ b \in Seq(Chars) /\ Len(b) = D
      /\ \A i \in 1 .. D : b[i] = IF i <= Len(text) THEN text[i] ELSE "NUL"
  BY BufferType
<1>3. /\ c \in Seq(Chars) /\ Len(c) = D
      /\ \A i \in 1 .. D : c[i] = IF i <= m THEN Front(text)[i] ELSE "NUL"
  BY <1>1, BufferType
<1>4. \A i \in 1 .. D : i <= m => b[i] = c[i]
  BY <1>1, <1>2, <1>3
<1>5. CutLines(text) = B(D).lines /\ CutLines(Front(text)) = C(D).lines
  BY <1>2, <1>3, CutLoop DEF CutLines
<1>6. \A n \in 0 .. D : B(n) \in CutStates /\ C(n) \in CutStates
  BY <1>2, <1>3, CutLoop
<1>7. B(D).lines \in Seq(Seq(Chars)) /\ C(D).lines \in Seq(Seq(Chars))
  <2>1. B(D) \in CutStates /\ C(D) \in CutStates
    BY <1>1, <1>6
  <2> QED
    BY <2>1 DEF CutStates
<1> HIDE DEF b, c
<1>8. CASE m >= D
  <2>1. \A i \in 1 .. D : b[i] = c[i]
    BY <1>1, <1>4, <1>8
  <2>2. B(D) = C(D)
    BY <1>1, <1>2, <1>3, <2>1, CutTurns!TurnsAgree
  <2> QED
    BY <1>5, <1>7, <2>2, PrefixGrows
<1>9. CASE m < D
  <2>1. m \in 0 .. D /\ m + 1 \in 1 .. D /\ (m + 1) - 1 = m
    BY <1>1, <1>9
  <2>2. B(m) = C(m)
    <3>1. \A i \in 1 .. m : b[i] = c[i]
      BY <1>1, <1>4, <1>9
    <3>2. m \in Nat /\ m <= Len(b) /\ m <= Len(c) /\ Len(b) \in Nat /\ Len(c) \in Nat
      BY <1>1, <1>2, <1>3, <1>9
    <3>3. \A n \in 0 .. m : B(n) = C(n)
      BY <3>1, <3>2, CutTurns!TurnsAgree
    <3> QED
      BY <1>1, <3>3
  <2>3. B(m + 1) = CutChar(B(m), b[m + 1]) /\ C(m + 1) = CutChar(C(m), c[m + 1])
    BY <1>2, <1>3, <2>1, CutLoop
  <2>4. B(m + 1).lines = C(m + 1).lines
    BY <2>2, <2>3 DEF CutChar
  <2>5. c[m + 1] = "NUL"
    BY <1>1, <1>3, <2>1
  <2>6. C(m + 1).new_line_begin = FALSE
    <3>1. CutChar(C(m), "NUL").new_line_begin = ("NUL" = "LF")
      BY DEF CutChar
    <3>2. ("NUL" = "LF") = FALSE
      OBVIOUS
    <3> QED
      BY <2>3, <2>5, <3>1, <3>2
  <2>7. C(D).lines = C(m + 1).lines
    <3> DEFINE A == {st \in CutStates : st.new_line_begin = FALSE /\ st.lines = C(m + 1).lines}
    <3>1. C(m + 1) \in A
      BY <1>6, <2>1, <2>6
    <3>2. ASSUME NEW st \in A, NEW n \in (m + 1) + 1 .. D PROVE CutChar(st, c[n]) \in A
      <4>1. n \in 1 .. D /\ ~(n <= m)
        BY <1>1
      <4>2. c[n] = "NUL" /\ "NUL" \in Chars
        BY <1>3, <4>1 DEF Chars
      <4> QED
        BY <4>2 DEF CutChar, CutStates
    <3>3. m + 1 \in 0 .. Len(c) /\ Len(c) \in Nat
      BY <1>1, <1>3, <2>1
    <3>4. \A n \in m + 1 .. Len(c) : C(n) \in A
      <4> HIDE DEF A
      <4> QED
        BY <1>3, <3>1, <3>2, <3>3, CutTurns!TurnsKeepOn
    <3> QED
      BY <1>1, <1>3, <2>1, <3>4
  <2>8. IsPrefix(B(m + 1).lines, B(D).lines)
    <3>1. m + 1 \in 0 .. Len(b) /\ D \in m + 1 .. Len(b)
      BY <1>1, <1>2, <2>1
    <3> QED
      BY <1>2, <3>1, CutLinesStay
  <2> QED
    BY <1>5, <1>7, <2>4, <2>7, <2>8
<1> QED
  BY <1>1, <1>5, <1>7, <1>8, <1>9

-----------------------------------------------------------------------------
(***************************************************************************)
(* What parse reads in the lines.                                          *)
(***************************************************************************)
\* A record of what is parsed, from lines of L.
IsParsed(st, L) ==
  /\ st = [at |-> st.at, method |-> st.method, m_header |-> st.m_header, m_body |-> st.m_body]
  /\ st.m_body \in Seq(L)

\* What is read in st stands in t.
Stands(st, t) ==
  /\ st.at # "first" => t.at # "first" /\ t.method = st.method
  /\ st.m_header \subseteq t.m_header
  /\ IsPrefix(st.m_body, t.m_body)

\* A further line leaves what is read as it is.
LEMMA ParseLineStands ==
  ASSUME NEW L, NEW line \in L, NEW st, IsParsed(st, L), NEW t, IsParsed(t, L), Stands(st, t)
  PROVE  IsParsed(ParseLine(t, line), L) /\ Stands(st, ParseLine(t, line))
<1>1. /\ t = [at |-> t.at, method |-> t.method, m_header |-> t.m_header, m_body |-> t.m_body]
      /\ t.m_body \in Seq(L) /\ st.m_body \in Seq(L)
  BY DEF IsParsed
<1>2. Append(t.m_body, line) \in Seq(L) /\ IsPrefix(st.m_body, Append(t.m_body, line))
  BY <1>1, PrefixGrows DEF Stands
<1>3. CASE t.at = "first"
  <2>1. ParseLine(t, line) = [t EXCEPT !.at = "header", !.method = ParseHttpMethod(line)]
    BY <1>3 DEF ParseLine
  <2> QED
    BY <1>1, <1>3, <2>1 DEF IsParsed, Stands
<1>4. CASE t.at = "header" /\ line = CRLF
  <2>1. ParseLine(t, line) = [t EXCEPT !.at = "body"]
    BY <1>4 DEF ParseLine
  <2> QED
    BY <1>1, <1>4, <2>1 DEF IsParsed, Stands
<1>5. CASE t.at = "header" /\ line # CRLF
  <2> DEFINE field == SplitLineColon(line)
  <2>1. ParseLine(t, line) \in {t, [t EXCEPT !.m_header = @ \cup {field}]}
    BY <1>5 DEF ParseLine
  <2> HIDE DEF field
  <2> QED
    BY <1>1, <1>5, <2>1 DEF IsParsed, Stands
<1>6. CASE t.at \notin {"first", "header"}
  <2>1. ParseLine(t, line) = [t EXCEPT !.m_body = Append(@, line)]
    BY <1>6 DEF ParseLine
  <2> QED
    BY <1>1, <1>2, <1>6, <2>1 DEF IsParsed, Stands
<1> QED
  BY <1>3, <1>4, <1>5, <1>6

\* What is read in some lines stands when there are more.
LEMMA ParseStands ==
  ASSUME NEW L, NEW u \in Seq(L), NEW v \in Seq(L), IsPrefix(u, v)
  PROVE  Stands(Parse(u), Parse(v))
<1> DEFINE T(n) == ParsingTurns!Turns(NothingParsed, v)[n]
           Q == {n \in 0 .. Len(v) : IsParsed(T(n), L)}
           S == {n \in 0 .. Len(v) : n >= Len(u) => Stands(T(Len(u)), T(n))}
<1>1. Len(u) \in Nat /\ Len(v) \in Nat /\ Len(u) <= Len(v) /\ \A i \in 1 .. Len(u) : u[i] = v[i]
  BY Prefix
<1>2. /\ T(0) = NothingParsed
      /\ \A n \in 1 .. Len(v) : T(n) = ParseLine(T(n - 1), v[n])
  BY <1>1, ParsingTurns!TurnsFollow
<1>3. \A t : IsParsed(t, L) => Stands(t, t)
  BY PrefixGrows DEF Stands, IsParsed
<1>4. 0 .. Len(v) \subseteq Q
  <2>1. 0 \in Q
    <3>1. IsParsed(NothingParsed, L)
      BY DEF IsParsed, NothingParsed
    <3> QED
      BY <1>1, <1>2, <3>1
  <2>2. ASSUME NEW n \in 1 .. Len(v), n - 1 \in Q PROVE n \in Q
    <3>1. v[n] \in L /\ n \in 0 .. Len(v) /\ T(n) = ParseLine(T(n - 1), v[n])
      BY <1>1, <1>2
    <3>2. IsParsed(T(n - 1), L)
      BY <2>2
    <3> QED
      BY <1>3, <3>1, <3>2, ParseLineStands
  <2> HIDE DEF Q
  <2> QED
    BY <1>1, <2>1, <2>2, ParsingTurns!IndexInduction
<1>5. \A n \in 0 .. Len(v) : IsParsed(T(n), L) /\ Stands(T(n), T(n))
  BY <1>3, <1>4
<1>6. 0 .. Len(v) \subseteq S
  <2>1. 0 \in S
    BY <1>1, <1>5
  <2>2. ASSUME NEW n \in 1 .. Len(v), n - 1 \in S PROVE n \in S
    <3>1. v[n] \in L /\ n \in 0 .. Len(v) /\ T(n) = ParseLine(T(n - 1), v[n])
      BY <1>1, <1>2
    <3>2. Len(u) \in 0 .. Len(v) /\ n - 1 \in 0 .. Len(v)
      BY <1>1
    <3>3. IsParsed(T(Len(u)), L) /\ IsParsed(T(n - 1), L)
      BY <1>5, <3>2
    <3>4. CASE n > Len(u)
      <4>1. Stands(T(Len(u)), T(n - 1))
        BY <1>1, <2>2, <3>4
      <4> QED
        BY <3>1, <3>3, <4>1, ParseLineStands
    <3>5. CASE n <= Len(u)
      BY <1>1, <1>5, <3>1, <3>5
    <3> QED
      BY <1>1, <3>4, <3>5
  <2> HIDE DEF S
  <2> QED
    BY <1>1, <2>1, <2>2, ParsingTurns!IndexInduction
<1>7. Stands(T(Len(u)), T(Len(v)))
  BY <1>1, <1>6
<1>8. T(Len(u)) = ParsingTurns!Turns(NothingParsed, u)[Len(u)]
  BY <1>1, ParsingTurns!TurnsAgree
<1>9. Parse(u) = ParsingTurns!Turns(NothingParsed, u)[Len(u)] /\ Parse(v) = T(Len(v))
  BY DEF Parse, Parsing!Result, Parsing!Turns, ParsingTurns!Turns
<1> QED
  BY <1>7, <1>8, <1>9

-----------------------------------------------------------------------------
(***************************************************************************)
(* The lines, one after the other, are the text that was cut.              *)
(***************************************************************************)
Joined(text, line) == text \o line

JoinTurns == INSTANCE LoopProofs WITH Turn <- Joined

\* To flatten is to join one by one.
LEMMA FlattenJoins ==
  ASSUME NEW C, NEW ls \in Seq(Seq(C))
  PROVE  /\ FlattenSeq(ls) = JoinTurns!Result(<<>>, ls)
         /\ FlattenSeq(ls) \in Seq(C)
<1> DEFINE T(n) == JoinTurns!Turns(<<>>, ls)[n]
           IsFlat(f) == f = [i \in 1 .. Len(ls) |-> IF i = 1 THEN ls[i] ELSE f[i - 1] \o ls[i]]
<1>1. Len(ls) \in Nat /\ \A n \in 1 .. Len(ls) : ls[n] \in Seq(C)
  OBVIOUS
<1>2. T(0) = <<>> /\ \A n \in 1 .. Len(ls) : T(n) = T(n - 1) \o ls[n]
  <2>1. T(0) = <<>> /\ \A n \in 1 .. Len(ls) : T(n) = Joined(T(n - 1), ls[n])
    BY <1>1, JoinTurns!TurnsFollow
  <2> QED
    BY <2>1 DEF Joined
<1>3. \A n \in 0 .. Len(ls) : T(n) \in Seq(C)
  <2>1. <<>> \in Seq(C)
    OBVIOUS
  <2>2. \A a \in Seq(C) : \A n \in 1 .. Len(ls) : Joined(a, ls[n]) \in Seq(C)
    BY <1>1 DEF Joined
  <2> QED
    BY <1>1, <2>1, <2>2, JoinTurns!TurnsKeep
<1> JoinTurns!Result(<<>>, ls) = T(Len(ls))
  BY DEF JoinTurns!Result
<1>4. CASE Len(ls) = 0
  BY <1>2, <1>3, <1>4 DEF FlattenSeq
<1>5. CASE Len(ls) # 0
  <2>1. 1 \in 1 .. Len(ls) => T(1) = ls[1]
    <3> SUFFICES ASSUME 1 \in 1 .. Len(ls) PROVE T(1) = ls[1]
      OBVIOUS
    <3>1. \A s \in Seq(C) : <<>> \o s = s
      OBVIOUS
    <3>2. T(1) = T(1 - 1) \o ls[1]
      BY <1>2
    <3>3. 1 - 1 = 0
      OBVIOUS
    <3>4. T(1 - 1) = <<>>
      BY <1>2, <3>3
    <3> QED
      BY <1>1, <3>1, <3>2, <3>4
  <2>2. \E f : IsFlat(f)
    <3> DEFINE g == [i \in 1 .. Len(ls) |-> T(i)]
    <3>1. ASSUME NEW i \in 1 .. Len(ls)
          PROVE  g[i] = IF i = 1 THEN ls[i] ELSE g[i - 1] \o ls[i]
      <4>1. CASE i = 1
        BY <2>1, <4>1
      <4>2. CASE i # 1
        <5>1. i - 1 \in 1 .. Len(ls)
          BY <1>1, <4>2
        <5>2. g[i - 1] = T(i - 1) /\ g[i] = T(i)
          BY <5>1
        <5> QED
          BY <1>2, <4>2, <5>2
      <4> QED
        BY <4>1, <4>2
    <3>2. g = [i \in 1 .. Len(ls) |-> g[i]]
      OBVIOUS
    <3>3. IsFlat(g)
      <4> HIDE DEF g
      <4> QED
        BY <3>1, <3>2
    <3> QED
      BY <3>3
  <2>3. \A f : IsFlat(f) => f[Len(ls)] = T(Len(ls))
    <3> SUFFICES ASSUME NEW f, IsFlat(f) PROVE f[Len(ls)] = T(Len(ls))
      OBVIOUS
    <3> DEFINE S == {n \in 0 .. Len(ls) : n # 0 => f[n] = T(n)}
    <3>1. 0 \in S
      OBVIOUS
    <3>2. ASSUME NEW n \in 1 .. Len(ls), n - 1 \in S PROVE n \in S
      <4>1. f[n] = IF n = 1 THEN ls[n] ELSE f[n - 1] \o ls[n]
        OBVIOUS
      <4>2. CASE n = 1
        BY <2>1, <4>1, <4>2
      <4>3. CASE n # 1
        <5>1. n - 1 # 0 /\ n \in 0 .. Len(ls)
          BY <1>1, <4>3
        <5>2. f[n - 1] = T(n - 1)
          BY <3>2, <5>1
        <5> HIDE DEF IsFlat
        <5> QED
          BY <1>2, <4>1, <4>3, <5>1, <5>2
      <4> QED
        BY <4>2, <4>3
    <3>3. 0 .. Len(ls) \subseteq S
      <4> HIDE DEF S
      <4> QED
        BY <1>1, <3>1, <3>2, JoinTurns!IndexInduction
    <3>4. Len(ls) \in S
      <4> HIDE DEF S
      <4> QED
        BY <1>1, <3>3
    <3> HIDE DEF IsFlat
    <3> QED
      BY <1>5, <3>4
  <2>4. FlattenSeq(ls) = (CHOOSE f : IsFlat(f))[Len(ls)]
    BY <1>5 DEF FlattenSeq
  <2>5. IsFlat(CHOOSE f : IsFlat(f))
    <3> HIDE DEF IsFlat
    <3> QED
      BY <2>2
  <2> HIDE DEF IsFlat
  <2> QED
    BY <1>1, <1>3, <2>3, <2>4, <2>5
<1> QED
  BY <1>4, <1>5

LEMMA FlattenAppend ==
  ASSUME NEW C, NEW ls \in Seq(Seq(C)), NEW line \in Seq(C)
  PROVE  FlattenSeq(Append(ls, line)) = FlattenSeq(ls) \o line
<1>1. /\ JoinTurns!Result(<<>>, Append(ls, line)) = Joined(JoinTurns!Result(<<>>, ls), line)
      /\ Append(ls, line) \in Seq(Seq(C))
  BY JoinTurns!TurnsAppend
<1>2. FlattenSeq(ls) = JoinTurns!Result(<<>>, ls)
  BY FlattenJoins
<1>3. FlattenSeq(Append(ls, line)) = JoinTurns!Result(<<>>, Append(ls, line))
  BY <1>1, FlattenJoins
<1> QED
  BY <1>1, <1>2, <1>3 DEF Joined

\* Of the characters that are cut into st, text, none is lost, and a line feed
\* is the last of its line.
IsCut(st, text) ==
  /\ FlattenSeq(st.lines) \o st.temp_str = text
  /\ \A i \in DOMAIN st.lines : IndexesOf("LF", st.lines[i]) = {Len(st.lines[i])}
  /\ st.new_line_begin => IndexesOf("LF", st.temp_str) = {Len(st.temp_str)}
  /\ ~st.new_line_begin => IndexesOf("LF", st.temp_str) = {}

LEMMA IndexesAppend ==
  ASSUME NEW C, NEW s \in Seq(C), NEW x \in C, NEW ch
  PROVE  /\ x = ch => IndexesOf(ch, Append(s, x)) = IndexesOf(ch, s) \cup {Len(s) + 1}
         /\ x # ch => IndexesOf(ch, Append(s, x)) = IndexesOf(ch, s)
<1>1. /\ DOMAIN s = 1 .. Len(s) /\ Len(s) \in Nat /\ DOMAIN Append(s, x) = 1 .. Len(s) + 1
      /\ \A i \in 1 .. Len(s) : Append(s, x)[i] = s[i]
      /\ Append(s, x)[Len(s) + 1] = x
  OBVIOUS
<1> DEFINE u == Append(s, x)
<1>2. \A i \in DOMAIN u : i \in DOMAIN s \/ i = Len(s) + 1
  BY <1>1
<1>3. \A i : i \in IndexesOf(ch, u) <=> i \in IndexesOf(ch, s) \/ (i = Len(s) + 1 /\ x = ch)
  BY <1>1, <1>2 DEF IndexesOf
<1> HIDE DEF u
<1> QED
  BY <1>3 DEF u

LEMMA CutCharIsCut ==
  ASSUME NEW st \in CutStates, NEW text \in Seq(Chars), IsCut(st, text), NEW ch \in Chars
  PROVE  IsCut(CutChar(st, ch), Append(text, ch))
<1> DEFINE flat == FlattenSeq(st.lines)
           next == CutChar(st, ch)
<1>1. st.lines \in Seq(Seq(Chars)) /\ st.temp_str \in Seq(Chars) /\ st.new_line_begin \in BOOLEAN
  BY DEF CutStates
<1>2. flat \in Seq(Chars)
  BY <1>1, FlattenJoins
<1>3. flat \o st.temp_str = text
  BY DEF IsCut
<1>4. /\ next.new_line_begin => ch = "LF"
      /\ ~next.new_line_begin => ch # "LF"
  BY DEF CutChar
<1>5. CASE st.new_line_begin
  <2>1. next.lines = Append(st.lines, st.temp_str) /\ next.temp_str = <<ch>>
    BY <1>5 DEF CutChar
  <2>2. FlattenSeq(next.lines) = flat \o st.temp_str
    BY <1>1, <2>1, FlattenAppend
  <2>3. FlattenSeq(next.lines) \o next.temp_str = Append(text, ch)
    <3>1. \A s \in Seq(Chars) : s \o <<ch>> = Append(s, ch)
      OBVIOUS
    <3> QED
      BY <1>3, <2>1, <2>2, <3>1
  <2>4. ASSUME NEW i \in DOMAIN next.lines PROVE IndexesOf("LF", next.lines[i]) = {Len(next.lines[i])}
    <3>1. \/ i \in DOMAIN st.lines /\ next.lines[i] = st.lines[i]
          \/ next.lines[i] = st.temp_str
      BY <1>1, <2>1
    <3> QED
      BY <1>5, <3>1 DEF IsCut
  <2>5. /\ next.new_line_begin => IndexesOf("LF", next.temp_str) = {Len(next.temp_str)}
        /\ ~next.new_line_begin => IndexesOf("LF", next.temp_str) = {}
    <3>1. /\ ch = "LF" => IndexesOf("LF", <<ch>>) = {1}
          /\ ch # "LF" => IndexesOf("LF", <<ch>>) = {}
      BY DEF IndexesOf
    <3>2. Len(<<ch>>) = 1
      OBVIOUS
    <3> HIDE DEF next
    <3> QED
      BY <1>4, <2>1, <3>1, <3>2
  <2> QED
    BY <2>3, <2>4, <2>5 DEF IsCut
<1>6. CASE ~st.new_line_begin
  <2>1. next.lines = st.lines /\ next.temp_str = Append(st.temp_str, ch)
    BY <1>6 DEF CutChar
  <2>2. FlattenSeq(next.lines) \o next.temp_str = Append(text, ch)
    <3>1. \A s, t \in Seq(Chars) : s \o Append(t, ch) = Append(s \o t, ch)
      OBVIOUS
    <3> HIDE DEF next, flat
    <3> QED
      BY <1>1, <1>2, <1>3, <2>1, <3>1 DEF flat
  <2>3. /\ next.new_line_begin => IndexesOf("LF", next.temp_str) = {Len(next.temp_str)}
        /\ ~next.new_line_begin => IndexesOf("LF", next.temp_str) = {}
    <3>1. IndexesOf("LF", st.temp_str) = {}
      BY <1>6 DEF IsCut
    <3>2. /\ ch = "LF" => IndexesOf("LF", Append(st.temp_str, ch)) = {Len(st.temp_str) + 1}
          /\ ch # "LF" => IndexesOf("LF", Append(st.temp_str, ch)) = {}
      BY <1>1, <3>1, IndexesAppend
    <3>3. Len(Append(st.temp_str, ch)) = Len(st.temp_str) + 1
      BY <1>1
    <3> HIDE DEF next
    <3> QED
      BY <1>4, <2>1, <3>2, <3>3
  <2> QED
    BY <2>1, <2>2, <2>3 DEF IsCut
<1> QED
  BY <1>1, <1>5, <1>6

LEMMA BufferIsCut ==
  ASSUME NEW b \in Seq(Chars)
  PROVE  IsCut(Cut!Result(NothingCut, b), b)
<1> DEFINE T(n) == CutTurns!Turns(NothingCut, b)[n]
           S == {n \in 0 .. Len(b) : IsCut(T(n), SubSeq(b, 1, n))}
<1>1. /\ Len(b) \in Nat /\ SubSeq(b, 1, 0) = <<>> /\ SubSeq(b, 1, Len(b)) = b
      /\ \A n \in 1 .. Len(b) : /\ b[n] \in Chars
                                /\ SubSeq(b, 1, n) = Append(SubSeq(b, 1, n - 1), b[n])
                                /\ SubSeq(b, 1, n - 1) \in Seq(Chars)
  OBVIOUS
<1>2. /\ T(0) = NothingCut
      /\ \A n \in 1 .. Len(b) : T(n) = CutChar(T(n - 1), b[n])
      /\ \A n \in 0 .. Len(b) : T(n) \in CutStates
      /\ Cut!Result(NothingCut, b) = T(Len(b))
  BY CutLoop
<1>3. IsCut(NothingCut, <<>>)
  <2>1. NothingCut.lines = <<>> /\ NothingCut.temp_str = <<>> /\ NothingCut.new_line_begin = FALSE
    BY DEF NothingCut
  <2>2. FlattenSeq(<<>>) = <<>>
    BY DEF FlattenSeq
  <2>3. <<>> \o <<>> = <<>>
    OBVIOUS
  <2>4. DOMAIN <<>> = {} /\ IndexesOf("LF", <<>>) = {}
    BY DEF IndexesOf
  <2>5. FlattenSeq(NothingCut.lines) \o NothingCut.temp_str = <<>>
    BY <2>1, <2>2, <2>3
  <2> QED
    BY <2>1, <2>4, <2>5 DEF IsCut
<1>4. 0 \in S
  <2>1. 0 \in 0 .. Len(b)
    BY <1>1
  <2>2. T(0) = NothingCut /\ SubSeq(b, 1, 0) = <<>>
    BY <1>1, <1>2
  <2>3. IsCut(T(0), SubSeq(b, 1, 0))
    BY <1>3, <2>2, Zenon
  <2> QED
    BY <2>1, <2>3
<1>5. ASSUME NEW n \in 1 .. Len(b), n - 1 \in S PROVE n \in S
  <2>1. n - 1 \in 0 .. Len(b) /\ n \in 0 .. Len(b)
    BY <1>1
  <2>2. T(n - 1) \in CutStates /\ IsCut(T(n - 1), SubSeq(b, 1, n - 1))
    BY <1>2, <1>5, <2>1
  <2>3. IsCut(CutChar(T(n - 1), b[n]), Append(SubSeq(b, 1, n - 1), b[n]))
    BY <1>1, <2>2, CutCharIsCut
  <2> QED
    BY <1>1, <1>2, <2>1, <2>3
<1>6. 0 .. Len(b) \subseteq S
  <2> HIDE DEF S
  <2> QED
    BY <1>1, <1>4, <1>5, CutTurns!IndexInduction
<1>7. Len(b) \in S
  BY <1>1, <1>6
<1> QED
  BY <1>1, <1>2, <1>7

LEMMA EveryLine ==
  ASSUME NEW text \in Seq(RequestChars)
  PROVE  LinesAreTheText(text)
<1> DEFINE b == Buffer(text)
           end == Cut!Result(NothingCut, b)
           flat == FlattenSeq(end.lines)
           D == DEFAULT_BUFFER_SIZE
<1>1. b \in Seq(Chars) /\ Len(b) = D /\ D \in Nat
  BY BufferType, HttpTextAssumption
<1> HIDE DEF b
<1>2. IsCut(end, b)
  BY <1>1, BufferIsCut
<1>3. end \in CutStates
  BY <1>1, CutLoop
<1>4. end.lines \in Seq(Seq(Chars)) /\ end.temp_str \in Seq(Chars) /\ end.new_line_begin \in BOOLEAN
  BY <1>3 DEF CutStates
<1>5. flat \in Seq(Chars) /\ flat \o end.temp_str = b
  BY <1>2, <1>4, FlattenJoins DEF IsCut
<1>6. CutLines(text) = end.lines
  BY DEF CutLines, b
<1>7. \A i \in DOMAIN end.lines : IndexesOf("LF", end.lines[i]) = {Len(end.lines[i])}
  BY <1>2 DEF IsCut
<1>8. IndexesOf("LF", end.temp_str) \subseteq {Len(end.temp_str)}
  BY <1>2, <1>4 DEF IsCut
<1> DEFINE temp == end.temp_str
<1>9. temp \in Seq(Chars) /\ flat \o temp = b /\ IndexesOf("LF", temp) \subseteq {Len(temp)}
  BY <1>4, <1>5, <1>8
<1> HIDE DEF flat, temp
<1>10. /\ Len(flat) \in Nat /\ Len(temp) \in Nat /\ Len(b) = Len(flat) + Len(temp)
       /\ \A i \in 1 .. Len(flat) : b[i] = flat[i]
       /\ \A i \in Len(flat) + 1 .. Len(b) : b[i] = temp[i - Len(flat)]
  <2>1. \A s, t \in Seq(Chars) :
          /\ Len(s) \in Nat /\ Len(t) \in Nat /\ Len(s \o t) = Len(s) + Len(t)
          /\ \A i \in 1 .. Len(s) : (s \o t)[i] = s[i]
          /\ \A i \in Len(s) + 1 .. Len(s \o t) : (s \o t)[i] = t[i - Len(s)]
    OBVIOUS
  <2> QED
    BY <1>5, <1>9, <2>1
<1>11. IsPrefix(flat, b)
  BY <1>1, <1>5, <1>10, Prefix
<1>12. ASSUME NEW i \in IndexesOf("LF", b), i > Len(flat) PROVE i = D
  <2>1. i \in 1 .. Len(b) /\ b[i] = "LF"
    BY <1>1 DEF IndexesOf
  <2>2. i \in Len(flat) + 1 .. Len(b) /\ i - Len(flat) \in 1 .. Len(temp)
    BY <1>10, <1>12, <2>1
  <2>3. i - Len(flat) \in IndexesOf("LF", temp)
    BY <1>9, <1>10, <2>1, <2>2 DEF IndexesOf
  <2>4. i - Len(flat) = Len(temp)
    BY <1>9, <2>3
  <2> QED
    BY <1>1, <1>10, <2>2, <2>4
<1> QED
  BY <1>6, <1>7, <1>11, <1>12 DEF LinesAreTheText, flat, b

-----------------------------------------------------------------------------
(***************************************************************************)
(* A request for a link.                                                   *)
(***************************************************************************)
\* What one sequence is after another.
LEMMA Concat ==
  ASSUME NEW S
  PROVE  \A s, t \in Seq(S) :
           /\ s \o t \in Seq(S) /\ Len(s) \in Nat /\ Len(t) \in Nat
           /\ Len(s \o t) = Len(s) + Len(t)
           /\ \A i \in 1 .. Len(s) : (s \o t)[i] = s[i]
           /\ \A i \in 1 .. Len(t) : (s \o t)[Len(s) + i] = t[i]
OBVIOUS

MethodTurns == INSTANCE LoopProofs WITH Turn <- MethodChar

\* A character that is no space goes to the end of the word it is in.
LEMMA WordGrows ==
  ASSUME NEW st, DOMAIN st.words = 1 .. 3, st.word \in 1 .. 3, NEW ch, ch # "SP"
  PROVE  /\ MethodChar(st, ch).word = st.word
         /\ DOMAIN MethodChar(st, ch).words = 1 .. 3
         /\ \A i \in 1 .. 3 : MethodChar(st, ch).words[i] =
              IF i = st.word THEN Append(st.words[i], ch) ELSE st.words[i]
<1>1. ~(st.word > 3)
  OBVIOUS
<1>2. MethodChar(st, ch) =
        [word |-> st.word, words |-> [st.words EXCEPT ![st.word] = Append(st.words[st.word], ch)]]
  BY <1>1 DEF MethodChar
<1> QED
  BY <1>2

\* The uri that is read of a request for a link with no space in it is the link.
LEMMA RequestedIsLink ==
  ASSUME NEW C, NEW link \in Seq(C), ~Contains(link, "SP")
  PROVE  RequestedUri(link) = link
<1> DEFINE L == Len(link)
           s == <<"GET", "SP">> \o link \o <<"SP", "HTTP">>
           T(n) == MethodTurns!Turns(NoWords, s)[n]
           InUri(st, uri) == st.word = 2 /\ DOMAIN st.words = 1 .. 3 /\ st.words[2] = uri
<1>1. L \in Nat /\ \A i \in 1 .. L : link[i] # "SP"
  BY DEF Contains
<1>2. /\ Len(s) = L + 4 /\ s[1] = "GET" /\ s[2] = "SP" /\ s[L + 3] = "SP" /\ s[L + 4] = "HTTP"
      /\ \A k \in 1 .. L : s[k + 2] = link[k]
  <2> DEFINE D == C \cup {"GET", "HTTP", "SP"}
  <2>1. <<"GET", "SP">> \in Seq(D) /\ link \in Seq(D) /\ <<"SP", "HTTP">> \in Seq(D)
    OBVIOUS
  <2>2. /\ Len(<<"GET", "SP">>) = 2 /\ <<"GET", "SP">>[1] = "GET" /\ <<"GET", "SP">>[2] = "SP"
        /\ Len(<<"SP", "HTTP">>) = 2 /\ <<"SP", "HTTP">>[1] = "SP" /\ <<"SP", "HTTP">>[2] = "HTTP"
    OBVIOUS
  <2>3. ASSUME NEW a \in Seq(D), NEW c \in Seq(D), Len(a) = 2, Len(c) = 2
        PROVE  LET whole == a \o link \o c IN
               /\ Len(whole) = L + 4 /\ whole[1] = a[1] /\ whole[2] = a[2]
               /\ whole[L + 3] = c[1] /\ whole[L + 4] = c[2]
               /\ \A k \in 1 .. L : whole[k + 2] = link[k]
    <3> DEFINE d == a \o link
    <3> HIDE DEF D
    <3>1. /\ d \in Seq(D) /\ Len(d) = L + 2 /\ d[1] = a[1] /\ d[2] = a[2]
          /\ \A k \in 1 .. L : d[2 + k] = link[k]
      <4>1. a \in Seq(D) /\ link \in Seq(D)
        BY <2>1, <2>3
      <4>2. /\ d \in Seq(D) /\ Len(d) = Len(a) + L
            /\ \A i \in 1 .. Len(a) : d[i] = a[i]
            /\ \A i \in 1 .. L : d[Len(a) + i] = link[i]
        BY <4>1, Concat
      <4>3. Len(a) = 2 /\ 2 + L = L + 2 /\ 1 \in 1 .. 2 /\ 2 \in 1 .. 2
        BY <1>1, <2>3
      <4> QED
        BY <4>2, <4>3
    <3> HIDE DEF d
    <3>2. /\ Len(d \o c) = L + 4
          /\ \A i \in 1 .. L + 2 : (d \o c)[i] = d[i]
          /\ (d \o c)[(L + 2) + 1] = c[1] /\ (d \o c)[(L + 2) + 2] = c[2]
      <4>1. d \in Seq(D) /\ c \in Seq(D)
        BY <2>3, <3>1
      <4>2. /\ Len(d \o c) = Len(d) + Len(c)
            /\ \A i \in 1 .. Len(d) : (d \o c)[i] = d[i]
            /\ \A i \in 1 .. Len(c) : (d \o c)[Len(d) + i] = c[i]
        BY <4>1, Concat
      <4>3. Len(d) = L + 2 /\ Len(c) = 2
        BY <2>3, <3>1
      <4>4. 1 \in 1 .. 2 /\ 2 \in 1 .. 2 /\ (L + 2) + 2 = L + 4
        BY <1>1
      <4> QED
        BY <4>2, <4>3, <4>4
    <3>3. 1 \in 1 .. L + 2 /\ 2 \in 1 .. L + 2 /\ (L + 2) + 1 = L + 3 /\ (L + 2) + 2 = L + 4
      BY <1>1
    <3>4. \A k \in 1 .. L : k + 2 \in 1 .. L + 2 /\ k + 2 = 2 + k
      BY <1>1
    <3>5. \A k \in 1 .. L : (d \o c)[k + 2] = link[k]
      BY <3>1, <3>2, <3>4
    <3> QED
      BY <3>1, <3>2, <3>3, <3>5 DEF d
  <2> HIDE DEF D
  <2> QED
    BY <2>1, <2>2, <2>3
<1> HIDE DEF s
<1>3. Len(s) \in Nat /\ \A n \in 1 .. Len(s) : n \in 1 .. L + 4
  BY <1>1, <1>2
<1>4. /\ T(0) = NoWords /\ \A n \in 1 .. L + 4 : T(n) = MethodChar(T(n - 1), s[n])
      /\ MethodTurns!Result(NoWords, s) = T(L + 4)
  BY <1>2, <1>3, MethodTurns!TurnsFollow
<1>5. InUri(T(2), <<>>)
  <2>1. T(1) = MethodChar(T(0), "GET") /\ T(2) = MethodChar(T(1), "SP")
    <3>1. /\ 1 \in 1 .. L + 4 /\ 2 \in 1 .. L + 4 /\ 1 - 1 = 0 /\ 2 - 1 = 1
      BY <1>1
    <3> QED
      BY <1>2, <1>4, <3>1
  <2>2. NoWords.word = 1 /\ DOMAIN NoWords.words = 1 .. 3 /\ NoWords.words[2] = <<>>
    BY DEF NoWords
  <2>3. T(1).word = 1 /\ DOMAIN T(1).words = 1 .. 3 /\ T(1).words[2] = <<>>
    <3>1. "GET" # "SP" /\ 1 \in 1 .. 3 /\ 2 \in 1 .. 3
      OBVIOUS
    <3>2. T(1) = MethodChar(NoWords, "GET")
      BY <1>4, <2>1
    <3>3. /\ MethodChar(NoWords, "GET").word = 1
          /\ DOMAIN MethodChar(NoWords, "GET").words = 1 .. 3
          /\ MethodChar(NoWords, "GET").words[2] = NoWords.words[2]
      BY <2>2, <3>1, WordGrows
    <3> QED
      BY <2>2, <3>2, <3>3
  <2>4. T(2) = [word |-> 2, words |-> T(1).words]
    <3>1. \A st : MethodChar(st, "SP") = [word |-> st.word + 1, words |-> st.words]
      BY DEF MethodChar
    <3>2. 1 + 1 = 2
      OBVIOUS
    <3> QED
      BY <2>1, <2>3, <3>1, <3>2
  <2> QED
    BY <2>3, <2>4
<1>6. ASSUME NEW k \in 1 .. L, InUri(T(k + 1), SubSeq(link, 1, k - 1))
      PROVE  InUri(T(k + 2), SubSeq(link, 1, k))
  <2>1. k + 2 \in 1 .. L + 4 /\ (k + 2) - 1 = k + 1
    BY <1>1
  <2>2. T(k + 2) = MethodChar(T(k + 1), link[k]) /\ link[k] # "SP"
    BY <1>1, <1>2, <1>4, <2>1
  <2>3. /\ T(k + 2).word = 2 /\ DOMAIN T(k + 2).words = 1 .. 3
        /\ T(k + 2).words[2] = Append(T(k + 1).words[2], link[k])
    <3>1. 2 \in 1 .. 3 /\ T(k + 1).word = 2 /\ DOMAIN T(k + 1).words = 1 .. 3
      BY <1>6
    <3>2. T(k + 1).word \in 1 .. 3 /\ link[k] # "SP"
      BY <2>2, <3>1
    <3> HIDE DEF T
    <3> DEFINE next == MethodChar(T(k + 1), link[k])
    <3>3. /\ next.word = T(k + 1).word /\ DOMAIN next.words = 1 .. 3
          /\ \A i \in 1 .. 3 : next.words[i] =
               IF i = T(k + 1).word THEN Append(T(k + 1).words[i], link[k]) ELSE T(k + 1).words[i]
      BY <3>1, <3>2, WordGrows
    <3> HIDE DEF next
    <3>4. T(k + 2) = next
      BY <2>2 DEF next
    <3> QED
      BY <3>1, <3>3, <3>4
  <2>4. SubSeq(link, 1, k) = Append(SubSeq(link, 1, k - 1), link[k])
    OBVIOUS
  <2> QED
    BY <1>6, <2>3, <2>4
<1>7. InUri(T(L + 2), link)
  <2> DEFINE S == {k \in 0 .. L : InUri(T(k + 2), SubSeq(link, 1, k))}
  <2>1. 0 \in S
    <3>1. 0 \in 0 .. L /\ 0 + 2 = 2 /\ SubSeq(link, 1, 0) = <<>>
      BY <1>1
    <3> QED
      BY <1>5, <3>1
  <2>2. ASSUME NEW k \in 1 .. L, k - 1 \in S PROVE k \in S
    <3>1. (k - 1) + 2 = k + 1 /\ k \in 0 .. L
      BY <1>1
    <3>2. InUri(T(k + 1), SubSeq(link, 1, k - 1))
      BY <2>2, <3>1
    <3> QED
      BY <1>6, <3>1, <3>2
  <2>3. L \in S
    <3> HIDE DEF S
    <3>1. 0 .. L \subseteq S
      BY <1>1, <2>1, <2>2, MethodTurns!IndexInduction
    <3> QED
      BY <1>1, <3>1
  <2>4. SubSeq(link, 1, L) = link
    OBVIOUS
  <2> QED
    BY <2>3, <2>4
<1>8. T(L + 4).words[2] = link
  <2>1. L + 3 \in 1 .. L + 4 /\ L + 4 \in 1 .. L + 4 /\ (L + 3) - 1 = L + 2 /\ (L + 4) - 1 = L + 3
    BY <1>1
  <2>2. T(L + 3) = MethodChar(T(L + 2), "SP") /\ T(L + 4) = MethodChar(T(L + 3), "HTTP")
    BY <1>2, <1>4, <2>1
  <2>3. T(L + 3) = [word |-> 3, words |-> T(L + 2).words]
    BY <1>7, <2>2 DEF MethodChar
  <2>4. T(L + 4).words[2] = T(L + 3).words[2]
    <3>1. "HTTP" # "SP" /\ 2 \in 1 .. 3 /\ 3 \in 1 .. 3
      OBVIOUS
    <3>2. T(L + 3).word = 3 /\ DOMAIN T(L + 3).words = 1 .. 3
      BY <1>7, <2>3
    <3> QED
      BY <2>2, <3>1, <3>2, WordGrows
  <2> QED
    BY <1>7, <2>3, <2>4
<1>9. RequestedUri(link) = Method!Result(NoWords, s).words[2]
  BY DEF RequestedUri, ParseHttpMethod, s
<1>10. Method!Result(NoWords, s) = MethodTurns!Result(NoWords, s)
  BY DEF Method!Result, Method!Turns, MethodTurns!Result, MethodTurns!Turns
<1> QED
  BY <1>4, <1>8, <1>9, <1>10

\* The uri that parse cuts out of a line has no space.
LEMMA UriHasNoSpace ==
  ASSUME NEW C, NEW line \in Seq(C)
  PROVE  ~Contains(ParseHttpMethod(line).m_uri, "SP")
<1> DEFINE W == {ch \in C : ch # "SP"}
           A == [word : Nat, words : [1 .. 3 -> Seq(W)]]
<1>1. NoWords \in A
  <2>1. <<>> \in Seq(W)
    OBVIOUS
  <2> HIDE DEF W
  <2> QED
    BY <2>1 DEF NoWords
<1>2. \A st \in A : \A ch \in C : MethodChar(st, ch) \in A
  <2> SUFFICES ASSUME NEW st \in A, NEW ch \in C PROVE MethodChar(st, ch) \in A
    OBVIOUS
  <2>1. CASE ch = "SP"
    BY <2>1 DEF MethodChar
  <2>2. CASE ch # "SP" /\ st.word > 3
    BY <2>2 DEF MethodChar
  <2>3. CASE ch # "SP" /\ ~(st.word > 3)
    <3>1. ch \in W
      BY <2>3
    <3> HIDE DEF W
    <3>2. \A i \in 1 .. 3 : Append(st.words[i], ch) \in Seq(W)
      BY <3>1
    <3>3. MethodChar(st, ch) =
            [word |-> st.word, words |-> [st.words EXCEPT ![st.word] = Append(st.words[st.word], ch)]]
      BY <2>3 DEF MethodChar
    <3>4. [st.words EXCEPT ![st.word] = Append(st.words[st.word], ch)] \in [1 .. 3 -> Seq(W)]
      BY <3>2
    <3> QED
      BY <3>3, <3>4
  <2> QED
    BY <2>1, <2>2, <2>3
<1>3. Len(line) \in Nat /\ \A n \in 1 .. Len(line) : line[n] \in C
  OBVIOUS
<1>4. MethodTurns!Result(NoWords, line) \in A
  <2>1. \A n \in 0 .. Len(line) : MethodTurns!Turns(NoWords, line)[n] \in A
    <3> HIDE DEF A
    <3> QED
      BY <1>1, <1>2, <1>3, MethodTurns!TurnsKeep
  <2>2. MethodTurns!Result(NoWords, line) = MethodTurns!Turns(NoWords, line)[Len(line)]
    BY <1>3, MethodTurns!TurnsFollow
  <2> HIDE DEF A
  <2> QED
    BY <1>3, <2>1, <2>2
<1>5. ParseHttpMethod(line).m_uri = MethodTurns!Result(NoWords, line).words[2]
  BY DEF ParseHttpMethod, Method!Result, Method!Turns, MethodTurns!Result, MethodTurns!Turns
<1>6. ParseHttpMethod(line).m_uri \in Seq(W)
  BY <1>4, <1>5
<1> QED
  BY <1>6 DEF Contains

-----------------------------------------------------------------------------
(***************************************************************************)
(* The page of a uri and the links in it.                                  *)
(***************************************************************************)
\* The characters of a path and those its links add.
Marks == PathChars \cup {"/", "SP", "%20"}

\* A page ends in a slash, and is the uri or one character longer.
LEMMA Page ==
  ASSUME NEW uri \in Seq(Marks), uri # <<>>
  PROVE  /\ WithSlash(uri) \in Seq(Marks)
         /\ \/ WithSlash(uri) = uri
            \/ /\ Len(WithSlash(uri)) = Len(uri) + 1 /\ uri[Len(uri)] # "/"
               /\ \A i \in 1 .. Len(uri) : WithSlash(uri)[i] = uri[i]
         /\ Len(WithSlash(uri)) \in Nat \ {0} /\ Len(uri) \in Nat \ {0}
         /\ WithSlash(uri)[Len(WithSlash(uri))] = "/"
<1>1. Slash \in Seq(Marks) /\ Len(Slash) = 1 /\ Slash[1] = "/"
  BY DEF Slash, Marks
<1>2. Len(uri) \in Nat \ {0}
  OBVIOUS
<1>3. CASE uri[Len(uri)] = "/"
  BY <1>2, <1>3 DEF WithSlash, Last
<1>4. CASE uri[Len(uri)] # "/"
  <2>1. WithSlash(uri) = uri \o Slash
    BY <1>4 DEF WithSlash, Last
  <2>2. /\ uri \o Slash \in Seq(Marks) /\ Len(uri \o Slash) = Len(uri) + 1
        /\ \A i \in 1 .. Len(uri) : (uri \o Slash)[i] = uri[i]
        /\ (uri \o Slash)[Len(uri) + 1] = "/"
    BY <1>1, Concat
  <2> QED
    BY <1>2, <1>4, <2>1, <2>2
<1> QED
  BY <1>3, <1>4

\* A name's spaces, and nothing else of it, are replaced.
LEMMA Friendly ==
  ASSUME NEW name \in Seq(Marks)
  PROVE  /\ MakeHttpFriendly(name) \in Seq(Marks) /\ Len(MakeHttpFriendly(name)) = Len(name)
         /\ \A i \in 1 .. Len(name) :
              MakeHttpFriendly(name)[i] = IF name[i] = "SP" THEN "%20" ELSE name[i]
<1>1. \A i \in 1 .. Len(name) : (IF name[i] = "SP" THEN "%20" ELSE name[i]) \in Marks
  BY DEF Marks
<1> QED
  BY <1>1 DEF MakeHttpFriendly

\* The link of a file whose path has no "%20", and of a directory whose name has
\* no space, is looked up as the entry.
LEMMA LinkLeads ==
  ASSUME NEW uri \in Seq(Marks), uri # <<>>, NEW name \in Seq(Marks), ~Contains(uri, "SP")
  PROVE  /\ ~Contains(WithSlash(uri) \o name, "%20") => LinkFetches(uri, name, "file")
         /\ ~Contains(name, "SP") => LinkFetches(uri, name, "dir")
<1> DEFINE page == WithSlash(uri)
           f == MakeHttpFriendly(name)
           link == EntryLink(uri, name)
           whole == page \o name
<1>1. /\ page \in Seq(Marks) /\ Len(page) \in Nat
      /\ \A i \in 1 .. Len(page) : page[i] # "SP"
  <2>1. \A i \in 1 .. Len(uri) : uri[i] # "SP"
    BY DEF Contains
  <2> QED
    BY <2>1, Page
<1>2. /\ f \in Seq(Marks) /\ Len(f) = Len(name)
      /\ \A i \in 1 .. Len(name) : f[i] = IF name[i] = "SP" THEN "%20" ELSE name[i]
  BY Friendly
<1> HIDE DEF page, f
<1>3. link = page \o f
  BY DEF EntryLink, page, f
<1>4. /\ link \in Seq(Marks) /\ whole \in Seq(Marks) /\ Len(link) = Len(whole)
      /\ Len(whole) = Len(page) + Len(name) /\ Len(name) \in Nat
      /\ \A i \in 1 .. Len(page) : link[i] = page[i] /\ whole[i] = page[i]
      /\ \A i \in 1 .. Len(name) : link[Len(page) + i] = f[i] /\ whole[Len(page) + i] = name[i]
  <2>1. /\ link \in Seq(Marks) /\ Len(link) = Len(page) + Len(f)
        /\ \A i \in 1 .. Len(page) : link[i] = page[i]
        /\ \A i \in 1 .. Len(f) : link[Len(page) + i] = f[i]
    BY <1>1, <1>2, <1>3, Concat
  <2>2. /\ whole \in Seq(Marks) /\ Len(whole) = Len(page) + Len(name) /\ Len(name) \in Nat
        /\ \A i \in 1 .. Len(page) : whole[i] = page[i]
        /\ \A i \in 1 .. Len(name) : whole[Len(page) + i] = name[i]
    BY <1>1, Concat
  <2> QED
    BY <1>2, <2>1, <2>2
<1> HIDE DEF link, whole
<1>5. \A i \in 1 .. Len(link) : i \in 1 .. Len(page) \/ \E j \in 1 .. Len(name) : i = Len(page) + j
  <2> SUFFICES ASSUME NEW i \in 1 .. Len(link), ~(i \in 1 .. Len(page))
               PROVE  \E j \in 1 .. Len(name) : i = Len(page) + j
    OBVIOUS
  <2>1. i - Len(page) \in 1 .. Len(name) /\ i = Len(page) + (i - Len(page))
    BY <1>1, <1>4
  <2> QED
    BY <2>1
<1>6. \A i \in 1 .. Len(link) : link[i] = IF whole[i] = "SP" THEN "%20" ELSE whole[i]
  <2> SUFFICES ASSUME NEW i \in 1 .. Len(link)
               PROVE  link[i] = IF whole[i] = "SP" THEN "%20" ELSE whole[i]
    OBVIOUS
  <2>1. CASE i \in 1 .. Len(page)
    BY <1>1, <1>4, <2>1
  <2>2. CASE \E j \in 1 .. Len(name) : i = Len(page) + j
    BY <1>2, <1>4, <2>2
  <2> QED
    BY <1>5, <2>1, <2>2
<1>7. RequestedUri(link) = link
  <2>1. ~Contains(link, "SP")
    BY <1>6 DEF Contains
  <2> QED
    BY <1>4, <2>1, RequestedIsLink
<1>8. ASSUME ~Contains(whole, "%20") PROVE CleanFilename(link) = whole
  <2>1. \A i \in 1 .. Len(whole) : whole[i] # "%20"
    BY <1>8 DEF Contains
  <2>2. DOMAIN link = 1 .. Len(link) /\ DOMAIN whole = 1 .. Len(link)
    BY <1>4
  <2>3. whole = [i \in 1 .. Len(link) |-> whole[i]]
    BY <1>4
  <2>4. \A i \in 1 .. Len(link) : (IF link[i] = "%20" THEN "SP" ELSE link[i]) = whole[i]
    BY <1>4, <1>6, <2>1
  <2> QED
    BY <2>2, <2>3, <2>4 DEF CleanFilename
<1>9. ASSUME ~Contains(name, "SP") PROVE link = whole
  <2>1. \A i \in 1 .. Len(name) : name[i] # "SP"
    BY <1>9 DEF Contains
  <2>2. ASSUME NEW i \in 1 .. Len(link) PROVE whole[i] # "SP"
    <3>1. CASE i \in 1 .. Len(page)
      BY <1>1, <1>4, <3>1
    <3>2. CASE \E j \in 1 .. Len(name) : i = Len(page) + j
      BY <1>4, <2>1, <3>2
    <3> QED
      BY <1>5, <3>1, <3>2
  <2>3. \A i \in 1 .. Len(link) : link[i] = whole[i]
    BY <1>6, <2>2
  <2> QED
    BY <1>4, <2>3
<1>10. /\ LinkFetches(uri, name, "file") <=> CleanFilename(link) = whole
       /\ LinkFetches(uri, name, "dir") <=> link = whole
  BY <1>7 DEF LinkFetches, LookedUp, link, whole, page
<1> QED
  BY <1>8, <1>9, <1>10 DEF whole, page

-----------------------------------------------------------------------------
(***************************************************************************)
(* The links up.                                                           *)
(***************************************************************************)
\* The last / is where none comes after.
LEMMA LastSlashIs ==
  ASSUME NEW s \in Seq(Marks), NEW to \in Nat, to <= Len(s), NEW k \in 1 .. to,
         s[k] = "/", \A j \in k + 1 .. to : s[j] # "/"
  PROVE  LastSlash(s, to) = k
<1> DEFINE I == {i \in 1 .. to : s[i] = "/"}
<1>1. LastSlash(s, to) = IF I # {} THEN Max(I) ELSE 0
  BY DEF LastSlash, SelectLastInSubSeq
<1>2. k \in I /\ \A y \in I : y \in Int /\ k >= y
  OBVIOUS
<1> HIDE DEF I
<1>3. \A x \in I : (\A y \in I : x >= y) => x = k
  BY <1>2
<1>4. Max(I) = k
  BY <1>2, <1>3 DEF Max
<1> QED
  BY <1>1, <1>2, <1>4

\* Of a page with a name after it, and a / after that, the parent is the page;
\* and the name is what comes after its last /.
LEMMA ParentIsPage ==
  ASSUME NEW page \in Seq(Marks), Len(page) # 0, page[Len(page)] = "/",
         NEW f \in Seq(Marks), Len(f) # 0, \A i \in 1 .. Len(f) : f[i] # "/"
  PROVE  /\ GetParentDir(page \o f) = page
         /\ GetParentDir(WithSlash(page \o f)) = page
         /\ ExtractName(page \o f) = f
<1> DEFINE s == page \o f
           k == Len(page)
           u == WithSlash(s)
<1>1. /\ s \in Seq(Marks) /\ k \in Nat \ {0} /\ Len(f) \in Nat \ {0} /\ Len(s) = k + Len(f)
      /\ \A i \in 1 .. k : s[i] = page[i]
      /\ \A i \in 1 .. Len(f) : s[k + i] = f[i]
  BY Concat
<1> HIDE DEF s
<1>2. s[k] = "/" /\ \A j \in k + 1 .. Len(s) : s[j] # "/"
  <2>1. s[k] = "/"
    BY <1>1
  <2>2. ASSUME NEW j \in k + 1 .. Len(s) PROVE s[j] # "/"
    <3>1. j - k \in 1 .. Len(f) /\ k + (j - k) = j
      BY <1>1
    <3>2. s[k + (j - k)] = f[j - k]
      BY <1>1, <3>1
    <3> QED
      BY <3>1, <3>2
  <2> QED
    BY <2>1, <2>2
<1>3. LastSlash(s, Len(s)) = k
  <2>1. Len(s) \in Nat /\ Len(s) <= Len(s) /\ k \in 1 .. Len(s)
    BY <1>1
  <2> HIDE DEF k
  <2> QED
    BY <1>1, <1>2, <2>1, LastSlashIs
<1>4. SubSeq(s, 1, k) = page /\ SubSeq(s, k + 1, Len(s)) = f
  BY <1>1
<1>5. s # <<>> /\ s[Len(s)] # "/"
  BY <1>1, <1>2
<1>6. GetParentDir(s) = page
  <2>1. Unsigned(Len(s) - 1) = Len(s) - 1 /\ ~(Len(s) - 1 >= Len(s)) /\ (Len(s) - 1) + 1 = Len(s)
    BY <1>1 DEF Unsigned
  <2> QED
    BY <1>1, <1>3, <1>4, <1>5, <2>1 DEF GetParentDir, Last
<1>7. /\ u \in Seq(Marks) /\ Len(u) = Len(s) + 1 /\ u[Len(u)] = "/" /\ u # <<>>
      /\ \A i \in 1 .. Len(s) : u[i] = s[i]
  BY <1>1, <1>5, Page
<1> HIDE DEF u
<1>8. GetParentDir(u) = page
  <2>1. /\ Unsigned(Len(u) - 2) = Len(u) - 2 /\ ~(Len(u) - 2 >= Len(u))
        /\ (Len(u) - 2) + 1 = Len(s) /\ Len(s) <= Len(u)
    BY <1>1, <1>7 DEF Unsigned
  <2>2. u[k] = "/" /\ \A j \in k + 1 .. Len(s) : u[j] # "/"
    BY <1>1, <1>2, <1>7
  <2>3. LastSlash(u, Len(s)) = k
    <3>1. Len(s) \in Nat /\ k \in 1 .. Len(s)
      BY <1>1
    <3> HIDE DEF k
    <3> QED
      BY <1>7, <2>1, <2>2, <3>1, LastSlashIs
  <2>4. SubSeq(u, 1, k) = page
    BY <1>1, <1>7
  <2> QED
    BY <1>1, <1>7, <2>1, <2>3, <2>4 DEF GetParentDir, Last
<1>9. ExtractName(s) = f
  BY <1>3, <1>4 DEF ExtractName
<1> QED
  BY <1>6, <1>8, <1>9 DEF s, u

NodeTurns == INSTANCE LoopProofs WITH Turn <- NodeChar

LinkTurns == INSTANCE LoopProofs WITH Turn <- BackLink

\* What the links of some nodes come to.
LinksOf(nodes) == LinkTurns!Result(RootLink, nodes)

LEMMA LinkTypes ==
  ASSUME NEW ns \in Seq(Seq(Marks))
  PROVE  LinksOf(ns) \in [links : Seq(Seq(Marks)), path : Seq(Marks)]
<1> DEFINE A == [links : Seq(Seq(Marks)), path : Seq(Marks)]
<1>1. Slash \in Seq(Marks)
  BY DEF Slash, Marks
<1>2. RootLink \in A
  BY <1>1 DEF RootLink
<1>3. ASSUME NEW a \in A, NEW node \in Seq(Marks) PROVE BackLink(a, node) \in A
  <2>1. a.path \in Seq(Marks) /\ a.links \in Seq(Seq(Marks))
    OBVIOUS
  <2>2. a.path \o node \in Seq(Marks)
    BY <2>1
  <2>3. (a.path \o node) \o Slash \in Seq(Marks)
    BY <1>1, <2>2, Concat
  <2>4. Append(a.links, a.path \o node) \in Seq(Seq(Marks))
    BY <2>1, <2>2
  <2> QED
    BY <2>3, <2>4 DEF BackLink
<1>4. Len(ns) \in Nat /\ \A n \in 1 .. Len(ns) : ns[n] \in Seq(Marks)
  OBVIOUS
<1>5. \A n \in 0 .. Len(ns) : LinkTurns!Turns(RootLink, ns)[n] \in A
  <2> HIDE DEF A
  <2> QED
    BY <1>2, <1>3, <1>4, LinkTurns!TurnsKeep
<1> QED
  BY <1>4, <1>5 DEF LinksOf, LinkTurns!Result

\* The last of a page's links leads to the page, for what is linked and what is
\* left are, turn by turn, what the page begins with.
LEMMA LastLinkLeads ==
  ASSUME NEW page \in Seq(Marks), Len(page) # 0, page[1] = "/", page[Len(page)] = "/",
         \A i \in 2 .. Len(page) : page[i] = "/" => page[i - 1] # "/"
  PROVE  WithSlash(Last(BackLinks(page))) = page
<1> DEFINE p == Tail(page)
           M == Len(p)
           N(n) == NodeTurns!Turns(NoNodes, p)[n]
           A == [nodes : Seq(Seq(Marks)), temp : Seq(Marks)]
           Begun(n) == SubSeq(page, 1, n + 1)
           S == {n \in 0 .. M : LinksOf(N(n).nodes).path \o N(n).temp = Begun(n)}
<1>1. /\ p \in Seq(Marks) /\ M \in Nat /\ Len(page) = M + 1
      /\ \A n \in 1 .. M : p[n] = page[n + 1] /\ p[n] \in Marks
  OBVIOUS
<1>2. Slash \in Seq(Marks) /\ Slash = <<"/">>
  BY DEF Slash, Marks
<1> HIDE DEF p
<1>3. /\ N(0) = NoNodes /\ \A n \in 1 .. M : N(n) = NodeChar(N(n - 1), p[n])
      /\ NodeTurns!Result(NoNodes, p) = N(M)
  BY <1>1, NodeTurns!TurnsFollow
<1>4. \A n \in 0 .. M : N(n) \in A
  <2>1. NoNodes \in A
    BY DEF NoNodes
  <2>2. \A a \in A : \A ch \in Marks : NodeChar(a, ch) \in A
    BY DEF NodeChar
  <2> HIDE DEF A
  <2> QED
    BY <1>1, <2>1, <2>2, NodeTurns!TurnsKeep
<1>5. \A n \in 1 .. M : Begun(n) = Append(Begun(n - 1), p[n]) /\ Begun(n - 1) \in Seq(Marks)
  <2>1. \A k \in 1 .. Len(page) - 1 :
          /\ SubSeq(page, 1, k + 1) = Append(SubSeq(page, 1, k), page[k + 1])
          /\ SubSeq(page, 1, k) \in Seq(Marks)
    OBVIOUS
  <2>2. \A n \in 1 .. M : n \in 1 .. Len(page) - 1 /\ (n - 1) + 1 = n
    BY <1>1
  <2> QED
    BY <1>1, <2>1, <2>2
<1>6. ASSUME NEW n \in 1 .. M, n - 1 \in S
      PROVE  /\ n \in S
             /\ p[n] = "/" => Last(LinksOf(N(n).nodes).links) = Begun(n - 1)
  <2> DEFINE nodes == N(n - 1).nodes
             temp == N(n - 1).temp
             l == LinksOf(nodes)
  <2>1. n - 1 \in 0 .. M /\ n \in 0 .. M
    BY <1>1
  <2>2. nodes \in Seq(Seq(Marks)) /\ temp \in Seq(Marks) /\ N(n) = NodeChar(N(n - 1), p[n])
    BY <1>3, <1>4, <2>1
  <2>3. l.path \o temp = Begun(n - 1)
    BY <1>6
  <2>4. l.links \in Seq(Seq(Marks)) /\ l.path \in Seq(Marks)
    BY <2>2, LinkTypes
  <2>5. /\ Begun(n) = Append(Begun(n - 1), p[n]) /\ Begun(n - 1) \in Seq(Marks)
        /\ p[n] \in Marks
    BY <1>1, <1>5
  <2> HIDE DEF Begun
  <2>6. CASE p[n] = "/"
    <3>1. N(n).nodes = Append(nodes, temp) /\ N(n).temp = <<>>
      BY <2>2, <2>6 DEF NodeChar
    <3>2. LinksOf(N(n).nodes) = BackLink(l, temp)
      BY <2>2, <3>1, LinkTurns!TurnsAppend DEF LinksOf
    <3>3. /\ LinksOf(N(n).nodes).path = l.path \o temp \o Slash
          /\ LinksOf(N(n).nodes).links = Append(l.links, l.path \o temp)
      <4> HIDE DEF l, temp, N
      <4> QED
        BY <3>2 DEF BackLink
    <3>4. LinksOf(N(n).nodes).path = Begun(n)
      <4>1. \A s \in Seq(Marks) : s \o <<"/">> = Append(s, "/")
        OBVIOUS
      <4> QED
        BY <1>2, <2>3, <2>5, <2>6, <3>3, <4>1
    <3>5. Begun(n) \in Seq(Marks)
      BY <2>5
    <3>6. \A s \in Seq(Marks) : s \o <<>> = s
      OBVIOUS
    <3>7. Last(LinksOf(N(n).nodes).links) = Begun(n - 1)
      <4>1. \A q \in Seq(Seq(Marks)) : \A x : Last(Append(q, x)) = x
        BY DEF Last
      <4> QED
        BY <2>3, <2>4, <3>3, <4>1
    <3>8. LinksOf(N(n).nodes).path \o N(n).temp = Begun(n)
      BY <3>1, <3>4, <3>5, <3>6
    <3> QED
      BY <2>1, <3>7, <3>8
  <2>7. CASE p[n] # "/"
    <3>1. N(n).nodes = nodes /\ N(n).temp = Append(temp, p[n])
      BY <2>2, <2>7 DEF NodeChar
    <3>2. \A s, t \in Seq(Marks) : \A x \in Marks : s \o Append(t, x) = Append(s \o t, x)
      OBVIOUS
    <3>3. l.path \o Append(temp, p[n]) = Append(l.path \o temp, p[n])
      BY <2>2, <2>4, <2>5, <3>2
    <3>4. LinksOf(N(n).nodes).path \o N(n).temp = Begun(n)
      BY <2>3, <2>5, <3>1, <3>3
    <3> QED
      BY <2>1, <2>7, <3>4
  <2> QED
    BY <2>6, <2>7
<1>7. LinksOf(<<>>) = RootLink /\ RootLink.path = Slash /\ RootLink.links = <<Slash>>
  <2>1. LinkTurns!Turns(RootLink, <<>>)[0] = RootLink /\ Len(<<>>) = 0
    BY LinkTurns!TurnsFollow
  <2> QED
    BY <2>1 DEF LinksOf, LinkTurns!Result, RootLink
<1>8. 0 .. M \subseteq S
  <2>1. 0 \in S
    <3>1. N(0).nodes = <<>> /\ N(0).temp = <<>>
      BY <1>3 DEF NoNodes
    <3>2. Begun(0) = <<"/">>
      <4>1. /\ SubSeq(page, 1, 1) \in Seq(Marks) /\ Len(SubSeq(page, 1, 1)) = 1
            /\ SubSeq(page, 1, 1)[1] = "/"
        BY <1>1
      <4>2. \A q \in Seq(Marks) : Len(q) = 1 /\ q[1] = "/" => q = <<"/">>
        OBVIOUS
      <4>3. SubSeq(page, 1, 1) = <<"/">>
        BY <4>1, <4>2, Zenon
      <4> QED
        BY <4>3
    <3>3. <<"/">> \o <<>> = <<"/">>
      OBVIOUS
    <3>4. LinksOf(N(0).nodes).path \o N(0).temp = Begun(0)
      BY <1>2, <1>7, <3>1, <3>2, <3>3
    <3>5. 0 \in 0 .. M
      BY <1>1
    <3> QED
      BY <3>4, <3>5
  <2> HIDE DEF S
  <2> QED
    BY <1>1, <1>6, <2>1, NodeTurns!IndexInduction
<1>9. BackLinks(page) = LinksOf(N(M).nodes).links
  <2>1. Nodes!Result(NoNodes, p) = NodeTurns!Result(NoNodes, p)
    BY DEF Nodes!Result, Nodes!Turns, NodeTurns!Result, NodeTurns!Turns
  <2>2. \A ns : Links!Result(RootLink, ns) = LinksOf(ns)
    BY DEF Links!Result, Links!Turns, LinkTurns!Result, LinkTurns!Turns, LinksOf
  <2> QED
    BY <1>3, <2>1, <2>2 DEF BackLinks, PathNodes, p
<1>10. CASE M = 0
  <2>1. BackLinks(page) = <<Slash>>
    BY <1>3, <1>7, <1>9, <1>10 DEF NoNodes
  <2>2. Last(<<Slash>>) = Slash /\ WithSlash(Slash) = Slash
    BY <1>2 DEF Last, WithSlash
  <2>3. page = <<"/">>
    BY <1>1, <1>10
  <2> QED
    BY <1>2, <2>1, <2>2, <2>3
<1>11. CASE M # 0
  <2>1. M \in 1 .. M /\ M - 1 \in 0 .. M /\ Len(page) = M + 1 /\ M + 1 \in 2 .. Len(page)
    BY <1>1, <1>11
  <2>2. p[M] = "/" /\ page[M] # "/"
    <3>1. (M + 1) - 1 = M
      BY <1>1
    <3> QED
      BY <1>1, <2>1, <3>1
  <2>3. M - 1 \in S
    <3> HIDE DEF S
    <3> QED
      BY <1>8, <2>1
  <2>4. Last(BackLinks(page)) = Begun(M - 1)
    BY <1>6, <1>9, <2>1, <2>2, <2>3
  <2>5. /\ Begun(M - 1) \in Seq(Marks) /\ Len(Begun(M - 1)) = M
        /\ Begun(M - 1)[M] = page[M] /\ Begun(M - 1) # <<>>
    <3>1. \A k \in 1 .. Len(page) :
            /\ SubSeq(page, 1, k) \in Seq(Marks) /\ Len(SubSeq(page, 1, k)) = k
            /\ SubSeq(page, 1, k)[k] = page[k] /\ SubSeq(page, 1, k) # <<>>
      OBVIOUS
    <3>2. (M - 1) + 1 = M /\ M \in 1 .. Len(page)
      BY <1>1, <2>1
    <3> QED
      BY <3>1, <3>2
  <2>6. Append(Begun(M - 1), "/") = Begun(M) /\ Begun(M) = page
    <3>1. SubSeq(page, 1, Len(page)) = page
      OBVIOUS
    <3> QED
      BY <1>5, <2>1, <2>2, <3>1
  <2> HIDE DEF Begun
  <2>7. WithSlash(Begun(M - 1)) = Begun(M - 1) \o Slash
    BY <2>2, <2>5 DEF WithSlash, Last
  <2>8. \A s \in Seq(Marks) : s \o <<"/">> = Append(s, "/")
    OBVIOUS
  <2> QED
    BY <1>2, <2>4, <2>5, <2>6, <2>7, <2>8
<1> QED
  BY <1>10, <1>11

LEMMA LeadsUp ==
  ASSUME NEW uri \in Seq(Marks), IsPageUri(uri), NEW name \in Seq(Marks), IsName(name)
  PROVE  UpLeadsBack(uri, name)
<1> DEFINE page == WithSlash(uri)
           f == MakeHttpFriendly(name)
<1>1. uri # <<>> /\ uri[1] = "/" /\ \A i \in 2 .. Len(uri) : uri[i] = "/" => uri[i - 1] # "/"
  BY DEF IsPageUri
<1>2. Len(name) \in Nat \ {0} /\ \A i \in 1 .. Len(name) : name[i] # "/"
  BY DEF IsName, Contains
<1>3. page \in Seq(Marks) /\ Len(page) \in Nat \ {0} /\ page[Len(page)] = "/"
  BY <1>1, Page
<1>4. page[1] = "/" /\ \A i \in 2 .. Len(page) : page[i] = "/" => page[i - 1] # "/"
  <2>1. CASE page = uri
    BY <1>1, <2>1
  <2>2. CASE /\ Len(page) = Len(uri) + 1 /\ uri[Len(uri)] # "/"
             /\ \A i \in 1 .. Len(uri) : page[i] = uri[i]
    <3> HIDE DEF page
    <3>1. Len(uri) \in Nat \ {0} /\ 1 \in 1 .. Len(uri)
      BY <1>1
    <3>2. ASSUME NEW i \in 2 .. Len(page), page[i] = "/" PROVE page[i - 1] # "/"
      <4>1. CASE i \in 2 .. Len(uri)
        <5>1. i - 1 \in 1 .. Len(uri) /\ i \in 1 .. Len(uri)
          BY <3>1, <4>1
        <5> QED
          BY <1>1, <2>2, <3>2, <4>1, <5>1
      <4>2. CASE i = Len(uri) + 1
        <5>1. i - 1 = Len(uri) /\ Len(uri) \in 1 .. Len(uri)
          BY <3>1, <4>2
        <5> QED
          BY <2>2, <5>1
      <4> QED
        BY <2>2, <3>1, <4>1, <4>2
    <3> QED
      BY <1>1, <2>2, <3>1, <3>2
  <2> QED
    BY <1>1, <2>1, <2>2, Page
<1>5. f \in Seq(Marks) /\ Len(f) # 0 /\ \A i \in 1 .. Len(f) : f[i] # "/"
  BY <1>2, Friendly
<1> HIDE DEF page, f
<1>6. GetParentDir(page \o f) = page /\ GetParentDir(WithSlash(page \o f)) = page
  BY <1>3, <1>5, ParentIsPage
<1>7. ExtractName(page \o name) = name
  BY <1>2, <1>3, ParentIsPage
<1>8. WithSlash(Last(BackLinks(page))) = page
  BY <1>3, <1>4, LastLinkLeads
<1>9. EntryLink(uri, name) = page \o f
  BY DEF EntryLink, page, f
<1> QED
  BY <1>6, <1>7, <1>8, <1>9 DEF UpLeadsBack, page

-----------------------------------------------------------------------------
(***************************************************************************)
(* Sizes.  As far as the shifts have come, the size is the quotient in the *)
(* unit of the order, rounded down, and in every smaller unit it is more   *)
(* than a Kilo.                                                            *)
(***************************************************************************)
ProductTurns == INSTANCE LoopProofs WITH Turn <- Times

ShiftTurns == INSTANCE LoopProofs WITH Turn <- Shift

\* Arithmetic that is not linear.
LEMMA TimesKeepsOrder == \A a, b, u \in Nat : a <= b => a * u <= b * u
OBVIOUS

LEMMA TimesRegroups == \A a, k, u \in Nat : a * (u * k) = (a * k) * u
OBVIOUS

LEMMA DivRounds ==
  \A b \in Nat : \A k \in Nat \ {0} :
    (b \div k) * k <= b /\ b < ((b \div k) + 1) * k /\ b \div k \in Nat
OBVIOUS

LEMMA DivIs ==
  \A b, q \in Nat : \A k \in Nat \ {0} : q * k <= b /\ b < (q + 1) * k => b \div k = q
OBVIOUS

LEMMA DivShrinks ==
  \A b \in Nat : \A k \in Nat \ {0, 1} : b # 0 => b \div k < b
OBVIOUS

LEMMA DivUndoes ==
  \A u, k \in Nat \ {0} : u * k \in Nat \ {0} /\ (u * k) \div k = u
OBVIOUS

\* Each unit is a Kilo of the one before it.
LEMMA Units ==
  /\ Unit(0) = 1
  /\ \A n \in Nat : Unit(n) \in Nat \ {0} /\ Unit(n + 1) = Unit(n) * Kilo
<1> DEFINE kilos(n) == [i \in 1 .. n |-> Kilo]
           S == {n \in Nat : Unit(n) \in Nat \ {0}}
<1>1. \A n \in Nat : Len(kilos(n)) = n /\ kilos(n) \in Seq({Kilo})
  OBVIOUS
<1>2. \A q : Product!Result(1, q) = ProductTurns!Result(1, q)
  BY DEF Product!Result, Product!Turns, ProductTurns!Result, ProductTurns!Turns
<1>3. Unit(0) = 1
  <2>1. ProductTurns!Turns(1, kilos(0))[0] = 1 /\ ProductTurns!Result(1, kilos(0)) = ProductTurns!Turns(1, kilos(0))[0]
    <3>1. Len(kilos(0)) = 0
      BY <1>1
    <3> HIDE DEF kilos
    <3> QED
      BY <3>1, ProductTurns!TurnsFollow
  <2> QED
    BY <1>2, <2>1 DEF Unit
<1>4. ASSUME NEW n \in Nat PROVE Unit(n + 1) = Unit(n) * Kilo
  <2>1. kilos(n + 1) = Append(kilos(n), Kilo)
    OBVIOUS
  <2>2. kilos(n) \in Seq({Kilo})
    BY <1>1
  <2>3. Unit(n) = ProductTurns!Result(1, kilos(n)) /\ Unit(n + 1) = ProductTurns!Result(1, kilos(n + 1))
    BY <1>2 DEF Unit
  <2> HIDE DEF kilos
  <2>4. ProductTurns!Result(1, Append(kilos(n), Kilo)) = Times(ProductTurns!Result(1, kilos(n)), Kilo)
    BY <2>2, ProductTurns!TurnsAppend
  <2> QED
    BY <2>1, <2>3, <2>4 DEF Times
<1>5. 0 \in S
  BY <1>3
<1>6. ASSUME NEW n \in Nat, n \in S PROVE n + 1 \in S
  <2>1. Kilo \in Nat \ {0} /\ Unit(n) \in Nat \ {0}
    BY <1>6, PathsAssumption
  <2> QED
    BY <1>4, <2>1, DivUndoes
<1>7. Nat \subseteq S
  <2> HIDE DEF S
  <2> QED
    BY <1>5, <1>6, ProductTurns!Induction
<1> QED
  BY <1>3, <1>4, <1>7

\* What n turns make of bytes.
Shifted(st, b, n) ==
  /\ st = [order |-> st.order, quot |-> st.quot, rem |-> st.rem]
  /\ st.order \in Nat /\ st.quot \in Nat
  /\ st.quot * Unit(st.order) <= b /\ b < (st.quot + 1) * Unit(st.order)
  /\ st.rem = IF st.order = 0 THEN 0 ELSE (b \div Unit(st.order - 1)) % Kilo
  /\ \A m \in 0 .. st.order - 1 : b \div Unit(m) > Kilo
  /\ st.quot <= Kilo \/ st.quot + n <= b

LEMMA ShiftStep ==
  ASSUME NEW b \in Nat, NEW n \in Nat, NEW turn, NEW st, Shifted(st, b, n)
  PROVE  Shifted(Shift(st, turn), b, n + 1)
<1> DEFINE q == st.quot
           o == st.order
           r == q \div Kilo
           u == Unit(o)
           next == Shift(st, turn)
<1>1. /\ q \in Nat /\ o \in Nat /\ q * u <= b /\ b < (q + 1) * u
      /\ st = [order |-> o, quot |-> q, rem |-> st.rem]
      /\ q <= Kilo \/ q + n <= b
      /\ \A m \in 0 .. o - 1 : b \div Unit(m) > Kilo
  BY DEF Shifted
<1>2. /\ Kilo \in Nat \ {0} /\ Kilo \in Nat \ {0, 1}
      /\ u \in Nat \ {0} /\ Unit(o + 1) = u * Kilo /\ u * Kilo \in Nat \ {0}
  BY <1>1, PathsAssumption, Units, DivUndoes
<1>3. CASE q <= Kilo
  BY <1>3 DEF Shift, Shifted
<1>4. CASE ~(q <= Kilo)
  <2>1. next = [order |-> o + 1, quot |-> r, rem |-> q % Kilo]
    BY <1>4 DEF Shift
  <2>2. r * Kilo <= q /\ q < (r + 1) * Kilo /\ r \in Nat
    BY <1>1, <1>2, DivRounds
  <2>3. b \div u = q
    <3> HIDE DEF q, u
    <3> QED
      BY <1>1, <1>2, DivIs
  <2>4. r < q
    <3>1. q # 0
      BY <1>2, <1>4
    <3> HIDE DEF q
    <3> QED
      BY <1>1, <1>2, <3>1, DivShrinks
  <2> HIDE DEF q, o, r, u, next
  <2>5. r * (u * Kilo) <= b
    <3>1. r * (u * Kilo) = (r * Kilo) * u
      BY <1>2, <2>2, TimesRegroups
    <3>2. r * Kilo \in Nat
      BY <1>2, <2>2
    <3>3. (r * Kilo) * u <= q * u
      BY <1>1, <1>2, <2>2, <3>2, TimesKeepsOrder
    <3>4. (r * Kilo) * u \in Nat /\ q * u \in Nat
      BY <1>1, <1>2, <3>2
    <3> QED
      BY <1>1, <3>1, <3>3, <3>4
  <2>6. b < (r + 1) * (u * Kilo)
    <3>1. r + 1 \in Nat /\ q + 1 \in Nat
      BY <1>1, <2>2
    <3>2. (r + 1) * (u * Kilo) = ((r + 1) * Kilo) * u
      BY <1>2, <3>1, TimesRegroups
    <3>3. (r + 1) * Kilo \in Nat
      BY <1>2, <3>1
    <3>4. q + 1 <= (r + 1) * Kilo
      BY <1>1, <2>2, <3>3
    <3>5. (q + 1) * u <= ((r + 1) * Kilo) * u
      BY <1>2, <3>1, <3>3, <3>4, TimesKeepsOrder
    <3>6. (q + 1) * u \in Nat /\ ((r + 1) * Kilo) * u \in Nat
      BY <1>2, <3>1, <3>3
    <3> QED
      BY <1>1, <3>2, <3>5, <3>6
  <2>7. next.order = o + 1 /\ next.quot = r /\ next.rem = q % Kilo
    BY <2>1
  <2>8. next.rem = IF next.order = 0 THEN 0 ELSE (b \div Unit(next.order - 1)) % Kilo
    <3>1. (o + 1) - 1 = o /\ o + 1 # 0
      BY <1>1
    <3> QED
      BY <2>3, <2>7, <3>1 DEF u
  <2>9. \A m \in 0 .. next.order - 1 : b \div Unit(m) > Kilo
    <3> SUFFICES ASSUME NEW m \in 0 .. o PROVE b \div Unit(m) > Kilo
      <4>1. (o + 1) - 1 = o
        BY <1>1
      <4> QED
        BY <2>7, <4>1
    <3>1. CASE m = o
      BY <1>1, <1>2, <1>4, <2>3, <3>1 DEF u
    <3>2. CASE m # o
      BY <1>1, <3>2
    <3> QED
      BY <3>1, <3>2
  <2>10. next.quot <= Kilo \/ next.quot + (n + 1) <= b
    <3>1. q + n <= b
      BY <1>1, <1>4
    <3> QED
      BY <1>1, <2>2, <2>4, <2>7, <3>1
  <2>11. next.quot * Unit(next.order) <= b /\ b < (next.quot + 1) * Unit(next.order)
    BY <1>2, <2>5, <2>6, <2>7
  <2>12. next = [order |-> next.order, quot |-> next.quot, rem |-> next.rem]
    BY <2>1
  <2>13. next.order \in Nat /\ next.quot \in Nat
    BY <1>1, <2>2, <2>7
  <2> QED
    BY <2>8, <2>9, <2>10, <2>11, <2>12, <2>13 DEF Shifted, next
<1> QED
  BY <1>3, <1>4

\* The loop ends, for each turn takes one away, and what it ends with is right.
LEMMA ShiftsEnd ==
  ASSUME NEW b \in Nat
  PROVE  LET last == Shifts!Result(Unshifted(b), [turn \in 1 .. b |-> turn])
         IN  Shifted(last, b, b) /\ last.quot <= Kilo
<1> DEFINE w == [turn \in 1 .. b |-> turn]
           T(n) == ShiftTurns!Turns(Unshifted(b), w)[n]
           S == {n \in 0 .. b : Shifted(T(n), b, n)}
<1>1. Len(w) = b /\ Len(w) \in Nat
  OBVIOUS
<1> HIDE DEF w
<1>2. /\ T(0) = Unshifted(b) /\ \A n \in 1 .. b : T(n) = Shift(T(n - 1), w[n])
      /\ ShiftTurns!Result(Unshifted(b), w) = T(b)
  BY <1>1, ShiftTurns!TurnsFollow
<1>3. 0 \in S
  <2>1. /\ Unshifted(b).order = 0 /\ Unshifted(b).quot = b /\ Unshifted(b).rem = 0
        /\ Unshifted(b) = [order |-> 0, quot |-> b, rem |-> 0]
    BY DEF Unshifted
  <2>2. b * 1 <= b /\ b < (b + 1) * 1 /\ b + 0 <= b /\ 0 .. 0 - 1 = {} /\ 0 \in Nat
    OBVIOUS
  <2>3. Shifted(Unshifted(b), b, 0)
    BY <2>1, <2>2, Units DEF Shifted
  <2> QED
    BY <1>2, <2>3
<1>4. ASSUME NEW n \in 1 .. b, n - 1 \in S PROVE n \in S
  <2>1. n - 1 \in Nat /\ (n - 1) + 1 = n /\ n \in 0 .. b
    OBVIOUS
  <2>2. Shifted(T(n - 1), b, n - 1) /\ T(n) = Shift(T(n - 1), w[n])
    BY <1>2, <1>4
  <2>3. Shifted(Shift(T(n - 1), w[n]), b, (n - 1) + 1)
    BY <2>1, <2>2, ShiftStep
  <2> QED
    BY <2>1, <2>2, <2>3
<1>5. Shifted(T(b), b, b)
  <2>1. 0 .. b \subseteq S
    <3> HIDE DEF S
    <3> QED
      BY <1>3, <1>4, ShiftTurns!IndexInduction
  <2> QED
    BY <2>1
<1>6. T(b).quot <= Kilo
  <2> DEFINE q == T(b).quot
  <2>1. q \in Nat /\ (q <= Kilo \/ q + b <= b)
    BY <1>5 DEF Shifted
  <2> HIDE DEF q
  <2>2. q <= Kilo
    BY <2>1, PathsAssumption
  <2> QED
    BY <2>2 DEF q
<1>7. Shifts!Result(Unshifted(b), w) = T(b)
  <2>1. Shifts!Result(Unshifted(b), w) = ShiftTurns!Result(Unshifted(b), w)
    BY DEF Shifts!Result, Shifts!Turns, ShiftTurns!Result, ShiftTurns!Turns
  <2> QED
    BY <1>2, <2>1
<1> QED
  BY <1>5, <1>6, <1>7 DEF w

LEMMA SizeRounds ==
  ASSUME NEW b \in Nat
  PROVE  SizeIsRounded(b)
<1> DEFINE last == Shifts!Result(Unshifted(b), [turn \in 1 .. b |-> turn])
           r == HumanReadable(b)
<1>1. Shifted(last, b, b) /\ last.quot <= Kilo
  BY ShiftsEnd
<1>2. r = [last EXCEPT !.order = IF last.order >= SizeNames THEN SizeNames - 1 ELSE last.order]
  BY DEF HumanReadable
<1> HIDE DEF last, r
<1>3. /\ last = [order |-> last.order, quot |-> last.quot, rem |-> last.rem]
      /\ last.order \in Nat /\ SizeNames \in Nat \ {0}
  BY <1>1, PathsAssumption DEF Shifted
<1>4. ASSUME b \div Unit(SizeNames - 1) <= Kilo PROVE r = last
  <2>1. ~(last.order >= SizeNames)
    <3> SUFFICES ASSUME last.order >= SizeNames PROVE FALSE
      OBVIOUS
    <3>1. SizeNames - 1 \in 0 .. last.order - 1 /\ SizeNames - 1 \in Nat
      BY <1>3
    <3>2. b \div Unit(SizeNames - 1) > Kilo
      BY <1>1, <3>1 DEF Shifted
    <3>3. b \div Unit(SizeNames - 1) \in Nat /\ Kilo \in Nat
      BY <3>1, Units, DivRounds, PathsAssumption
    <3> QED
      BY <1>4, <3>2, <3>3
  <2> QED
    BY <1>2, <1>3, <2>1
<1>5. last.order # 0 => Unit(last.order) \div Kilo = Unit(last.order - 1)
  <2> SUFFICES ASSUME last.order # 0 PROVE Unit(last.order) \div Kilo = Unit(last.order - 1)
    OBVIOUS
  <2>1. last.order - 1 \in Nat /\ (last.order - 1) + 1 = last.order
    BY <1>3
  <2>2. Unit(last.order) = Unit(last.order - 1) * Kilo /\ Unit(last.order - 1) \in Nat \ {0}
    BY <2>1, Units
  <2> QED
    BY <2>2, DivUndoes, PathsAssumption
<1>6. /\ last.quot * Unit(last.order) <= b /\ b < (last.quot + 1) * Unit(last.order)
      /\ last.rem = IF last.order = 0 THEN 0 ELSE (b \div Unit(last.order - 1)) % Kilo
  BY <1>1 DEF Shifted
<1>7. last.rem = IF last.order = 0 THEN 0 ELSE (b \div (Unit(last.order) \div Kilo)) % Kilo
  BY <1>5, <1>6
<1> QED
  BY <1>1, <1>4, <1>6, <1>7 DEF SizeIsRounded, r

-----------------------------------------------------------------------------
(***************************************************************************)
(* The theorems.  A request, a path and a size are made up one character   *)
(* and one byte at a time, so the only invariant they need is their type.  *)
(***************************************************************************)
Types ==
  /\ request \in Seq(RequestChars)
  /\ path \in Seq(PathChars)
  /\ bytes \in Nat

THEOREM TypeCorrect == Spec => []Types
<1>1. Init => Types
  BY DEF Init, Types
<1>2. Types /\ [Next]_vars => Types'
  <2> SUFFICES ASSUME Types, [Next]_vars PROVE Types'
    OBVIOUS
  <2>1. CASE NextRequest
    BY <2>1 DEF NextRequest, Types
  <2>2. CASE NextPath
    BY <2>2 DEF NextPath, Types
  <2>3. CASE NextSize
    BY <2>3 DEF NextSize, Types
  <2>4. CASE UNCHANGED vars
    BY <2>4 DEF vars, Types
  <2> QED
    BY <2>1, <2>2, <2>3, <2>4 DEF Next
<1> QED
  BY <1>1, <1>2, PTL DEF Spec

\* What parse has read of a request stays as it is when more of it comes in,
\* whatever the characters and whatever the size of the buffer (http.cpp:82,
\* http_req.cpp:32-53).
THEOREM ReadStands == Spec => []ParsedStands
<1>1. ASSUME request \in Seq(RequestChars) PROVE ParsedStands
  <2> SUFFICES ASSUME request # <<>>
               PROVE  Stands(Parse(CutLines(Front(request))), Parse(CutLines(request)))
    BY DEF ParsedStands, Stands
  <2>1. /\ CutLines(request) \in Seq(Seq(Chars)) /\ CutLines(Front(request)) \in Seq(Seq(Chars))
        /\ IsPrefix(CutLines(Front(request)), CutLines(request))
    BY <1>1, FrontLines
  <2> QED
    BY <2>1, ParseStands
<1>2. Types => ParsedStands
  BY <1>1 DEF Types
<1> QED
  BY <1>2, TypeCorrect, PTL

\* recv_req cuts what it received into its lines and loses none, but one that
\* ends with a full buffer (http.cpp:78-93).
THEOREM LinesCome == Spec => []EveryLineComes
<1>1. Types => EveryLineComes
  BY EveryLine DEF Types, EveryLineComes
<1> QED
  BY <1>1, TypeCorrect, PTL

\* A piece of the path is one of a page's characters.
LEMMA Pieces ==
  ASSUME path \in Seq(PathChars), NEW i \in DOMAIN path
  PROVE  /\ SubSeq(path, 1, i) \in Seq(Marks) /\ SubSeq(path, 1, i) # <<>>
         /\ SubSeq(path, i + 1, Len(path)) \in Seq(Marks)
<1>1. /\ SubSeq(path, 1, i) \in Seq(PathChars) /\ Len(SubSeq(path, 1, i)) = i /\ i # 0
      /\ SubSeq(path, i + 1, Len(path)) \in Seq(PathChars)
  OBVIOUS
<1>2. \A s \in Seq(PathChars) : s \in Seq(Marks)
  <2>1. PathChars \subseteq Marks
    BY DEF Marks
  <2> QED
    BY <2>1
<1>3. Len(<<>>) = 0
  OBVIOUS
<1> QED
  BY <1>1, <1>2, <1>3

\* Putting a slash between the two pieces makes no "%20".
LEMMA PiecesContain ==
  ASSUME path \in Seq(PathChars), NEW i \in DOMAIN path, ~Contains(path, "%20")
  PROVE  ~Contains(WithSlash(SubSeq(path, 1, i)) \o SubSeq(path, i + 1, Len(path)), "%20")
<1> DEFINE uri == SubSeq(path, 1, i)
           name == SubSeq(path, i + 1, Len(path))
           page == WithSlash(uri)
<1>1. \A j \in 1 .. Len(path) : path[j] # "%20"
  BY DEF Contains
<1>2. /\ i \in 1 .. Len(path) /\ Len(path) \in Nat
      /\ Len(uri) = i /\ \A j \in 1 .. i : uri[j] = path[j]
      /\ Len(name) = Len(path) - i /\ \A j \in 1 .. Len(path) - i : name[j] = path[i + j]
  OBVIOUS
<1>3. uri \in Seq(Marks) /\ uri # <<>> /\ name \in Seq(Marks)
  BY Pieces
<1> HIDE DEF uri, name
<1>4. \A j \in 1 .. Len(uri) : uri[j] # "%20"
  BY <1>1, <1>2
<1>5. ASSUME NEW j \in 1 .. Len(name) PROVE name[j] # "%20"
  <2>1. j \in 1 .. Len(path) - i /\ i + j \in 1 .. Len(path)
    BY <1>2
  <2> QED
    BY <1>1, <1>2, <2>1
<1>6. page \in Seq(Marks) /\ Len(page) \in Nat /\ \A j \in 1 .. Len(page) : page[j] # "%20"
  <2>1. /\ page \in Seq(Marks) /\ Len(page) \in Nat \ {0} /\ Len(uri) \in Nat
        /\ page[Len(page)] = "/"
        /\ \/ page = uri
           \/ Len(page) = Len(uri) + 1 /\ \A j \in 1 .. Len(uri) : page[j] = uri[j]
    BY <1>3, Page
  <2> HIDE DEF page
  <2>2. ASSUME NEW j \in 1 .. Len(page) PROVE page[j] # "%20"
    <3>1. CASE j = Len(page)
      BY <2>1, <3>1
    <3>2. CASE j # Len(page)
      BY <1>4, <2>1, <3>2
    <3> QED
      BY <3>1, <3>2
  <2> QED
    BY <2>1, <2>2
<1> HIDE DEF page
<1>7. /\ page \o name \in Seq(Marks) /\ Len(page \o name) = Len(page) + Len(name)
      /\ \A j \in 1 .. Len(page) : (page \o name)[j] = page[j]
      /\ \A j \in 1 .. Len(name) : (page \o name)[Len(page) + j] = name[j]
  BY <1>3, <1>6, Concat
<1>8. ASSUME NEW k \in 1 .. Len(page \o name) PROVE (page \o name)[k] # "%20"
  <2>1. CASE k \in 1 .. Len(page)
    BY <1>6, <1>7, <2>1
  <2>2. CASE k \notin 1 .. Len(page)
    <3>1. Len(name) \in Nat
      BY <1>3
    <3>2. k - Len(page) \in 1 .. Len(name) /\ k = Len(page) + (k - Len(page))
      BY <1>6, <1>7, <2>2, <3>1
    <3> QED
      BY <1>5, <1>7, <3>2
  <2> QED
    BY <2>1, <2>2
<1> DEFINE whole == page \o name
<1>9. whole \in Seq(Marks) /\ \A k \in 1 .. Len(whole) : whole[k] # "%20"
  BY <1>7, <1>8
<1> HIDE DEF whole
<1>10. ~Contains(whole, "%20")
  BY <1>9 DEF Contains
<1> QED
  BY <1>10 DEF whole, page, uri, name

\* The link of an entry fetches that entry, however long the uri and the name:
\* a file if its path has no "%20", a directory if its name has no space.  The
\* page's uri has none (UriHasNoSpace).
THEOREM LinksFetch == Spec => []EntryIsFetched
<1>1. ASSUME path \in Seq(PathChars) PROVE EntryIsFetched
  <2> SUFFICES ASSUME NEW i \in PageUris, ~Contains(SubSeq(path, 1, i), "SP")
               PROVE  LET uri == SubSeq(path, 1, i)
                          name == SubSeq(path, i + 1, Len(path))
                      IN  /\ ~Contains(path, "%20") => LinkFetches(uri, name, "file")
                          /\ ~Contains(name, "SP") => LinkFetches(uri, name, "dir")
    BY DEF EntryIsFetched
  <2> DEFINE uri == SubSeq(path, 1, i)
             name == SubSeq(path, i + 1, Len(path))
  <2>1. i \in DOMAIN path
    BY DEF PageUris
  <2>2. uri \in Seq(Marks) /\ uri # <<>> /\ name \in Seq(Marks)
    BY <1>1, <2>1, Pieces
  <2>3. ~Contains(path, "%20") => ~Contains(WithSlash(uri) \o name, "%20")
    BY <1>1, <2>1, PiecesContain
  <2> HIDE DEF uri, name
  <2>4. /\ ~Contains(path, "%20") => LinkFetches(uri, name, "file")
        /\ ~Contains(name, "SP") => LinkFetches(uri, name, "dir")
    BY <2>2, <2>3, LinkLeads DEF uri
  <2> QED
    BY <2>4 DEF uri, name
<1>2. Types => EntryIsFetched
  BY <1>1 DEF Types
<1> QED
  BY <1>2, TypeCorrect, PTL

\* Links down and up lead back to the same page, and the search for the parent
\* does not leave the uri, however long the uri and the name
\* (html_rsp.cpp:137-183).
THEOREM LinksLeadUp == Spec => []UpFromEntry
<1>1. ASSUME path \in Seq(PathChars) PROVE UpFromEntry
  <2> SUFFICES ASSUME NEW i \in PageUris, IsName(SubSeq(path, i + 1, Len(path)))
               PROVE  UpLeadsBack(SubSeq(path, 1, i), SubSeq(path, i + 1, Len(path)))
    BY DEF UpFromEntry
  <2>1. i \in DOMAIN path /\ IsPageUri(SubSeq(path, 1, i))
    BY DEF PageUris
  <2> QED
    BY <1>1, <2>1, Pieces, LeadsUp
<1>2. Types => UpFromEntry
  BY <1>1 DEF Types
<1> QED
  BY <1>2, TypeCorrect, PTL

\* The size in the listing is right, of any number of bytes (filesys.cpp:176-187).
THEOREM SizesRound == Spec => []SizesAreRounded
<1>1. Types => SizesAreRounded
  BY SizeRounds DEF Types, SizesAreRounded
<1> QED
  BY <1>1, TypeCorrect, PTL
=============================================================================
