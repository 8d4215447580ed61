-------------------------- MODULE ConversionsProofs --------------------------
(***************************************************************************)
(* What http_request makes of a request and what the encodings give, for    *)
(* every boundary, body, target, token and form value.                      *)
(***************************************************************************)
EXTENDS HttpRequest, Encoding, SequenceLemmas, FiniteSetTheorems

-----------------------------------------------------------------------------
(* The multipart parser.  Matched says that the lookbehind buffer holds the *)
(* bytes that looked like a boundary, Held that these and what the callback *)
(* has collected are the bytes of the part so far.                          *)

InPart == {"part_data", "part_data_almost_boundary", "part_data_boundary"}

\* The lookbehind buffer, where it is read.
Matched ==
    /\ state \in {"part_data_almost_boundary", "part_data_boundary"} => look[0] = CR
    /\ state = "part_data_boundary" =>
        /\ look[1] = LF
        /\ \A k \in 1..index : look[k + 1] = Boundary[k]

Held ==
    /\ state \notin InPart => part = <<>>
    /\ state = "part_data" =>
        part \o (IF i = Len(body) THEN <<>> ELSE Piece(mark, i)) = Piece(first, i)
    /\ state = "part_data_almost_boundary" => part \o Lookbehind(1) = Piece(first, i)
    /\ state = "part_data_boundary" => part \o Lookbehind(2 + index) = Piece(first, i)

ParserInv == ParserTypeOK /\ Matched /\ Held

LEMMA PieceType ==
    ASSUME body \in Seq(Byte), NEW a \in Nat, NEW b \in Nat, a <= b, b <= Len(body)
    PROVE  Piece(a, b) \in Seq(Byte) /\ Len(Piece(a, b)) = b - a
           /\ \A k \in 1 .. b - a : Piece(a, b)[k] = body[a + k]
  <1>1. SubSeq(body, a + 1, b) \in Seq(Byte) /\ Len(SubSeq(body, a + 1, b)) = b - a
    BY SubSeqProperties
  <1>2. \A k \in 1 .. b - a : SubSeq(body, a + 1, b)[k] = body[a + k]
    OBVIOUS
  <1> QED
    BY <1>1, <1>2 DEF Piece

LEMMA PieceEmpty == ASSUME body \in Seq(Byte), NEW a \in 0..Len(body) PROVE Piece(a, a) = <<>>
  BY DEF Piece

LEMMA PiecesJoin ==
    ASSUME body \in Seq(Byte), NEW a \in Nat, NEW b \in Nat, NEW d \in Nat,
           a <= b, b <= d, d <= Len(body)
    PROVE  Piece(a, b) \o Piece(b, d) = Piece(a, d)
  <1>1. a + 1 \in 1 .. Len(body) + 1 /\ b \in (a + 1) - 1 .. Len(body) /\ d \in b..Len(body)
    OBVIOUS
  <1>2. SubSeq(body, a + 1, b) \o SubSeq(body, b + 1, d) = SubSeq(body, a + 1, d)
    BY <1>1, ConcatAdjacentSubSeq
  <1> QED
    BY <1>2 DEF Piece

LEMMA PieceGrows ==
    ASSUME body \in Seq(Byte), NEW a \in Nat, NEW b \in Nat, a <= b, b < Len(body)
    PROVE  /\ Piece(a, b + 1) = Piece(a, b) \o <<body[b + 1]>>
           /\ Piece(a, b) \in Seq(Byte) /\ body[b + 1] \in Byte
  <1>0. b + 1 \in Nat /\ b <= b + 1 /\ b + 1 <= Len(body) /\ b <= Len(body)
    OBVIOUS
  <1>1. Piece(a, b) \o Piece(b, b + 1) = Piece(a, b + 1)
    BY <1>0, PiecesJoin
  <1>2. Piece(b, b + 1) = <<body[b + 1]>>
    <2> DEFINE p == Piece(b, b + 1)
               q == <<body[b + 1]>>
    <2>1. (b + 1) - b = 1
      OBVIOUS
    <2>2. p \in Seq(Byte) /\ Len(p) = 1 /\ p[1] = body[b + 1]
      <3>1. p \in Seq(Byte) /\ Len(p) = (b + 1) - b
            /\ \A k \in 1 .. (b + 1) - b : p[k] = body[b + k]
        BY <1>0, PieceType
      <3> HIDE DEF p
      <3> QED
        BY <2>1, <3>1
    <2> HIDE DEF p
    <2>3. p = q
      BY <2>2
    <2> QED
      BY <2>3 DEF p
  <1>3. Piece(a, b) \in Seq(Byte)
    BY <1>0, PieceType
  <1>4. body[b + 1] \in Byte
    BY <1>0
  <1> QED
    BY <1>1, <1>2, <1>3, <1>4

LEMMA LookbehindType ==
    ASSUME NEW n \in Nat, \A k \in 0 .. n - 1 : look[k] \in Byte
    PROVE  Lookbehind(n) \in Seq(Byte) /\ Len(Lookbehind(n)) = n
  <1>1. Lookbehind(n) \in [1..n -> Byte]
    BY DEF Lookbehind
  <1>2. Lookbehind(n) \in Seq(Byte)
    BY <1>1, FunctionIsSequence
  <1> QED
    BY <1>1, <1>2, LenProperties

\* One more byte of the lookbehind buffer is set.
LEMMA LookbehindGrows ==
    ASSUME NEW n \in 0 .. Len(Boundary) + 1, NEW b \in Byte, \A k \in 0 .. n - 1 : look[k] \in Byte,
           look' = [look EXCEPT ![n] = b], look \in [0 .. Len(Boundary) + 1 -> Byte \cup {"unset"}]
    PROVE  [k \in 1 .. n + 1 |-> look'[k - 1]] = Lookbehind(n) \o <<b>>
  <1>0. Len(Boundary) \in Nat
    BY MultipartAssumption
  <1>1. \A k \in 0..n : look'[k] = IF k = n THEN b ELSE look[k]
    BY <1>0
  <1>2. \A k \in 0 .. (n + 1) - 1 : look'[k] \in Byte
    BY <1>1
  <1> DEFINE s == Lookbehind(n)
             t == [k \in 1 .. n + 1 |-> look'[k - 1]]
  <1>3. s \in Seq(Byte) /\ Len(s) = n /\ \A k \in 1..n : s[k] = look[k - 1]
    BY LookbehindType DEF Lookbehind
  <1>4. t \in [1 .. n + 1 -> Byte]
    BY <1>2
  <1>5. t \in Seq(Byte) /\ Len(t) = n + 1 /\ \A k \in 1 .. n + 1 : t[k] = look'[k - 1]
    BY <1>4, FunctionIsSequence
  <1> HIDE DEF s, t
  <1>6. s \o <<b>> \in Seq(Byte) /\ Len(s \o <<b>>) = n + 1
        /\ \A k \in 1 .. n + 1 : (s \o <<b>>)[k] = IF k <= n THEN s[k] ELSE b
    BY <1>3
  <1>7. \A k \in 1 .. n + 1 : t[k] = (s \o <<b>>)[k]
    BY <1>1, <1>3, <1>5, <1>6
  <1>8. t = s \o <<b>>
    BY <1>5, <1>6, <1>7, SeqEqual
  <1> QED
    BY <1>8 DEF s, t

\* What a state that looks for the boundary may put back.
LEMMA LooksLikeBytes ==
    ASSUME ParserInv
    PROVE  /\ state = "part_data_almost_boundary" => \A k \in 0..0 : look[k] \in Byte
           /\ state = "part_data_boundary" => \A k \in 0 .. index + 1 : look[k] \in Byte
  <1>1. state \in {"part_data_almost_boundary", "part_data_boundary"} => look[0] \in Byte
    BY MultipartAssumption DEF ParserInv, Matched, CR
  <1>2. ASSUME state = "part_data_boundary", NEW k \in 0 .. index + 1 PROVE look[k] \in Byte
    <2>1. CASE k = 0
      BY <1>1, <1>2, <2>1
    <2>2. CASE k = 1
      BY <1>2, <2>2, MultipartAssumption DEF ParserInv, Matched, LF
    <2>3. CASE k > 1
      <3>1. index \in Nat /\ index < Len(Boundary)
        BY <1>2, MultipartAssumption DEF ParserInv, ParserTypeOK
      <3>2. k - 1 \in 1..index /\ (k - 1) + 1 = k
        BY <2>3, <3>1
      <3>3. look[k] = Boundary[k - 1]
        BY <1>2, <3>2 DEF ParserInv, Matched
      <3>4. Boundary[k - 1] \in Byte
        BY <3>1, <3>2, MultipartAssumption
      <3> QED
        BY <3>3, <3>4
    <2> QED
      BY <2>1, <2>2, <2>3, MultipartAssumption DEF ParserInv, ParserTypeOK
  <1> QED
    BY <1>1, <1>2

\* What is put back is made of bytes.
LEMMA LookbehindBytes ==
    ASSUME ParserInv
    PROVE  /\ state = "part_data_almost_boundary" => Lookbehind(1) \in Seq(Byte)
           /\ state = "part_data_boundary" => Lookbehind(2 + index) \in Seq(Byte)
  <1>1. state = "part_data_almost_boundary" => Lookbehind(1) \in Seq(Byte)
    BY LooksLikeBytes, LookbehindType
  <1>2. ASSUME state = "part_data_boundary" PROVE Lookbehind(2 + index) \in Seq(Byte)
    <2>1. 2 + index \in Nat /\ (2 + index) - 1 = index + 1
      BY MultipartAssumption DEF ParserInv, ParserTypeOK
    <2>2. \A k \in 0 .. (2 + index) - 1 : look[k] \in Byte
      BY <1>2, <2>1, LooksLikeBytes
    <2> QED
      BY <2>1, <2>2, LookbehindType
  <1> QED
    BY <1>1, <1>2

LEMMA TypeStep == ParserInv /\ ParserNext => ParserTypeOK'
  <1> SUFFICES ASSUME ParserInv, ParserNext PROVE ParserTypeOK'
    OBVIOUS
  <1>0. /\ body \in Seq(Byte) /\ Len(body) \in Nat /\ i \in 0..Len(body) /\ mark \in 0..i
        /\ first \in 0..i /\ state \in States /\ index \in 0 .. Len(Boundary) + 1
        /\ state = "part_data_boundary" => index < Len(Boundary)
        /\ look \in [0 .. Len(Boundary) + 1 -> Byte \cup {"unset"}]
        /\ part \in Seq(Byte) /\ files \in Seq(Seq(Byte))
        /\ returned \in -1 .. Len(body) /\ sent \in Seq(Part)
    BY DEF ParserInv, ParserTypeOK
  <1>a. /\ Len(Boundary) \in Nat /\ Len(Boundary) > 0 /\ Len(Delimiter) = Len(Boundary) + 2
        /\ CR \in Byte /\ LF \in Byte
    BY MultipartAssumption DEF Delimiter
  \* What it takes when the byte is taken, and when it is not.
  <1>b. ASSUME i < Len(body), i' = i + 1 \/ i' = i, UNCHANGED <<body, returned, sent>>,
               mark' \in 0..i, first' \in 0..i, state' \in States,
               index' \in 0 .. Len(Boundary) + 1,
               state' = "part_data_boundary" => index' < Len(Boundary),
               look' \in [0 .. Len(Boundary) + 1 -> Byte \cup {"unset"}],
               part' \in Seq(Byte), files' \in Seq(Seq(Byte))
        PROVE  ParserTypeOK'
    BY <1>0, <1>b, SMTT(30) DEF ParserTypeOK
  <1>1. CASE StartBoundary
    <2>1. /\ i < Len(body) /\ i' = i + 1 /\ index \in 0 .. Len(Boundary) + 1
          /\ UNCHANGED <<body, returned, sent, mark, look, part, files, first>>
          /\ \/ index' = index + 1 /\ index + 1 < Len(Delimiter) /\ state' = "start_boundary"
             \/ index' = 0 /\ state' = "header_field_start"
      BY <1>0, <1>1 DEF StartBoundary, Reads, Goto
    <2>2. index' \in 0 .. Len(Boundary) + 1 /\ state' \in States /\ state' # "part_data_boundary"
      BY <1>a, <2>1 DEF States
    <2> QED
      BY <1>0, <1>b, <2>1, <2>2
  <1>2. CASE HeaderField
    <2>1. /\ i < Len(body) /\ i' = i + 1 /\ mark' \in {i, mark}
          /\ state' \in {"headers_almost_done", "header_value_start", "header_field"}
          /\ UNCHANGED <<body, returned, sent, index, look, part, files, first>>
      BY <1>2 DEF HeaderField, Reads, Goto
    <2> QED
      BY <1>0, <1>b, <2>1 DEF States
  <1>3. CASE HeaderValue
    <2>1. /\ i < Len(body) /\ i' = i + 1 /\ mark' \in {i, mark}
          /\ state' \in {"header_value_start", "header_value_almost_done", "header_value"}
          /\ UNCHANGED <<body, returned, sent, index, look, part, files, first>>
      BY <1>3 DEF HeaderValue, Reads, Goto
    <2> QED
      BY <1>0, <1>b, <2>1 DEF States
  <1>4. CASE LineEnd
    <2>1. /\ i < Len(body) /\ i' = i + 1
          /\ state' \in {"header_field_start", "part_data_start"}
          /\ UNCHANGED <<body, returned, sent, mark, index, look, part, files, first>>
      BY <1>4 DEF LineEnd, Reads, Goto
    <2> QED
      BY <1>0, <1>b, <2>1 DEF States
  <1>5. CASE PartData
    <2> DEFINE m == IF state = "part_data_start" THEN i ELSE mark
    <2>1. m \in 0..i /\ i < Len(body) /\ UNCHANGED <<index, files>>
          /\ first' \in {i, first} /\ i' = i + 1 /\ UNCHANGED <<body, returned, sent>>
      BY <1>0, <1>5 DEF PartData, Reads, Goto
    <2>2. \/ /\ part' = part \o Piece(m, i) /\ mark' = i /\ look' = [look EXCEPT ![0] = CR]
             /\ state' = "part_data_almost_boundary"
          \/ /\ part' = part \o Piece(m, i + 1) \/ part' = part
             /\ mark' = m /\ state' = "part_data" /\ look' = look
      BY <1>5 DEF PartData, Goto, Emit
    <2> HIDE DEF m
    <2>3. Piece(m, i) \in Seq(Byte) /\ Piece(m, i + 1) \in Seq(Byte)
      <3>1. m \in Nat /\ i \in Nat /\ i + 1 \in Nat /\ m <= i /\ i <= Len(body)
            /\ m <= i + 1 /\ i + 1 <= Len(body)
        BY <1>0, <2>1
      <3> QED
        BY <1>0, <3>1, PieceType
    <2>4. part \o Piece(m, i) \in Seq(Byte) /\ part \o Piece(m, i + 1) \in Seq(Byte)
      BY <1>0, <2>3, Closed
    <2>5. [look EXCEPT ![0] = CR] \in [0 .. Len(Boundary) + 1 -> Byte \cup {"unset"}]
      BY <1>0, <1>a
    <2>6. part' \in Seq(Byte)
      BY <1>0, <2>2, <2>4
    <2>7. look' \in [0 .. Len(Boundary) + 1 -> Byte \cup {"unset"}]
      BY <1>0, <2>2, <2>5
    <2>8. mark' \in 0..i /\ first' \in 0..i
      <3>1. mark' \in {i, m} /\ first' \in {i, first} /\ i \in 0..i
        BY <1>0, <2>1, <2>2
      <3> QED
        BY <1>0, <2>1, <3>1
    <2>9. state' \in States /\ state' # "part_data_boundary"
      <3>1. state' \in {"part_data_almost_boundary", "part_data"}
        BY <2>2
      <3> QED
        BY <3>1 DEF States
    <2> QED
      BY <1>0, <1>b, <2>1, <2>6, <2>7, <2>8, <2>9
  <1>6. CASE AlmostBoundary
    <2>1. /\ i < Len(body) /\ state = "part_data_almost_boundary"
          /\ UNCHANGED <<first, files, body, returned, sent>>
          /\ \/ /\ look' = [look EXCEPT ![1] = LF] /\ index' = 0 /\ state' = "part_data_boundary"
                /\ i' = i + 1 /\ UNCHANGED <<mark, part>>
             \/ /\ part' = part \o Lookbehind(1) /\ state' = "part_data" /\ mark' = i /\ i' = i
                /\ UNCHANGED <<index, look>>
      BY <1>6 DEF AlmostBoundary, Reads, Goto, ReadAgain, Emit
    <2>2. [look EXCEPT ![1] = LF] \in [0 .. Len(Boundary) + 1 -> Byte \cup {"unset"}]
      BY <1>0, <1>a
    <2>3. part \o Lookbehind(1) \in Seq(Byte)
      BY <1>0, <2>1, LookbehindBytes, Closed
    <2>4. part' \in Seq(Byte)
      BY <1>0, <2>1, <2>3
    <2>6. look' \in [0 .. Len(Boundary) + 1 -> Byte \cup {"unset"}]
      BY <1>0, <2>1, <2>2
    <2>7. mark' \in 0..i /\ first' \in 0..i
      <3>1. mark' \in {i, mark} /\ i \in 0..i /\ first' = first
        BY <1>0, <2>1
      <3> QED
        BY <1>0, <3>1
    <2>5. /\ index' \in 0 .. Len(Boundary) + 1 /\ state' \in States
          /\ state' = "part_data_boundary" => index' < Len(Boundary)
      BY <1>0, <1>a, <2>1 DEF States
    <2> QED
      BY <1>0, <1>b, <2>1, <2>4, <2>5, <2>6, <2>7
  <1>7. CASE PartBoundary
    <2>1. /\ i < Len(body) /\ state = "part_data_boundary"
          /\ UNCHANGED <<first, body, returned, sent>>
          /\ \/ /\ part' = part \o Lookbehind(2 + index) /\ state' = "part_data" /\ mark' = i
                /\ i' = i /\ UNCHANGED <<index, look, files>>
             \/ /\ look' = [look EXCEPT ![2 + index] = Char] /\ index' = index + 1 /\ i' = i + 1
                /\ index' = Len(Boundary) => part' = <<>> /\ files' = Append(files, part)
                                             /\ state' = "part_data_almost_end"
                /\ index' # Len(Boundary) => state' = "part_data_boundary"
                                             /\ UNCHANGED <<files, part>>
                /\ UNCHANGED mark
      BY <1>7 DEF PartBoundary, Reads, Goto, ReadAgain, Emit
    <2>2. index \in 0 .. Len(Boundary) - 1
      BY <1>0, <1>a, <2>1
    <2>3. [look EXCEPT ![2 + index] = Char] \in [0 .. Len(Boundary) + 1 -> Byte \cup {"unset"}]
      <3>1. Char \in Byte
        BY <1>0, <2>1 DEF Char
      <3> QED
        BY <1>0, <1>a, <3>1
    <2>4. part \o Lookbehind(2 + index) \in Seq(Byte)
      BY <1>0, <2>1, LookbehindBytes, Closed
    <2>5. part' \in Seq(Byte)
      <3>1. <<>> \in Seq(Byte) /\ part' \in {part \o Lookbehind(2 + index), <<>>, part}
        BY <2>1
      <3> QED
        BY <1>0, <2>4, <3>1
    <2>8. files' \in Seq(Seq(Byte))
      <3>1. files' \in {files, Append(files, part)}
        BY <2>1
      <3>2. Append(files, part) \in Seq(Seq(Byte))
        BY <1>0, AppendProperties
      <3> QED
        BY <1>0, <3>1, <3>2
    <2>9. mark' \in 0..i /\ first' \in 0..i
      <3>1. mark' \in {i, mark} /\ i \in 0..i /\ first' = first
        BY <1>0, <2>1
      <3> QED
        BY <1>0, <3>1
    <2>6. look' \in [0 .. Len(Boundary) + 1 -> Byte \cup {"unset"}]
      BY <1>0, <2>1, <2>3
    <2>7. /\ index' \in 0 .. Len(Boundary) + 1 /\ state' \in States
          /\ state' = "part_data_boundary" => index' < Len(Boundary)
      BY <1>0, <1>a, <2>1, <2>2, SMTT(30) DEF States
    <2> QED
      BY <1>0, <1>b, <2>1, <2>5, <2>6, <2>7, <2>8, <2>9
  <1>8. CASE AfterBoundary
    <2>1. /\ i < Len(body) /\ i' = i + 1
          /\ state' \in {"part_data_final_hyphen", "part_data_end", "end"}
          /\ UNCHANGED <<body, returned, sent, mark, index, look, part, files, first>>
      BY <1>8 DEF AfterBoundary, Reads, Goto
    <2> QED
      BY <1>0, <1>b, <2>1 DEF States
  <1>9. CASE Refuse \/ Finish
    <2>1. UNCHANGED <<body, i, mark, state, index, look, part, files, first, sent>>
      BY <1>9 DEF Refuse, Finish
    <2>2. returned' \in {i, Len(body)}
      BY <1>9 DEF Refuse, Finish
    <2> QED
      BY <1>0, <2>1, <2>2 DEF ParserTypeOK
  <1> QED
    BY <1>1, <1>2, <1>3, <1>4, <1>5, <1>6, <1>7, <1>8, <1>9 DEF ParserNext

LEMMA MatchedStep == ParserInv /\ ParserNext => Matched'
  <1> SUFFICES ASSUME ParserInv, ParserNext PROVE Matched'
    OBVIOUS
  <1>0. /\ look \in [0 .. Len(Boundary) + 1 -> Byte \cup {"unset"}]
        /\ Len(Boundary) \in Nat /\ Len(Boundary) > 0
        /\ state = "part_data_boundary" => index \in Nat /\ index < Len(Boundary)
    BY MultipartAssumption DEF ParserInv, ParserTypeOK
  <1>1. CASE StartBoundary \/ HeaderField \/ HeaderValue \/ LineEnd \/ AfterBoundary
    <2>1. state' \notin {"part_data_almost_boundary", "part_data_boundary"}
      BY <1>1 DEF StartBoundary, HeaderField, HeaderValue, LineEnd, AfterBoundary, Reads, Goto
    <2> QED
      BY <2>1 DEF Matched
  <1>2. CASE PartData
    <2>1. \/ state' = "part_data_almost_boundary" /\ look' = [look EXCEPT ![0] = CR]
          \/ state' = "part_data"
      BY <1>2 DEF PartData, Goto
    <2> QED
      BY <1>0, <2>1 DEF Matched
  <1>3. CASE AlmostBoundary
    <2>1. \/ /\ state = "part_data_almost_boundary" /\ state' = "part_data_boundary"
             /\ look' = [look EXCEPT ![1] = LF] /\ index' = 0
          \/ state' = "part_data"
      BY <1>3 DEF AlmostBoundary, Goto, Reads, ReadAgain
    <2>2. state = "part_data_almost_boundary" => look[0] = CR
      BY DEF ParserInv, Matched
    <2> QED
      BY <1>0, <2>1, <2>2 DEF Matched
  <1>4. CASE PartBoundary
    <2>1. /\ state = "part_data_boundary"
          /\ \/ state' \in {"part_data", "part_data_almost_end"}
             \/ /\ state' = "part_data_boundary" /\ index' = index + 1 /\ index' # Len(Boundary)
                /\ look' = [look EXCEPT ![2 + index] = Char] /\ Boundary[index + 1] = Char
      BY <1>4 DEF PartBoundary, Goto, Reads, ReadAgain
    <2>2. CASE state' \in {"part_data", "part_data_almost_end"}
      BY <2>2 DEF Matched
    <2>3. CASE state' = "part_data_boundary"
      <3>1. look[0] = CR /\ look[1] = LF /\ \A k \in 1..index : look[k + 1] = Boundary[k]
        BY <2>1 DEF ParserInv, Matched
      <3>2. \A k \in 0 .. Len(Boundary) + 1 : look'[k] = IF k = 2 + index THEN Char ELSE look[k]
        BY <1>0, <2>1, <2>3
      <3>3. look'[0] = CR /\ look'[1] = LF
        BY <1>0, <2>1, <3>1, <3>2
      <3>4. ASSUME NEW k \in 1..index' PROVE look'[k + 1] = Boundary[k]
        <4>1. index' = index + 1 /\ index \in Nat /\ index < Len(Boundary)
          BY <1>0, <2>1, <2>3
        <4>2. CASE k = index + 1
          BY <1>0, <2>1, <2>3, <3>2, <4>1, <4>2
        <4>3. CASE k \in 1..index
          <5>1. k + 1 \in 0 .. Len(Boundary) + 1 /\ k + 1 # 2 + index
            BY <1>0, <4>1, <4>3
          <5> QED
            BY <3>1, <3>2, <4>3, <5>1
        <4> QED
          BY <4>1, <4>2, <4>3
      <3> QED
        BY <2>3, <3>3, <3>4 DEF Matched
    <2> QED
      BY <2>1, <2>2, <2>3
  <1>5. CASE Refuse \/ Finish
    BY <1>5 DEF Refuse, Finish, ParserInv, Matched
  <1> QED
    BY <1>1, <1>2, <1>3, <1>4, <1>5 DEF ParserNext

LEMMA RegroupBytes ==
    ASSUME NEW p \in Seq(Byte), NEW q \in Seq(Byte), NEW r \in Seq(Byte)
    PROVE  p \o (q \o r) = (p \o q) \o r
  BY ConcatAssociative, SMTT(30)

\* What is collected and one byte more, when the byte is held back or emitted.
LEMMA OneMoreByte ==
    ASSUME body \in Seq(Byte), NEW p \in Seq(Byte), NEW q \in Seq(Byte),
           NEW a \in Nat, NEW b \in Nat, a <= b, b < Len(body), p \o q = Piece(a, b)
    PROVE  p \o (q \o <<body[b + 1]>>) = Piece(a, b + 1)
  <1> DEFINE one == <<body[b + 1]>>
             w == Piece(a, b)
  <1>1. one \in Seq(Byte) /\ Piece(a, b + 1) = w \o one
    <2>1. body[b + 1] \in Byte
      BY PieceGrows
    <2> QED
      BY <2>1, PieceGrows
  <1> HIDE DEF one, w
  <1>2. p \o (q \o one) = (p \o q) \o one
    BY <1>1, RegroupBytes
  <1>3. p \o q = w
    BY DEF w
  <1> QED
    BY <1>1, <1>2, <1>3 DEF one

LEMMA HeldStep == ParserInv /\ ParserNext => Held'
  <1> SUFFICES ASSUME ParserInv, ParserNext PROVE Held'
    OBVIOUS
  <1>0. /\ body \in Seq(Byte) /\ Len(body) \in Nat /\ i \in 0..Len(body) /\ mark \in 0..i
        /\ first \in 0..i /\ index \in 0 .. Len(Boundary) + 1
        /\ state = "part_data_boundary" => index < Len(Boundary)
        /\ look \in [0 .. Len(Boundary) + 1 -> Byte \cup {"unset"}]
        /\ part \in Seq(Byte)
    BY DEF ParserInv, ParserTypeOK
  <1>a. Len(Boundary) \in Nat /\ Len(Boundary) > 0 /\ CR \in Byte /\ LF \in Byte
    BY MultipartAssumption
  \* The byte is not taken, or outside of a part.
  <1>b. ASSUME state \notin InPart, state' \notin InPart, part' = part PROVE Held'
    <2>1. part' = <<>>
      BY <1>b DEF ParserInv, Held
    <2> QED
      BY <1>b, <2>1 DEF Held, InPart
  \* What was held back is emitted, and the byte is read again.
  <1>c. ASSUME i < Len(body), NEW q, part \o q = Piece(first, i), part \o q \in Seq(Byte),
               part' = part \o q, ReadAgain, first' = first
        PROVE  Held'
    <2>1. /\ state' = "part_data" /\ mark' = i /\ i' = i /\ body' = body
      BY <1>c DEF ReadAgain
    <2>2. Piece(i, i) = <<>>
      BY <1>0, PieceEmpty
    <2>3. Piece(first, i)' = Piece(first, i) /\ Piece(mark, i)' = <<>>
      BY <1>c, <2>1, <2>2 DEF Piece
    <2>4. part' \o <<>> = part'
      BY <1>c
    <2>5. part' \o (IF i' = Len(body') THEN <<>> ELSE Piece(mark, i)') = Piece(first, i)'
      BY <1>c, <2>1, <2>3, <2>4
    <2> QED
      BY <2>1, <2>5 DEF Held, InPart
  <1>1. CASE StartBoundary
    <2>1. state \notin InPart /\ state' \notin InPart /\ part' = part
      BY <1>1 DEF StartBoundary, Reads, Goto, InPart
    <2> QED
      BY <1>b, <2>1
  <1>2. CASE HeaderField
    <2>1. state \notin InPart /\ state' \notin InPart /\ part' = part
      BY <1>2 DEF HeaderField, Reads, Goto, InPart
    <2> QED
      BY <1>b, <2>1
  <1>3. CASE HeaderValue
    <2>1. state \notin InPart /\ state' \notin InPart /\ part' = part
      BY <1>3 DEF HeaderValue, Reads, Goto, InPart
    <2> QED
      BY <1>b, <2>1
  <1>4. CASE LineEnd
    <2>1. state \notin InPart /\ state' \notin InPart /\ part' = part
      BY <1>4 DEF LineEnd, Reads, Goto, InPart
    <2> QED
      BY <1>b, <2>1
  <1>5. CASE PartData
    <2> DEFINE m == IF state = "part_data_start" THEN i ELSE mark
               f == IF state = "part_data_start" THEN i ELSE first
    <2>1. /\ i < Len(body) /\ i' = i + 1 /\ body' = body /\ first' = f
          /\ m \in 0..i /\ f \in 0..i /\ state \in {"part_data_start", "part_data"}
      BY <1>0, <1>5 DEF PartData, Reads, Goto
    <2>2. part \o Piece(m, i) = Piece(f, i)
      <3>1. CASE state = "part_data_start"
        <4>1. part = <<>> /\ m = i /\ f = i
          BY <3>1 DEF ParserInv, Held, InPart
        <4>2. Piece(i, i) = <<>>
          BY <1>0, PieceEmpty
        <4> QED
          BY <4>1, <4>2
      <3>2. CASE state = "part_data"
        <4>1. part \o (IF i = Len(body) THEN <<>> ELSE Piece(mark, i)) = Piece(first, i)
          BY <3>2 DEF ParserInv, Held
        <4>2. m = mark /\ f = first /\ i # Len(body)
          BY <2>1, <3>2
        <4> QED
          BY <4>1, <4>2
      <3> QED
        BY <2>1, <3>1, <3>2
    <2>3. \/ /\ part' = part \o Piece(m, i) /\ look' = [look EXCEPT ![0] = CR] /\ Char = CR
             /\ state' = "part_data_almost_boundary"
          \/ /\ part' = IF IsLast THEN part \o Piece(m, i + 1) ELSE part
             /\ mark' = m /\ state' = "part_data"
      BY <1>5 DEF PartData, Goto, Emit
    <2> HIDE DEF m, f
    <2>4. Piece(m, i) \in Seq(Byte) /\ Piece(m, i + 1) = Piece(m, i) \o <<body[i + 1]>>
      <3>1. m \in Nat /\ i \in Nat /\ m <= i /\ i < Len(body)
        BY <1>0, <2>1
      <3> QED
        BY <1>0, <3>1, PieceGrows
    <2>5. part \o (Piece(m, i) \o <<body[i + 1]>>) = Piece(f, i + 1)
      <3>1. f \in Nat /\ i \in Nat /\ f <= i /\ i < Len(body)
        BY <1>0, <2>1
      <3> DEFINE q == Piece(m, i)
      <3>2. q \in Seq(Byte) /\ part \o q = Piece(f, i)
        BY <2>2, <2>4
      <3> HIDE DEF q
      <3>3. part \o (q \o <<body[i + 1]>>) = Piece(f, i + 1)
        BY <1>0, <3>1, <3>2, OneMoreByte, ZenonT(60)
      <3> QED
        BY <3>3 DEF q
    <2>6. Piece(first, i)' = Piece(f, i + 1)
      BY <2>1 DEF Piece
    <2>7. CASE state' = "part_data_almost_boundary"
      <3>1. part' = part \o Piece(m, i) /\ look' = [look EXCEPT ![0] = CR] /\ body[i + 1] = CR
        BY <2>3, <2>7 DEF Char
      <3>2. Lookbehind(1)' = Lookbehind(0) \o <<CR>>
        <4>1. 0 \in 0 .. Len(Boundary) + 1 /\ 0 + 1 = 1 /\ \A k \in 0 .. 0 - 1 : look[k] \in Byte
          BY <1>a
        <4>2. [k \in 1 .. 0 + 1 |-> look'[k - 1]] = Lookbehind(0) \o <<CR>>
          BY <1>0, <1>a, <3>1, <4>1, LookbehindGrows
        <4> QED
          BY <4>1, <4>2 DEF Lookbehind
      <3>3. Lookbehind(0) = <<>>
        <4>1. Lookbehind(0) \in Seq(Byte) /\ Len(Lookbehind(0)) = 0
          BY LookbehindType
        <4> QED
          BY <4>1, EmptySeq
      <3>4. Lookbehind(1)' = <<CR>>
        BY <1>a, <3>2, <3>3
      <3>5. part \o (Piece(m, i) \o <<CR>>) = (part \o Piece(m, i)) \o <<CR>>
        <4> DEFINE q == Piece(m, i)
                   one == <<CR>>
        <4>1. q \in Seq(Byte) /\ one \in Seq(Byte)
          BY <1>a, <2>4
        <4> HIDE DEF q, one
        <4>2. part \o (q \o one) = (part \o q) \o one
          BY <1>0, <4>1, RegroupBytes
        <4> QED
          BY <4>2 DEF q, one
      <3>6. part' \o Lookbehind(1)' = Piece(first, i)'
        BY <2>5, <2>6, <3>1, <3>4, <3>5
      <3> QED
        BY <2>7, <3>6 DEF Held, InPart
    <2>8. CASE state' = "part_data"
      <3>1. part' = (IF i + 1 = Len(body) THEN part \o Piece(m, i + 1) ELSE part) /\ mark' = m
        BY <1>0, <2>3, <2>8 DEF IsLast
      <3>2. Piece(mark, i)' = Piece(m, i + 1)
        BY <2>1, <3>1 DEF Piece
      <3>3. part \o Piece(m, i + 1) = Piece(f, i + 1)
        BY <2>4, <2>5
      <3>4. part' \o (IF i' = Len(body') THEN <<>> ELSE Piece(mark, i)') = Piece(first, i)'
        <4>1. CASE i + 1 = Len(body)
          <5>1. Piece(f, i + 1) \in Seq(Byte)
            <6>1. f \in Nat /\ i + 1 \in Nat /\ f <= i + 1 /\ i + 1 <= Len(body)
              BY <1>0, <2>1
            <6> QED
              BY <1>0, <6>1, PieceType
          <5>2. Piece(f, i + 1) \o <<>> = Piece(f, i + 1)
            BY <5>1
          <5> QED
            BY <2>1, <2>6, <3>1, <3>3, <4>1, <5>2
        <4>2. CASE i + 1 # Len(body)
          BY <2>1, <2>6, <3>1, <3>2, <3>3, <4>2
        <4> QED
          BY <4>1, <4>2
      <3> QED
        BY <2>8, <3>4 DEF Held, InPart
    <2> QED
      BY <2>3, <2>7, <2>8
  <1>6. CASE AlmostBoundary
    <2>1. i < Len(body) /\ state = "part_data_almost_boundary" /\ first' = first
      BY <1>6 DEF AlmostBoundary, Reads
    <2>2. part \o Lookbehind(1) = Piece(first, i) /\ Lookbehind(1) \in Seq(Byte)
      BY <2>1, LookbehindBytes DEF ParserInv, Held
    <2>3. \/ /\ Char = LF /\ look' = [look EXCEPT ![1] = LF] /\ index' = 0 /\ part' = part
             /\ state' = "part_data_boundary" /\ i' = i + 1 /\ body' = body
          \/ part' = part \o Lookbehind(1) /\ ReadAgain
      BY <1>6 DEF AlmostBoundary, Goto, Emit
    <2>4. CASE part' = part \o Lookbehind(1) /\ ReadAgain
      <3>1. part \o Lookbehind(1) \in Seq(Byte)
        BY <1>0, <2>2, Closed
      <3> QED
        BY <1>c, <2>1, <2>2, <2>4, <3>1
    <2>5. CASE /\ Char = LF /\ look' = [look EXCEPT ![1] = LF] /\ index' = 0 /\ part' = part
               /\ state' = "part_data_boundary" /\ i' = i + 1 /\ body' = body
      <3>1. Lookbehind(2)' = Lookbehind(1) \o <<body[i + 1]>>
        <4>1. 1 \in 0 .. Len(Boundary) + 1 /\ 1 + 1 = 2 /\ \A k \in 0 .. 1 - 1 : look[k] \in Byte
          BY <1>a, <2>1, LooksLikeBytes
        <4>2. [k \in 1 .. 1 + 1 |-> look'[k - 1]] = Lookbehind(1) \o <<LF>>
          BY <1>0, <1>a, <2>5, <4>1, LookbehindGrows
        <4> QED
          BY <2>5, <4>1, <4>2 DEF Char, Lookbehind
      <3>2. Lookbehind(2 + index)' = Lookbehind(2)'
        BY <2>5 DEF Lookbehind
      <3>3. Piece(first, i)' = Piece(first, i + 1)
        BY <2>1, <2>5 DEF Piece
      <3>4. part \o (Lookbehind(1) \o <<body[i + 1]>>) = Piece(first, i + 1)
        <4> DEFINE q == Lookbehind(1)
        <4>1. q \in Seq(Byte) /\ part \o q = Piece(first, i)
          BY <2>2
        <4>2. first \in Nat /\ i \in Nat /\ first <= i
          BY <1>0
        <4> HIDE DEF q
        <4>3. part \o (q \o <<body[i + 1]>>) = Piece(first, i + 1)
          BY <1>0, <2>1, <4>1, <4>2, OneMoreByte, ZenonT(60)
        <4> QED
          BY <4>3 DEF q
      <3>5. part' \o Lookbehind(2 + index)' = Piece(first, i)'
        BY <2>5, <3>1, <3>2, <3>3, <3>4
      <3> QED
        BY <2>5, <3>5 DEF Held, InPart
    <2> QED
      BY <2>3, <2>4, <2>5
  <1>7. CASE PartBoundary
    <2>1. i < Len(body) /\ state = "part_data_boundary" /\ first' = first
      BY <1>7 DEF PartBoundary, Reads
    <2>2. part \o Lookbehind(2 + index) = Piece(first, i) /\ Lookbehind(2 + index) \in Seq(Byte)
      BY <2>1, LookbehindBytes DEF ParserInv, Held
    <2>3. \/ part' = part \o Lookbehind(2 + index) /\ ReadAgain
          \/ part' = <<>> /\ state' = "part_data_almost_end"
          \/ /\ look' = [look EXCEPT ![2 + index] = Char] /\ index' = index + 1 /\ part' = part
             /\ state' = "part_data_boundary" /\ i' = i + 1 /\ body' = body
      BY <1>7 DEF PartBoundary, Goto, Emit
    <2>4. CASE part' = part \o Lookbehind(2 + index) /\ ReadAgain
      <3>1. part \o Lookbehind(2 + index) \in Seq(Byte)
        BY <1>0, <2>2, Closed
      <3> QED
        BY <1>c, <2>1, <2>2, <2>4, <3>1
    <2>5. CASE part' = <<>> /\ state' = "part_data_almost_end"
      BY <2>5 DEF Held, InPart
    <2>6. CASE /\ look' = [look EXCEPT ![2 + index] = Char] /\ index' = index + 1 /\ part' = part
               /\ state' = "part_data_boundary" /\ i' = i + 1 /\ body' = body
      <3> DEFINE n == 2 + index
      <3>1. n \in 0 .. Len(Boundary) + 1 /\ n + 1 = 2 + index' /\ n - 1 = index + 1
        BY <1>0, <1>a, <2>1, <2>6
      <3>2. Char \in Byte /\ Char = body[i + 1]
        BY <1>0, <2>1 DEF Char
      <3>3. \A k \in 0 .. n - 1 : look[k] \in Byte
        BY <2>1, <3>1, LooksLikeBytes
      <3>4. part \o Lookbehind(n) = Piece(first, i) /\ Lookbehind(n) \in Seq(Byte)
            /\ look' = [look EXCEPT ![n] = Char]
        BY <2>2, <2>6
      <3> HIDE DEF n
      <3>5. [k \in 1 .. n + 1 |-> look'[k - 1]] = Lookbehind(n) \o <<Char>>
        BY <1>0, <3>1, <3>2, <3>3, <3>4, LookbehindGrows
      <3>6. Lookbehind(2 + index)' = [k \in 1 .. n + 1 |-> look'[k - 1]]
        BY <3>1 DEF Lookbehind
      <3>7. Lookbehind(2 + index)' = Lookbehind(n) \o <<body[i + 1]>>
        BY <3>2, <3>5, <3>6
      <3>8. Piece(first, i)' = Piece(first, i + 1)
        BY <2>1, <2>6 DEF Piece
      <3>9. part \o (Lookbehind(n) \o <<body[i + 1]>>) = Piece(first, i + 1)
        <4> DEFINE q == Lookbehind(n)
        <4>1. q \in Seq(Byte) /\ part \o q = Piece(first, i)
          BY <3>4
        <4>2. first \in Nat /\ i \in Nat /\ first <= i
          BY <1>0
        <4> HIDE DEF q
        <4>3. part \o (q \o <<body[i + 1]>>) = Piece(first, i + 1)
          BY <1>0, <2>1, <4>1, <4>2, OneMoreByte, ZenonT(60)
        <4> QED
          BY <4>3 DEF q
      <3>10. part' \o Lookbehind(2 + index)' = Piece(first, i)'
        BY <2>6, <3>7, <3>8, <3>9
      <3> QED
        BY <2>6, <3>10 DEF Held, InPart
    <2> QED
      BY <2>3, <2>4, <2>5, <2>6
  <1>8. CASE AfterBoundary
    <2>1. state \notin InPart /\ state' \notin InPart /\ part' = part
      BY <1>8 DEF AfterBoundary, Reads, Goto, InPart
    <2> QED
      BY <1>b, <2>1
  <1>9. CASE Refuse \/ Finish
    <2>1. UNCHANGED <<body, i, mark, state, index, look, part, files, first>>
      BY <1>9 DEF Refuse, Finish
    <2>2. Held
      BY DEF ParserInv
    <2> QED
      BY <2>1, <2>2 DEF Held, Piece, Lookbehind, InPart
  <1> QED
    BY <1>1, <1>2, <1>3, <1>4, <1>5, <1>6, <1>7, <1>8, <1>9 DEF ParserNext

-----------------------------------------------------------------------------
(* The target.  NameIsPiece is what TypeOK needs; Fresh speaks of what comes  *)
(* before the first separator, Divided of what comes behind the only one.     *)

\* The name that is read is a piece of the target, and while it grows the last one.
NameIsPiece ==
    /\ inValue => inParams
    /\ ~inValue => \E a \in 1 .. c + 1 : name = SubSeq(target, a, c)

\* Before the first separator everything read is the name.
Fresh ==
    Separators \cap 1..c = {} =>
        /\ ~inParams /\ ~inValue
        /\ name = SubSeq(target, 1, c) /\ value = <<>> /\ params = <<>>
        /\ path = IF split THEN target ELSE <<>>

OneSeparator == Cardinality(Separators) = 1
Behind == OneSeparator /\ Start <= c

\* Behind the only separator the path is what precedes it.
PathIsBefore == Behind => inParams /\ path = SubSeq(target, 1, Start - 1)

\* The field that begins at the cut s, as far as it has been read.
FieldRead(s) ==
    IF inValue
    THEN \E e \in s + 1 .. c :
            /\ target[e] = "=" /\ \A m \in s + 1 .. e - 1 : target[m] # "="
            /\ name = SubSeq(target, s + 1, e - 1) /\ value = SubSeq(target, e + 1, c)
    ELSE /\ \A m \in s + 1 .. c : target[m] # "="
         /\ name = SubSeq(target, s + 1, c) /\ value = <<>>

\* s is where the field that is being read begins.
ReadsFrom(s) == s <= c /\ \A k \in Cuts : k <= s \/ c < k

Reading == Behind => \A s \in Cuts : ReadsFrom(s) => FieldRead(s)

\* The fields that have been read to their end; url_params holds them, of
\* several of one name the latest.
Done == {f \in Fields : f[2] <= c}
Latest(f) == \A g \in Done : NameOf(g) = NameOf(f) => g[1] <= f[1]
Ended ==
    Behind /\ ~split =>
        /\ DOMAIN params = {NameOf(f) : f \in Done}
        /\ \A f \in Done : Latest(f) => params[NameOf(f)] = ValueOf(f)

\* What TargetExact says of url_params.
AllEnded ==
    Behind /\ split =>
        /\ DOMAIN params = {NameOf(f) : f \in Kept}
        /\ \A f \in Kept : params[NameOf(f)] = ValueOf(f)

SplitInv ==
    /\ split => c = Len(target)
    /\ NameIsPiece /\ Fresh
    /\ PathIsBefore /\ Reading /\ Ended /\ AllEnded

LEMMA TargetGrows ==
    ASSUME target \in Seq(Characters), NEW a \in Nat, a # 0, NEW b \in Nat, a <= b + 1,
           b < Len(target)
    PROVE  /\ SubSeq(target, a, b) \in Seq(Characters)
           /\ Append(SubSeq(target, a, b), target[b + 1]) = SubSeq(target, a, b + 1)
  <1> DEFINE p == SubSeq(target, a, b)
             q == SubSeq(target, a, b + 1)
  <1>1. p \in Seq(Characters) /\ Len(p) = b - a + 1
        /\ \A k \in 1 .. b - a + 1 : p[k] = target[a + k - 1]
    OBVIOUS
  <1>2. q \in Seq(Characters) /\ Len(q) = b - a + 2
        /\ \A k \in 1 .. b - a + 2 : q[k] = target[a + k - 1]
    OBVIOUS
  <1>3. target[b + 1] \in Characters
    OBVIOUS
  <1> HIDE DEF p, q
  <1>4. Append(p, target[b + 1]) = q
    <2> DEFINE r == Append(p, target[b + 1])
    <2>1. r \in Seq(Characters) /\ Len(r) = b - a + 2
          /\ \A k \in 1 .. b - a + 2 : r[k] = IF k <= b - a + 1 THEN p[k] ELSE target[b + 1]
      <3>1. Len(p) + 1 = b - a + 2 /\ b - a + 1 \in Nat
        BY <1>1
      <3>2. r \in Seq(Characters) /\ Len(r) = Len(p) + 1
            /\ \A k \in 1..Len(p) : r[k] = p[k]
            /\ r[Len(p) + 1] = target[b + 1]
        BY <1>1, <1>3, AppendProperties
      <3> QED
        BY <1>1, <3>1, <3>2
    <2>2. \A k \in 1 .. b - a + 2 : r[k] = q[k]
      BY <1>1, <1>2, <2>1
    <2> HIDE DEF r
    <2>3. r = q
      BY <1>2, <2>1, <2>2, SeqEqual
    <2> QED
      BY <2>3 DEF r
  <1> QED
    BY <1>1, <1>4 DEF p, q

LEMMA PieceOfTarget ==
    ASSUME target \in Seq(Characters), NEW a \in 1 .. Len(target) + 1, NEW b \in 0..Len(target)
    PROVE  SubSeq(target, a, b) \in Pieces(target) /\ SubSeq(target, a, b) \in Seq(Characters)
  <1>1. SubSeq(target, a, b) \in Pieces(target)
    BY DEF Pieces
  <1>2. SubSeq(target, a, b) \in Seq(Characters)
    OBVIOUS
  <1> QED
    BY <1>1, <1>2

LEMMA NothingIsPiece ==
    ASSUME target \in Seq(Characters)
    PROVE  <<>> \in Pieces(target) /\ \A a \in Nat : SubSeq(target, a + 1, a) = <<>>
  <1>1. \A a \in Nat : SubSeq(target, a + 1, a) = <<>>
    OBVIOUS
  <1>2. SubSeq(target, 1, 0) \in Pieces(target) /\ SubSeq(target, 1, 0) = <<>>
    BY PieceOfTarget
  <1> QED
    BY <1>1, <1>2

LEMMA PiecesAreStrings ==
    ASSUME target \in Seq(Characters), NEW p \in Pieces(target) PROVE p \in Seq(Characters)
  <1>1. PICK a \in 1 .. Len(target) + 1, b \in 0..Len(target) : p = SubSeq(target, a, b)
    BY DEF Pieces
  <1> QED
    BY <1>1, PieceOfTarget

\* What a round of the loop over the target leaves alone.
LEMMA Rounds ==
    ASSUME TypeOK, SplitTarget, SplitInv
    PROVE  /\ target' = target /\ multipart' = multipart /\ parser' = parser
           /\ target \in Seq(Characters) /\ Len(target) \in Nat
           /\ \/ LastPiece /\ c = Len(target) /\ c' = c /\ split' = TRUE /\ ~split
              \/ /\ Separator \/ Equals \/ Ampersand \/ Ordinary
                 /\ c \in Nat /\ c < Len(target) /\ c' = c + 1 /\ split' = split /\ ~split
  <1>1. target \in Seq(Characters) /\ Len(target) \in Nat /\ c \in 0..Len(target)
    BY DEF TypeOK
  <1>2. CASE LastPiece
    BY <1>1, <1>2 DEF LastPiece
  <1>3. CASE Separator \/ Equals \/ Ampersand \/ Ordinary
    <2>1. ReadsTarget
      BY <1>3 DEF Separator, Equals, Ampersand, Ordinary
    <2> QED
      BY <1>1, <1>3, <2>1 DEF ReadsTarget, SplitInv
  <1> QED
    BY <1>2, <1>3 DEF SplitTarget

\* Storing a value under a name.
LEMMA Stores ==
    /\ DOMAIN Store(params, name, value) = DOMAIN params \cup {name}
    /\ Store(params, name, value)[name] = value
    /\ \A x \in DOMAIN params : x # name => Store(params, name, value)[x] = params[x]
    /\ Emplace(params, name, value) = IF name \in DOMAIN params THEN params
                                      ELSE Store(params, name, value)
  BY DEF Store, Emplace

LEMMA StoreType ==
    ASSUME params \in [DOMAIN params -> Seq(Characters)], value \in Seq(Characters)
    PROVE  Store(params, name, value) \in [DOMAIN params \cup {name} -> Seq(Characters)]
  <1>1. ASSUME NEW x \in DOMAIN params \cup {name}
        PROVE  (IF x = name THEN value ELSE params[x]) \in Seq(Characters)
    OBVIOUS
  <1> QED
    BY <1>1 DEF Store

LEMMA QueryStep == TypeOK /\ SplitInv /\ SplitTarget => TypeOK' /\ NameIsPiece'
  <1> SUFFICES ASSUME TypeOK, SplitInv, SplitTarget PROVE TypeOK' /\ NameIsPiece'
    OBVIOUS
  <1>0. /\ ParserTypeOK
        /\ target \in Seq(Characters) /\ c \in 0..Len(target) /\ multipart \in BOOLEAN
        /\ value \in Seq(Characters) /\ params \in [DOMAIN params -> Seq(Characters)]
        /\ name \in Pieces(target) /\ path \in Pieces(target) /\ DOMAIN params \subseteq Pieces(target)
        /\ inParams \in BOOLEAN /\ inValue \in BOOLEAN /\ split \in BOOLEAN
    BY DEF TypeOK
  <1>a. /\ target' = target /\ multipart' = multipart /\ parser' = parser /\ Len(target) \in Nat
        /\ \/ LastPiece /\ c = Len(target) /\ c' = c /\ split' = TRUE /\ ~split
           \/ /\ Separator \/ Equals \/ Ampersand \/ Ordinary
              /\ c \in Nat /\ c < Len(target) /\ c' = c + 1 /\ split' = split /\ ~split
    BY Rounds
  <1>b. ParserTypeOK'
    BY <1>0, <1>a DEF parser, ParserTypeOK
  <1>c. (inValue => inParams) /\ (~inValue => \E a \in 1 .. c + 1 : name = SubSeq(target, a, c))
    BY DEF SplitInv, NameIsPiece
  <1>d. ASSUME value' \in Seq(Characters), params' \in [DOMAIN params' -> Seq(Characters)],
               name' \in Pieces(target), path' \in Pieces(target),
               DOMAIN params' \subseteq Pieces(target),
               inParams' \in BOOLEAN, inValue' \in BOOLEAN
        PROVE  TypeOK'
    <2>1. target' \in Seq(Characters) /\ c' \in 0..Len(target') /\ multipart' \in BOOLEAN
      BY <1>0, <1>a
    <2>2. {name', path'} \cup DOMAIN params' \subseteq Pieces(target')
      BY <1>a, <1>d
    <2>3. split' \in BOOLEAN
      BY <1>0, <1>a
    <2> QED
      BY <1>b, <1>d, <2>1, <2>2, <2>3 DEF TypeOK
  <1>e. NextChar \in Characters /\ c < Len(target) => Append(value, NextChar) \in Seq(Characters)
    BY <1>0, AppendProperties
  <1>f. c < Len(target) => NextChar \in Characters
    BY <1>0 DEF NextChar
  <1>1. CASE Separator
    <2>1. /\ path' = name /\ name' = <<>> /\ inParams' = TRUE /\ c' = c + 1
          /\ UNCHANGED <<value, inValue, params>>
      BY <1>1 DEF Separator, ReadsTarget
    <2>2. <<>> \in Pieces(target) /\ SubSeq(target, c' + 1, c') = <<>> /\ c' + 1 \in 1 .. c' + 1
      <3>1. c' \in Nat
        BY <1>0, <2>1
      <3> QED
        BY <1>0, <3>1, NothingIsPiece
    <2>3. TypeOK'
      BY <1>0, <1>d, <2>1, <2>2
    <2>4. NameIsPiece'
      BY <1>a, <2>1, <2>2 DEF NameIsPiece
    <2> QED
      BY <2>3, <2>4
  <1>2. CASE Equals
    <2>1. inParams /\ inValue' = TRUE /\ UNCHANGED <<name, value, inParams, path, params>>
      BY <1>2 DEF Equals
    <2>2. TypeOK'
      BY <1>0, <1>d, <2>1
    <2> QED
      BY <2>1, <2>2 DEF NameIsPiece
  <1>3. CASE Ampersand
    <2>1. /\ inParams /\ params' = Store(params, name, value) /\ name' = <<>> /\ value' = <<>>
          /\ inValue' = FALSE /\ c' = c + 1 /\ UNCHANGED <<inParams, path>>
      BY <1>3 DEF Ampersand, ReadsTarget
    <2>2. <<>> \in Pieces(target) /\ SubSeq(target, c' + 1, c') = <<>> /\ c' + 1 \in 1 .. c' + 1
      <3>1. c' \in Nat
        BY <1>0, <2>1
      <3> QED
        BY <1>0, <3>1, NothingIsPiece
    <2>3. params' \in [DOMAIN params' -> Seq(Characters)] /\ DOMAIN params' = DOMAIN params \cup {name}
      <3>1. Store(params, name, value) \in [DOMAIN params \cup {name} -> Seq(Characters)]
        BY <1>0, StoreType
      <3>2. DOMAIN params' = DOMAIN params \cup {name}
        BY <2>1, Stores
      <3> QED
        BY <2>1, <3>1, <3>2
    <2>4. <<>> \in Seq(Characters)
      OBVIOUS
    <2>5. TypeOK'
      BY <1>0, <1>d, <2>1, <2>2, <2>3, <2>4
    <2>6. NameIsPiece'
      BY <1>a, <2>1, <2>2 DEF NameIsPiece
    <2> QED
      BY <2>5, <2>6
  <1>4. CASE Ordinary
    <2>1. c \in Nat /\ c < Len(target) /\ c' = c + 1 /\ NextChar \in Characters
      BY <1>0, <1>f, <1>4 DEF Ordinary, ReadsTarget
    <2>2. /\ inParams /\ inValue => value' = Append(value, NextChar) /\ name' = name
          /\ ~(inParams /\ inValue) => name' = Append(name, NextChar) /\ value' = value
          /\ UNCHANGED <<inParams, inValue, path, params>>
      BY <1>4 DEF Ordinary
    <2>3. CASE inValue
      <3>1. value' = Append(value, NextChar) /\ name' = name /\ inParams
        BY <1>c, <2>2, <2>3
      <3>2. value' \in Seq(Characters)
        BY <1>e, <2>1, <3>1
      <3>3. TypeOK'
        BY <1>0, <1>d, <2>2, <3>1, <3>2
      <3> QED
        BY <2>2, <2>3, <3>1, <3>3 DEF NameIsPiece
    <2>4. CASE ~inValue
      <3>1. PICK a \in 1 .. c + 1 : name = SubSeq(target, a, c)
        BY <1>c, <2>4
      <3>2. name' = SubSeq(target, a, c') /\ value' = value
        <4>1. a \in Nat /\ a # 0 /\ a <= c + 1
          BY <2>1, <3>1
        <4>2. Append(SubSeq(target, a, c), target[c + 1]) = SubSeq(target, a, c + 1)
          BY <1>0, <2>1, <4>1, TargetGrows
        <4> QED
          BY <2>1, <2>2, <2>4, <3>1, <4>2 DEF NextChar
      <3>3. a \in 1 .. Len(target) + 1 /\ c' \in 0..Len(target) /\ a \in 1 .. c' + 1
        BY <1>a, <2>1, <3>1
      <3>4. name' \in Pieces(target)
        BY <1>0, <3>2, <3>3, PieceOfTarget
      <3>5. TypeOK'
        BY <1>0, <1>d, <2>2, <3>2, <3>4
      <3>6. NameIsPiece'
        BY <1>a, <2>2, <2>4, <3>2, <3>3 DEF NameIsPiece
      <3> QED
        BY <3>5, <3>6
    <2> QED
      BY <2>3, <2>4
  <1>5. CASE LastPiece
    <2>1. /\ UNCHANGED <<c, name, value, inParams, inValue>>
          /\ \/ UNCHANGED <<path, params>>
             \/ params' = Emplace(params, name, value) /\ path' = path
             \/ path' = name /\ params' = params
      BY <1>5 DEF LastPiece
    <2>2. params' \in [DOMAIN params' -> Seq(Characters)] /\ DOMAIN params' \subseteq DOMAIN params \cup {name}
      <3>1. CASE params' = params
        BY <1>0, <3>1
      <3>2. CASE params' = Emplace(params, name, value)
        <4>1. /\ Emplace(params, name, value) \in {params, Store(params, name, value)}
              /\ Store(params, name, value) \in [DOMAIN params \cup {name} -> Seq(Characters)]
          BY <1>0, StoreType, Stores
        <4> QED
          BY <1>0, <3>2, <4>1
      <3> QED
        BY <2>1, <3>1, <3>2
    <2>3. path' \in Pieces(target)
      BY <1>0, <2>1
    <2>4. TypeOK'
      BY <1>0, <1>d, <2>1, <2>2, <2>3
    <2>5. NameIsPiece'
      BY <1>a, <1>c, <2>1 DEF NameIsPiece
    <2> QED
      BY <2>4, <2>5
  <1> QED
    BY <1>1, <1>2, <1>3, <1>4, <1>5 DEF SplitTarget

LEMMA FreshStep == TypeOK /\ SplitInv /\ SplitTarget => Fresh'
  <1> SUFFICES ASSUME TypeOK, SplitInv, SplitTarget, Separators' \cap 1..c' = {}
               PROVE  /\ ~inParams' /\ ~inValue' /\ value' = <<>> /\ params' = <<>>
                      /\ name' = SubSeq(target', 1, c')
                      /\ path' = IF split' THEN target' ELSE <<>>
    BY DEF Fresh
  <1>1. /\ target' = target /\ target \in Seq(Characters) /\ Len(target) \in Nat
        /\ \/ LastPiece /\ c = Len(target) /\ c' = c /\ split' = TRUE /\ ~split
           \/ /\ Separator \/ Equals \/ Ampersand \/ Ordinary
              /\ c \in Nat /\ c < Len(target) /\ c' = c + 1 /\ split' = split /\ ~split
    BY Rounds
  <1>2. Separators' = Separators /\ Separators \cap 1..c = {}
    <2>1. Separators' = Separators
      BY <1>1 DEF Separators
    <2> QED
      BY <1>1, <2>1
  <1>3. /\ ~inParams /\ ~inValue /\ name = SubSeq(target, 1, c) /\ value = <<>> /\ params = <<>>
        /\ path = <<>>
    BY <1>1, <1>2 DEF SplitInv, Fresh
  <1>4. CASE LastPiece
    <2>1. SubSeq(target, 1, Len(target)) = target
      BY <1>1, SubSeqFull
    <2>2. UNCHANGED <<name, value, inParams, inValue>>
      BY <1>4 DEF LastPiece
    <2>3. name = target /\ c = Len(target) /\ c' = c /\ split' = TRUE
      <3>1. c = Len(target) /\ c' = c /\ split' = TRUE
        BY <1>4 DEF LastPiece
      <3> QED
        BY <1>3, <2>1, <3>1
    <2>4. path' = target /\ params' = params
      <3>1. CASE Len(name) = 0
        <4>1. path' = path /\ params' = params
          BY <1>4, <3>1 DEF LastPiece
        <4>2. target = <<>>
          BY <1>1, <2>3, <3>1, EmptySeq
        <4> QED
          BY <1>3, <4>1, <4>2
      <3>2. CASE Len(name) # 0
        BY <1>3, <1>4, <2>3, <3>2 DEF LastPiece
      <3> QED
        BY <3>1, <3>2
    <2> QED
      BY <1>1, <1>3, <2>2, <2>3, <2>4
  <1>5. CASE Separator \/ Equals \/ Ampersand \/ Ordinary
    <2>1. c \in Nat /\ c < Len(target) /\ c' = c + 1 /\ split' = split /\ ~split
      BY <1>1, <1>5 DEF Separator, Equals, Ampersand, Ordinary, ReadsTarget
    <2>2. NextChar \notin {"?", "#"}
      BY <1>1, <1>2, <2>1 DEF NextChar, Separators
    <2>3. Ordinary
      BY <1>3, <1>5, <2>2 DEF Separator, Equals, Ampersand
    <2>4. name' = Append(name, NextChar) /\ value' = value
          /\ UNCHANGED <<inParams, inValue, path, params>>
      BY <1>3, <2>3 DEF Ordinary
    <2>5. Append(SubSeq(target, 1, c), target[c + 1]) = SubSeq(target, 1, c + 1)
      BY <1>1, <2>1, TargetGrows
    <2> QED
      BY <1>1, <1>3, <2>1, <2>4, <2>5 DEF NextChar
  <1> QED
    BY <1>4, <1>5 DEF SplitTarget

LEMMA OnlySeparator ==
    ASSUME target \in Seq(Characters), OneSeparator
    PROVE  /\ Start \in 1..Len(target)
           /\ \A k \in 1..Len(target) : target[k] \in {"?", "#"} <=> k = Start
  <1>1. Separators \in SUBSET (1..Len(target)) /\ Len(target) \in Nat
    BY DEF Separators
  <1>2. IsFiniteSet(Separators)
    <2> DEFINE all == 1..Len(target)
    <2>1. IsFiniteSet(all)
      BY <1>1, FS_Interval
    <2>2. Separators \in SUBSET all
      BY <1>1
    <2> HIDE DEF all
    <2> QED
      BY <2>1, <2>2, FS_Subset
  <1>3. PICK p : Separators = {p}
    BY <1>2, FS_Singleton DEF OneSeparator
  <1>4. Start = p
    BY <1>3 DEF Start
  <1>5. \A k \in 1..Len(target) : k \in Separators <=> k = Start
    BY <1>3, <1>4
  <1> QED
    BY <1>1, <1>3, <1>4, <1>5 DEF Separators

LEMMA CutsAre ==
    ASSUME target \in Seq(Characters), OneSeparator
    PROVE  /\ Start \in 1..Len(target) /\ Len(target) \in Nat
           /\ Cuts \subseteq Start .. Len(target) + 1 /\ Start \in Cuts /\ Len(target) + 1 \in Cuts
           /\ \A k \in Start + 1 .. Len(target) : k \in Cuts <=> target[k] = "&"
  <1>1. Start \in 1..Len(target) /\ Len(target) \in Nat
    BY OnlySeparator
  <1> QED
    BY <1>1 DEF Cuts

LEMMA SomeFieldIsRead ==
    ASSUME target \in Seq(Characters), OneSeparator, c \in 0..Len(target), Start <= c
    PROVE  \E s \in Cuts : ReadsFrom(s)
  <1>1. Start \in 1..Len(target) /\ Len(target) \in Nat /\ Cuts \subseteq Start .. Len(target) + 1
        /\ Start \in Cuts
    BY CutsAre
  <1> DEFINE u == {k \in Cuts : k <= c}
           n == Len(target) + 1
  <1>2. u \in SUBSET (1..n) /\ u # {} /\ n \in Nat
    <2>1. n \in Nat
      BY <1>1
    <2>2. Start \in u
      BY <1>1
    <2>3. \A k \in Cuts : k \in 1..n
      BY <1>1
    <2> QED
      BY <2>1, <2>2, <2>3
  <1>3. Max(u) \in u /\ \A y \in u : y <= Max(u)
    <2> HIDE DEF u, n
    <2> QED
      BY <1>2, Greatest
  <1> DEFINE s == Max(u)
  <1>4. s \in Cuts /\ s <= c /\ \A y \in Cuts : y <= c => y <= s
    BY <1>3
  <1> HIDE DEF s, u
  <1>5. \A k \in Cuts : k <= s \/ c < k
    BY <1>1, <1>4
  <1>6. ReadsFrom(s)
    BY <1>4, <1>5 DEF ReadsFrom
  <1> QED
    BY <1>4, <1>6

LEMMA OneFieldIsRead ==
    ASSUME target \in Seq(Characters), OneSeparator, c \in 0..Len(target),
           NEW s \in Cuts, ReadsFrom(s)
    PROVE  /\ s \in Start..c
           /\ \A t \in Cuts : ReadsFrom(t) => t = s
           /\ \A f \in Fields : f[2] <= c => f[1] < f[2] /\ f[2] <= s
           /\ \A f \in Fields : f[1] \in Cuts /\ f[2] \in Cuts /\ f[1] < f[2] /\ f = <<f[1], f[2]>>
  <1>1. Start \in 1..Len(target) /\ Len(target) \in Nat /\ Cuts \subseteq Start .. Len(target) + 1
    BY CutsAre
  <1>2. s \in Start..c
    BY <1>1 DEF ReadsFrom
  <1>3. \A t \in Cuts : ReadsFrom(t) => t = s
    BY <1>1 DEF ReadsFrom
  <1>4. \A f \in Fields : f[1] \in Cuts /\ f[2] \in Cuts /\ f[1] < f[2] /\ f = <<f[1], f[2]>>
    BY DEF Fields
  <1>5. \A f \in Fields : f[2] <= c => f[1] < f[2] /\ f[2] <= s
    BY <1>1, <1>4 DEF ReadsFrom
  <1> QED
    BY <1>2, <1>3, <1>4, <1>5

\* The field that ends with the character that is looked at.
LEMMA FieldEnds ==
    ASSUME target \in Seq(Characters), OneSeparator, c \in 0..Len(target),
           NEW s \in Cuts, ReadsFrom(s), FieldRead(s), c + 1 \in Cuts
    PROVE  LET h == <<s, c + 1>>
           IN  /\ h \in Fields /\ NameOf(h) = name /\ ValueOf(h) = value
               /\ \A f \in Done : f[1] < s /\ f[2] <= c /\ f # h
               /\ \A f \in Fields : f[2] <= c + 1 <=> f \in Done \cup {h}
  <1> DEFINE h == <<s, c + 1>>
  <1>1. h[1] = s /\ h[2] = c + 1 /\ c \in Nat /\ Len(target) \in Nat
    OBVIOUS
  <1>2. Start \in 1..Len(target) /\ Cuts \subseteq Start .. Len(target) + 1
    BY CutsAre
  <1>3. s \in Start..c
    BY OneFieldIsRead
  <1>4. h \in Cuts \X Cuts /\ h[1] < h[2]
    BY <1>1, <1>2, <1>3
  <1>5. \A k \in Cuts : k <= s \/ c + 1 <= k
    BY <1>1, <1>2 DEF ReadsFrom
  <1> HIDE DEF h
  <1>6. h \in Fields
    BY <1>1, <1>4, <1>5 DEF Fields
  <1>7. NameOf(h) = name /\ ValueOf(h) = value
    <2>1. EqualSigns(h) = {k \in s + 1 .. c : target[k] = "="}
      BY <1>1 DEF EqualSigns
    <2>2. CASE inValue
      <3>1. PICK e \in s + 1 .. c :
                /\ target[e] = "=" /\ \A m \in s + 1 .. e - 1 : target[m] # "="
                /\ name = SubSeq(target, s + 1, e - 1) /\ value = SubSeq(target, e + 1, c)
        BY <2>2 DEF FieldRead
      <3>2. e \in EqualSigns(h) /\ \A m \in EqualSigns(h) : e <= m
        BY <1>1, <1>2, <1>3, <2>1, <3>1
      <3>3. ASSUME NEW k \in EqualSigns(h), \A m \in EqualSigns(h) : k <= m PROVE k = e
        BY <1>1, <1>2, <1>3, <2>1, <3>1, <3>2, <3>3
      <3>4. NameEnd(h) = e
        BY <3>2, <3>3 DEF NameEnd
      <3>5. h[1] + 1 = s + 1 /\ h[2] - 1 = c
        BY <1>1
      <3> QED
        BY <3>1, <3>4, <3>5 DEF NameOf, ValueOf
    <2>3. CASE ~inValue
      <3>1. (\A m \in s + 1 .. c : target[m] # "=") /\ name = SubSeq(target, s + 1, c) /\ value = <<>>
        BY <2>3 DEF FieldRead
      <3>2. NameEnd(h) = c + 1
        BY <1>1, <2>1, <3>1 DEF NameEnd
      <3>3. h[1] + 1 = s + 1 /\ (c + 1) - 1 = c /\ h[2] - 1 = c
        BY <1>1
      <3>4. SubSeq(target, c + 1 + 1, c) = <<>>
        BY <1>1
      <3> QED
        BY <3>1, <3>2, <3>3, <3>4 DEF NameOf, ValueOf
    <2> QED
      BY <2>2, <2>3
  <1>8. ASSUME NEW f \in Done PROVE f[1] < s /\ f[2] <= c /\ f # h
    <2>1. f \in Fields /\ f[2] <= c
      BY DEF Done
    <2>2. f[1] \in Cuts /\ f[2] \in Cuts /\ f[1] < f[2] /\ f[2] <= s
      BY <2>1, OneFieldIsRead
    <2>3. f[1] \in Int /\ f[2] \in Int /\ s \in Int
      <3>1. \A k \in Cuts : k \in Int
        BY <1>1, <1>2
      <3> QED
        BY <2>2, <3>1
    <2>4. f[1] < s
      BY <2>2, <2>3
    <2> QED
      BY <1>1, <2>1, <2>4, <2>3
  <1>9. ASSUME NEW f \in Fields PROVE f[2] <= c + 1 <=> f \in Done \cup {h}
    <2>1. f[1] \in Cuts /\ f[2] \in Cuts /\ f[1] < f[2] /\ f = <<f[1], f[2]>>
      BY OneFieldIsRead
    <2>2. \A k \in Cuts : k <= f[1] \/ f[2] <= k
      BY DEF Fields
    <2>3. f[1] \in Int /\ f[2] \in Int /\ s \in Int
      <3>1. \A k \in Cuts : k \in Int
        BY <1>1, <1>2
      <3> QED
        BY <2>1, <3>1
    <2>4. CASE f[2] = c + 1
      <3>1. f[1] = s
        BY <1>1, <1>3, <1>5, <2>1, <2>2, <2>3, <2>4
      <3> QED
        BY <1>1, <2>1, <2>4, <3>1 DEF h
    <2>5. CASE f[2] # c + 1
      <3>1. f # h
        BY <1>1, <2>5
      <3>2. f[2] <= c + 1 <=> f[2] <= c
        BY <1>1, <2>3, <2>5
      <3> QED
        BY <3>1, <3>2 DEF Done
    <2> QED
      BY <2>4, <2>5
  <1> QED
    BY <1>6, <1>7, <1>8, <1>9 DEF h

\* The target stays, and what is defined from it.
LEMMA TargetFixed ==
    ASSUME target' = target
    PROVE  /\ Separators' = Separators /\ Start' = Start /\ Cuts' = Cuts /\ Fields' = Fields
           /\ OneSeparator' = OneSeparator
           /\ \A f : NameOf(f)' = NameOf(f) /\ ValueOf(f)' = ValueOf(f)
           /\ Kept' = Kept
  <1>1. Separators' = Separators
    BY DEF Separators
  <1>2. Start' = Start /\ OneSeparator' = OneSeparator
    BY <1>1 DEF Start, OneSeparator
  <1>3. Cuts' = Cuts
    BY <1>2 DEF Cuts
  <1>4. Fields' = Fields
    BY <1>3 DEF Fields
  <1>5. \A f : NameEnd(f)' = NameEnd(f)
    BY DEF NameEnd, EqualSigns
  <1>6. \A f : NameOf(f)' = NameOf(f) /\ ValueOf(f)' = ValueOf(f)
    BY <1>5 DEF NameOf, ValueOf
  <1>7. \A f : Wins(f)' = Wins(f)
    BY <1>4, <1>6 DEF Wins, IsLastField
  <1>8. Kept' = Kept
    BY <1>4, <1>6, <1>7 DEF Kept, IsLastField
  <1> QED
    BY <1>1, <1>2, <1>3, <1>4, <1>6, <1>8

\* A round behind the only separator: it is the separator itself or not one.
LEMMA RoundsBehind ==
    ASSUME TypeOK, SplitInv, SplitTarget, Behind'
    PROVE  /\ OneSeparator /\ target \in Seq(Characters) /\ c \in 0..Len(target)
           /\ \/ /\ Separator /\ Start = c + 1 /\ c' = c + 1 /\ Fresh
                 /\ ~inValue /\ name = SubSeq(target, 1, c) /\ value = <<>> /\ params = <<>>
              \/ /\ LastPiece \/ Equals \/ Ampersand \/ Ordinary
                 /\ Behind /\ inParams
  <1>1. /\ target' = target /\ target \in Seq(Characters) /\ Len(target) \in Nat
        /\ \/ LastPiece /\ c = Len(target) /\ c' = c /\ split' = TRUE /\ ~split
           \/ /\ Separator \/ Equals \/ Ampersand \/ Ordinary
              /\ c \in Nat /\ c < Len(target) /\ c' = c + 1 /\ split' = split /\ ~split
    BY Rounds
  <1>2. OneSeparator /\ Start <= c' /\ c \in 0..Len(target)
    <2>1. OneSeparator' = OneSeparator /\ Start' = Start
      BY <1>1, TargetFixed
    <2> QED
      BY <2>1 DEF Behind, TypeOK
  <1>3. Start \in 1..Len(target) /\ \A k \in 1..Len(target) : target[k] \in {"?", "#"} <=> k = Start
    BY <1>1, <1>2, OnlySeparator
  <1>4. CASE Start <= c
    <2>1. Behind /\ inParams
      BY <1>2, <1>4 DEF Behind, SplitInv, PathIsBefore
    <2>2. ~Separator
      <3>1. SUFFICES ASSUME Separator PROVE FALSE
        OBVIOUS
      <3>2. c + 1 \in 1..Len(target) /\ target[c + 1] \in {"?", "#"}
        BY <1>2, <3>1 DEF Separator, ReadsTarget, NextChar
      <3> QED
        BY <1>2, <1>3, <1>4, <3>2
    <2> QED
      BY <1>1, <1>2, <2>1, <2>2 DEF SplitTarget
  <1>5. CASE Start > c
    <2>1. c' = c + 1 /\ Start = c + 1 /\ (Separator \/ Equals \/ Ampersand \/ Ordinary)
      BY <1>1, <1>2, <1>3, <1>5
    <2>2. NextChar \in {"?", "#"}
      BY <1>3, <2>1 DEF NextChar
    <2>3. Separator
      BY <2>1, <2>2 DEF Equals, Ampersand, Ordinary
    <2>4. Separators \cap 1..c = {}
      BY <1>2, <1>3, <2>1 DEF Separators
    <2>5. ~inValue /\ name = SubSeq(target, 1, c) /\ value = <<>> /\ params = <<>> /\ Fresh
      BY <2>4 DEF SplitInv, Fresh
    <2> QED
      BY <1>1, <1>2, <2>1, <2>3, <2>5
  <1> QED
    BY <1>2, <1>3, <1>4, <1>5

LEMMA PathStep == TypeOK /\ SplitInv /\ SplitTarget => PathIsBefore'
  <1> SUFFICES ASSUME TypeOK, SplitInv, SplitTarget, Behind'
               PROVE  inParams' /\ path' = SubSeq(target', 1, Start' - 1)
    BY DEF PathIsBefore
  <1>1. target' = target /\ Start' = Start
    BY Rounds, TargetFixed
  <1>2. /\ OneSeparator /\ target \in Seq(Characters) /\ c \in 0..Len(target)
        /\ \/ Separator /\ Start = c + 1 /\ name = SubSeq(target, 1, c)
           \/ (LastPiece \/ Equals \/ Ampersand \/ Ordinary) /\ Behind /\ inParams
    BY RoundsBehind
  <1>3. CASE Separator /\ Start = c + 1 /\ name = SubSeq(target, 1, c)
    BY <1>1, <1>2, <1>3 DEF Separator
  <1>4. CASE (LastPiece \/ Equals \/ Ampersand \/ Ordinary) /\ Behind /\ inParams
    <2>1. path = SubSeq(target, 1, Start - 1)
      BY <1>4 DEF SplitInv, PathIsBefore
    <2>2. inParams' = inParams /\ path' = path
      BY <1>4 DEF LastPiece, Equals, Ampersand, Ordinary
    <2> QED
      BY <1>1, <1>4, <2>1, <2>2
  <1> QED
    BY <1>2, <1>3, <1>4

\* Which field is read after a round.
LEMMA ReadsOn ==
    ASSUME target \in Seq(Characters), target' = target, OneSeparator, c \in 0..Len(target),
           c' = c + 1, NEW s \in Cuts, ReadsFrom(s)'
    PROVE  (c + 1 \in Cuts => s = c + 1) /\ (c + 1 \notin Cuts => ReadsFrom(s))
  <1>1. Start \in 1..Len(target) /\ Cuts \subseteq Start .. Len(target) + 1 /\ Len(target) \in Nat
    BY CutsAre
  <1>2. s <= c + 1 /\ \A k \in Cuts : k <= s \/ c + 1 < k
    BY TargetFixed DEF ReadsFrom
  <1>3. \A k \in Cuts : k \in Int
    BY <1>1
  <1>4. c + 1 \in Cuts => s = c + 1
    BY <1>2, <1>3
  <1>5. ASSUME c + 1 \notin Cuts PROVE ReadsFrom(s)
    <2>1. s # c + 1 /\ s \in Int /\ c \in Int
      BY <1>3, <1>5
    <2>2. s <= c
      BY <1>2, <2>1
    <2>3. \A k \in Cuts : k <= s \/ c < k
      BY <1>2, <1>3
    <2> QED
      BY <2>2, <2>3 DEF ReadsFrom
  <1> QED
    BY <1>4, <1>5

LEMMA ReadingStep == TypeOK /\ SplitInv /\ SplitTarget => Reading'
  <1> SUFFICES ASSUME TypeOK, SplitInv, SplitTarget PROVE Reading'
    OBVIOUS
  <1>0. Cuts' = Cuts
    BY Rounds, TargetFixed
  <1> SUFFICES ASSUME Behind', NEW s \in Cuts, ReadsFrom(s)' PROVE FieldRead(s)'
    BY <1>0 DEF Reading
  <1>1. /\ target' = target /\ Len(target) \in Nat
        /\ \/ LastPiece /\ c' = c
           \/ c < Len(target) /\ c' = c + 1
    BY Rounds
  <1>2. /\ OneSeparator /\ target \in Seq(Characters) /\ c \in 0..Len(target)
        /\ \/ /\ Separator /\ Start = c + 1 /\ c' = c + 1 /\ ~inValue /\ value = <<>>
           \/ (LastPiece \/ Equals \/ Ampersand \/ Ordinary) /\ Behind /\ inParams
    BY RoundsBehind
  <1>3. /\ Start \in 1..Len(target) /\ Cuts \subseteq Start .. Len(target) + 1 /\ Start \in Cuts
        /\ \A k \in Start + 1 .. Len(target) : k \in Cuts <=> target[k] = "&"
    BY <1>2, CutsAre
  \* A field has just begun.
  <1>a. ASSUME s = c + 1, c' = c + 1, inValue' = FALSE, name' = <<>>, value' = <<>>
        PROVE  FieldRead(s)'
    <2>1. s + 1 .. c' = {} /\ SubSeq(target', s + 1, c') = <<>>
      <3>1. s + 1 .. c' = {} /\ s + 1 = (c + 1) + 1 /\ c + 1 \in Nat
        BY <1>2, <1>a
      <3>2. SubSeq(target, (c + 1) + 1, c + 1) = <<>>
        BY <1>2, <3>1, NothingIsPiece
      <3> QED
        BY <1>1, <1>a, <3>1, <3>2
    <2> QED
      BY <1>a, <2>1 DEF FieldRead
  <1>b. ASSUME Behind, ReadsFrom(s) PROVE FieldRead(s) /\ s \in Start..c
    BY <1>2, <1>b, OneFieldIsRead DEF SplitInv, Reading
  <1>c. ASSUME Behind, c < Len(target), NextChar # "&" PROVE c + 1 \notin Cuts
    BY <1>2, <1>3, <1>c DEF Behind, NextChar
  <1>4. CASE Separator /\ Start = c + 1 /\ c' = c + 1 /\ ~inValue /\ value = <<>>
    <2>1. s = c + 1
      BY <1>1, <1>2, <1>3, <1>4, ReadsOn
    <2>2. inValue' = FALSE /\ name' = <<>> /\ value' = <<>>
      BY <1>4 DEF Separator
    <2> QED
      BY <1>a, <1>4, <2>1, <2>2
  <1>5. CASE LastPiece /\ Behind
    <2>1. UNCHANGED <<c, name, value, inValue>>
      BY <1>5 DEF LastPiece
    <2>2. ReadsFrom(s)
      BY <1>1, <2>1, TargetFixed DEF ReadsFrom
    <2>3. FieldRead(s)
      BY <1>b, <1>5, <2>2
    <2> QED
      BY <1>1, <2>1, <2>3 DEF FieldRead
  <1>6. CASE Ampersand /\ Behind
    <2>1. /\ inValue' = FALSE /\ name' = <<>> /\ value' = <<>> /\ c' = c + 1 /\ c < Len(target)
          /\ target[c + 1] = "&"
      BY <1>6 DEF Ampersand, ReadsTarget, NextChar
    <2>2. c + 1 \in Cuts
      BY <1>2, <1>3, <1>6, <2>1 DEF Behind
    <2>3. s = c + 1
      BY <1>1, <1>2, <2>1, <2>2, ReadsOn
    <2> QED
      BY <1>a, <2>1, <2>3
  <1>7. CASE Equals /\ Behind
    <2>1. /\ ~inValue /\ inValue' = TRUE /\ name' = name /\ value' = value /\ c' = c + 1
          /\ c < Len(target) /\ target[c + 1] = "=" /\ NextChar # "&"
      BY <1>7 DEF Equals, ReadsTarget, NextChar
    <2>2. ReadsFrom(s)
      BY <1>c, <1>1, <1>2, <1>7, <2>1, ReadsOn
    <2>3. s \in Start..c /\ (\A m \in s + 1 .. c : target[m] # "=")
          /\ name = SubSeq(target, s + 1, c) /\ value = <<>>
      BY <1>b, <1>7, <2>1, <2>2 DEF FieldRead
    <2> DEFINE e == c + 1
    <2>4. e \in s + 1 .. c' /\ e - 1 = c /\ SubSeq(target, e + 1, e) = <<>> /\ e = c'
      <3>1. e \in s + 1 .. c' /\ e - 1 = c /\ e \in Nat /\ e = c'
        BY <1>2, <1>3, <2>1, <2>3
      <3> HIDE DEF e
      <3> QED
        BY <1>2, <3>1, NothingIsPiece
    <2>5. target[e] = "="
      BY <2>1
    <2> HIDE DEF e
    <2>6. /\ target[e] = "=" /\ \A m \in s + 1 .. e - 1 : target[m] # "="
          /\ name = SubSeq(target, s + 1, e - 1) /\ value = SubSeq(target, e + 1, c')
      BY <2>3, <2>4, <2>5
    <2> QED
      BY <1>1, <2>1, <2>4, <2>6 DEF FieldRead
  <1>8. CASE Ordinary /\ Behind /\ inParams
    <2>1. /\ c' = c + 1 /\ c < Len(target) /\ NextChar # "&" /\ NextChar = target[c + 1]
          /\ target[c + 1] = "=" => inValue
          /\ inValue' = inValue
      BY <1>8 DEF Ordinary, ReadsTarget, NextChar
    <2>2. /\ inValue => value' = Append(value, target[c + 1]) /\ name' = name
          /\ ~inValue => name' = Append(name, target[c + 1]) /\ value' = value
      BY <1>8, <2>1 DEF Ordinary
    <2>3. ReadsFrom(s)
      BY <1>c, <1>1, <1>2, <1>8, <2>1, ReadsOn
    <2>4. FieldRead(s) /\ s \in Start..c
      BY <1>b, <1>8, <2>3
    <2>5. CASE inValue
      <3>1. PICK e \in s + 1 .. c :
                /\ target[e] = "=" /\ \A m \in s + 1 .. e - 1 : target[m] # "="
                /\ name = SubSeq(target, s + 1, e - 1) /\ value = SubSeq(target, e + 1, c)
        BY <2>4, <2>5 DEF FieldRead
      <3>2. e \in s + 1 .. c' /\ e + 1 \in Nat /\ e + 1 # 0 /\ c \in Nat /\ e + 1 <= c + 1
        BY <1>2, <1>3, <2>1, <2>4, <3>1
      <3>3. Append(SubSeq(target, e + 1, c), target[c + 1]) = SubSeq(target, e + 1, c + 1)
        BY <1>2, <2>1, <3>2, TargetGrows
      <3>4. value' = SubSeq(target, e + 1, c') /\ name' = SubSeq(target, s + 1, e - 1)
        BY <2>1, <2>2, <2>5, <3>1, <3>3
      <3> QED
        BY <1>1, <2>1, <2>5, <3>1, <3>2, <3>4 DEF FieldRead
    <2>6. CASE ~inValue
      <3>1. (\A m \in s + 1 .. c : target[m] # "=") /\ name = SubSeq(target, s + 1, c) /\ value = <<>>
        BY <2>4, <2>6 DEF FieldRead
      <3>2. s + 1 \in Nat /\ s + 1 # 0 /\ c \in Nat /\ s + 1 <= c + 1
        BY <1>2, <1>3, <2>4
      <3>3. Append(SubSeq(target, s + 1, c), target[c + 1]) = SubSeq(target, s + 1, c + 1)
        BY <1>2, <2>1, <3>2, TargetGrows
      <3>4. name' = SubSeq(target, s + 1, c') /\ value' = <<>>
        BY <2>1, <2>2, <2>6, <3>1, <3>3
      <3>5. \A m \in s + 1 .. c' : target[m] # "="
        <4>1. \A m \in s + 1 .. c' : m \in s + 1 .. c \/ m = c + 1
          BY <2>1, <3>2
        <4> QED
          BY <2>1, <2>6, <3>1, <4>1
      <3> QED
        BY <1>1, <2>1, <2>6, <3>4, <3>5 DEF FieldRead
    <2> QED
      BY <2>5, <2>6
  <1> QED
    BY <1>2, <1>4, <1>5, <1>6, <1>7, <1>8

LEMMA EndedStep == TypeOK /\ SplitInv /\ SplitTarget => Ended'
  <1> SUFFICES ASSUME TypeOK, SplitInv, SplitTarget PROVE Ended'
    OBVIOUS
  <1>1. /\ target' = target /\ Len(target) \in Nat
        /\ \/ split' = TRUE
           \/ c < Len(target) /\ c' = c + 1 /\ split' = split /\ ~split
    BY Rounds
  <1>2. /\ Fields' = Fields /\ Cuts' = Cuts
        /\ \A f : NameOf(f)' = NameOf(f) /\ ValueOf(f)' = ValueOf(f)
    BY <1>1, TargetFixed
  <1> DEFINE D == {f \in Fields : f[2] <= c + 1}
  <1> SUFFICES ASSUME Behind', c < Len(target), c' = c + 1, ~split, ~split'
               PROVE  /\ DOMAIN params' = {NameOf(f) : f \in D}
                      /\ \A f \in D : (\A g \in D : NameOf(g) = NameOf(f) => g[1] <= f[1])
                            => params'[NameOf(f)] = ValueOf(f)
    BY <1>1, <1>2 DEF Ended, Done, Latest
  <1>3. /\ OneSeparator /\ target \in Seq(Characters) /\ c \in 0..Len(target)
        /\ \/ Separator /\ Start = c + 1 /\ params = <<>>
           \/ (LastPiece \/ Equals \/ Ampersand \/ Ordinary) /\ Behind /\ inParams
    BY RoundsBehind
  <1>4. /\ Start \in 1..Len(target) /\ Cuts \subseteq Start .. Len(target) + 1 /\ Start \in Cuts
        /\ \A k \in Start + 1 .. Len(target) : k \in Cuts <=> target[k] = "&"
    BY <1>3, CutsAre
  <1>5. \A f \in Fields : f[1] \in Cuts /\ f[2] \in Cuts /\ f[1] < f[2]
    BY DEF Fields
  <1>6. \A k \in Cuts : k \in Int /\ Start <= k
    BY <1>4
  <1>7. CASE Separator /\ Start = c + 1 /\ params = <<>>
    <2>1. ASSUME NEW f \in D PROVE FALSE
      <3>1. f[1] \in Int /\ f[2] \in Int /\ Start <= f[1] /\ f[1] < f[2] /\ f[2] <= c + 1 /\ c \in Int
        BY <1>3, <1>5, <1>6, <2>1
      <3> QED
        BY <1>7, <3>1
    <2>2. params' = <<>> /\ DOMAIN <<>> = {}
      BY <1>7 DEF Separator
    <2> QED
      BY <2>1, <2>2
  <1>8. CASE Behind
    <2>1. /\ DOMAIN params = {NameOf(f) : f \in Done}
          /\ \A f \in Done : Latest(f) => params[NameOf(f)] = ValueOf(f)
      BY <1>8 DEF SplitInv, Ended
    <2>2. CASE NextChar # "&"
      <3>1. c + 1 \notin Cuts
        BY <1>3, <1>4, <1>8, <2>2 DEF Behind, NextChar
      <3>2. \A f \in Fields : f[2] <= c + 1 <=> f[2] <= c
        <4>1. \A f \in Fields : f[2] \in Int /\ f[2] # c + 1
          BY <1>5, <1>6, <3>1
        <4> QED
          BY <1>3, <4>1
      <3>3. D = Done
        BY <3>2 DEF Done
      <3>4. params' = params
        BY <1>1, <1>3, <2>2, <1>7 DEF Separator, LastPiece, Equals, Ampersand, Ordinary
      <3> HIDE DEF D
      <3> QED
        BY <2>1, <3>3, <3>4 DEF Latest
    <2>3. CASE NextChar = "&"
      <3>1. c + 1 \in Cuts
        BY <1>3, <1>4, <1>8, <2>3 DEF Behind, NextChar
      <3>2. PICK s \in Cuts : ReadsFrom(s)
        BY <1>3, <1>8, SomeFieldIsRead DEF Behind
      <3>3. FieldRead(s)
        BY <1>8, <3>2 DEF SplitInv, Reading
      <3> DEFINE h == <<s, c + 1>>
      <3>4. /\ h \in Fields /\ NameOf(h) = name /\ ValueOf(h) = value
            /\ \A f \in Done : f[1] < s /\ f[2] <= c /\ f # h
            /\ \A f \in Fields : f[2] <= c + 1 <=> f \in Done \cup {h}
        BY <1>3, <3>1, <3>2, <3>3, FieldEnds
      <3>5. D = Done \cup {h}
        <4>1. Done \subseteq Fields
          BY DEF Done
        <4> HIDE DEF h
        <4> QED
          BY <3>4, <4>1
      <3>6. h[1] = s
        OBVIOUS
      <3> HIDE DEF h, D
      <3>7. params' = Store(params, name, value)
        <4>1. Ampersand
          <5>1. ~LastPiece
            BY DEF LastPiece
          <5> QED
            BY <1>3, <2>3, <5>1 DEF Separator, Equals, Ordinary
        <4> QED
          BY <4>1 DEF Ampersand
      <3>8. /\ DOMAIN params' = DOMAIN params \cup {name} /\ params'[name] = value
            /\ \A x \in DOMAIN params : x # name => params'[x] = params[x]
        BY <3>7, Stores
      <3>9. DOMAIN params' = {NameOf(f) : f \in D}
        BY <2>1, <3>4, <3>5, <3>8
      <3>10. ASSUME NEW f \in D, \A g \in D : NameOf(g) = NameOf(f) => g[1] <= f[1]
             PROVE  params'[NameOf(f)] = ValueOf(f)
        <4>1. CASE f = h
          BY <3>4, <3>8, <4>1
        <4>2. CASE f # h
          <5>1. f \in Done
            BY <3>5, <4>2
          <5>2. NameOf(f) # name
            <6>1. f[1] < s /\ f[1] \in Int /\ s \in Int
              BY <1>5, <1>6, <3>2, <3>4, <5>1 DEF Done
            <6>2. SUFFICES ASSUME NameOf(h) = NameOf(f) PROVE FALSE
              BY <3>4
            <6>3. h \in D /\ h[1] <= f[1]
              BY <3>5, <3>10, <6>2
            <6> QED
              BY <3>6, <6>1, <6>3
          <5>3. Latest(f)
            BY <3>5, <3>10 DEF Latest
          <5>4. NameOf(f) \in DOMAIN params
            BY <2>1, <5>1
          <5> QED
            BY <2>1, <3>8, <5>1, <5>2, <5>3, <5>4
        <4> QED
          BY <4>1, <4>2
      <3> QED
        BY <3>9, <3>10
    <2> QED
      BY <2>2, <2>3
  <1> QED
    BY <1>3, <1>7, <1>8

\* Of the fields of one name one is the latest.
LEMMA OneIsLatest ==
    ASSUME target \in Seq(Characters), OneSeparator, NEW f \in Done
    PROVE  \E g \in Done : NameOf(g) = NameOf(f) /\ Latest(g)
  <1>1. /\ Start \in 1..Len(target) /\ Len(target) \in Nat
        /\ Cuts \subseteq Start .. Len(target) + 1
    BY CutsAre
  <1> DEFINE n == Len(target) + 1
             G == {g \in Done : NameOf(g) = NameOf(f)}
             u == {g[1] : g \in G}
  <1>2. \A g \in Done : g[1] \in 1..n
    <2>1. \A g \in Done : g[1] \in Cuts
      BY DEF Done, Fields
    <2>2. \A k \in Cuts : k \in 1..n
      BY <1>1
    <2> QED
      BY <2>1, <2>2
  <1>3. u \in SUBSET (1..n) /\ u # {} /\ n \in Nat
    BY <1>1, <1>2
  <1>4. Max(u) \in u /\ \A y \in u : y <= Max(u)
    <2> HIDE DEF u, n
    <2> QED
      BY <1>3, Greatest
  <1>5. PICK g \in G : g[1] = Max(u)
    BY <1>4
  <1>6. ASSUME NEW h \in Done, NameOf(h) = NameOf(g) PROVE h[1] <= g[1]
    <2>1. h[1] \in u
      BY <1>5, <1>6
    <2> QED
      BY <1>4, <1>5, <2>1
  <1>7. Latest(g)
    BY <1>6 DEF Latest
  <1> QED
    BY <1>5, <1>7

LEMMA AllEndedStep == TypeOK /\ SplitInv /\ SplitTarget => AllEnded'
  <1> SUFFICES ASSUME TypeOK, SplitInv, SplitTarget PROVE AllEnded'
    OBVIOUS
  <1>1. /\ target' = target /\ Len(target) \in Nat
        /\ \/ LastPiece /\ c = Len(target) /\ ~split
           \/ split' = split /\ ~split
    BY Rounds
  <1>2. /\ Kept' = Kept /\ \A f : NameOf(f)' = NameOf(f) /\ ValueOf(f)' = ValueOf(f)
    BY <1>1, TargetFixed
  <1> SUFFICES ASSUME Behind', LastPiece, c = Len(target), ~split
               PROVE  /\ DOMAIN params' = {NameOf(f) : f \in Kept}
                      /\ \A f \in Kept : params'[NameOf(f)] = ValueOf(f)
    BY <1>1, <1>2 DEF AllEnded
  <1>3. OneSeparator /\ target \in Seq(Characters) /\ c \in 0..Len(target) /\ Behind /\ inParams
    <2>1. ~Separator
      BY <1>1 DEF Separator, ReadsTarget
    <2> QED
      BY <2>1, RoundsBehind
  <1>4. /\ Start \in 1..Len(target) /\ Cuts \subseteq Start .. Len(target) + 1
        /\ Len(target) + 1 \in Cuts
    BY <1>3, CutsAre
  <1>5. \A f \in Fields : f[1] \in Cuts /\ f[2] \in Cuts /\ f[1] < f[2]
    BY DEF Fields
  <1>6. /\ DOMAIN params = {NameOf(f) : f \in Done}
        /\ \A f \in Done : Latest(f) => params[NameOf(f)] = ValueOf(f)
    BY <1>3 DEF SplitInv, Ended
  <1>7. PICK s \in Cuts : ReadsFrom(s)
    BY <1>3, SomeFieldIsRead DEF Behind
  <1> DEFINE h == <<s, c + 1>>
  <1>8. /\ h \in Fields /\ NameOf(h) = name /\ ValueOf(h) = value
        /\ \A f \in Done : f[1] < s /\ f[2] <= c /\ f # h
        /\ \A f \in Fields : f[2] <= c + 1 <=> f \in Done \cup {h}
    <2>1. FieldRead(s)
      BY <1>3, <1>7 DEF SplitInv, Reading
    <2> QED
      BY <1>3, <1>4, <1>7, <2>1, FieldEnds
  <1>9. h[1] = s /\ h[2] = c + 1 /\ c \in Nat
    BY <1>3
  <1> HIDE DEF h
  <1>10. Fields = Done \cup {h}
    <2>1. \A f \in Fields : f[2] <= c + 1
      <3>1. \A k \in Cuts : k <= Len(target) + 1
        BY <1>4
      <3> QED
        BY <1>5, <3>1
    <2>2. Done \subseteq Fields
      BY DEF Done
    <2> QED
      BY <1>8, <2>1, <2>2
  <1>11. IsLastField(h) /\ \A f \in Done : ~IsLastField(f)
    <2>1. \A f \in Done : f[2] \in Int /\ f[2] <= c
      <3>1. \A k \in Cuts : k \in Int
        BY <1>4
      <3> QED
        BY <1>5, <3>1 DEF Done
    <2> QED
      BY <1>9, <2>1 DEF IsLastField
  \* Which fields are kept.
  <1>12. ASSUME NEW f \in Done PROVE f \in Kept <=> Latest(f)
    <2>1. f \in Fields /\ f # h /\ ~IsLastField(f)
      BY <1>8, <1>10, <1>11
    <2>2. \A g \in Done : f[1] \in Int /\ g[1] \in Int /\ (g[1] = f[1] => g = f)
      <3>1. ASSUME NEW g \in Done, g[1] = f[1] PROVE g = f
        <4>1. /\ g \in Cuts \X Cuts /\ \A k \in Cuts : k <= g[1] \/ g[2] <= k
              /\ f \in Cuts \X Cuts /\ \A k \in Cuts : k <= f[1] \/ f[2] <= k
          BY DEF Done, Fields
        <4>2. \A k \in Cuts : k \in Int
          BY <1>4
        <4>3. g[1] < g[2] /\ f[1] < f[2]
          BY <1>5 DEF Done
        <4>4. g[2] = f[2]
          BY <3>1, <4>1, <4>2, <4>3
        <4> QED
          BY <3>1, <4>1, <4>4
      <3>2. \A g \in Done : g[1] \in Cuts
        BY <1>5 DEF Done
      <3>3. \A k \in Cuts : k \in Int
        BY <1>4
      <3> QED
        BY <3>1, <3>2, <3>3
    <2>3. Wins(f) <=> \A g \in Done \ {f} : NameOf(g) = NameOf(f) => g[1] < f[1]
      BY <1>10, <1>11, <2>1 DEF Wins
    <2>4. Wins(f) <=> Latest(f)
      <3>1. ASSUME Wins(f), NEW g \in Done, NameOf(g) = NameOf(f) PROVE g[1] <= f[1]
        BY <2>2, <2>3, <3>1
      <3>2. ASSUME Latest(f), NEW g \in Done \ {f}, NameOf(g) = NameOf(f) PROVE g[1] < f[1]
        <4>1. g[1] <= f[1] /\ g[1] # f[1]
          BY <2>2, <3>2 DEF Latest
        <4> QED
          BY <2>2, <4>1
      <3> QED
        BY <2>3, <3>1, <3>2 DEF Latest
    <2> QED
      BY <2>1, <2>4 DEF Kept
  <1>13. h \in Kept <=> name # <<>> /\ \A g \in Done : NameOf(g) # name
    <2>1. Wins(h) <=> \A g \in Done : NameOf(g) # name
      BY <1>8, <1>10, <1>11 DEF Wins
    <2> QED
      BY <1>8, <1>10, <1>11, <2>1 DEF Kept
  <1>14. Kept \subseteq Done \cup {h}
    BY <1>10 DEF Kept
  <1>15. {NameOf(f) : f \in Done \cap Kept} = DOMAIN params
    <2>1. ASSUME NEW f \in Done PROVE \E g \in Done \cap Kept : NameOf(g) = NameOf(f)
      BY <1>3, <1>12, OneIsLatest
    <2> QED
      BY <1>6, <2>1
  <1>16. name \in Seq(Characters) /\ (Len(name) = 0 <=> name = <<>>)
    <2>1. name \in Seq(Characters)
      BY <1>3, PiecesAreStrings DEF TypeOK
    <2> QED
      BY <2>1, EmptySeq
  <1>17. CASE name = <<>>
    <2>1. params' = params
      BY <1>16, <1>17 DEF LastPiece
    <2>2. Kept = Done \cap Kept
      BY <1>13, <1>14, <1>17
    <2> QED
      BY <1>6, <1>12, <1>15, <2>1, <2>2
  <1>18. CASE name # <<>> /\ name \in DOMAIN params
    <2>1. params' = params
      <3>1. params' = Emplace(params, name, value)
        BY <1>3, <1>16, <1>18 DEF LastPiece
      <3> QED
        BY <1>18, <3>1, Stores
    <2>2. h \notin Kept
      BY <1>6, <1>13, <1>18
    <2>3. Kept = Done \cap Kept
      BY <1>14, <2>2
    <2> QED
      BY <1>6, <1>12, <1>15, <2>1, <2>3
  <1>19. CASE name # <<>> /\ name \notin DOMAIN params
    <2>1. params' = Emplace(params, name, value)
      BY <1>3, <1>16, <1>19 DEF LastPiece
    <2>2. /\ DOMAIN params' = DOMAIN params \cup {name} /\ params'[name] = value
          /\ \A x \in DOMAIN params : x # name => params'[x] = params[x]
      BY <1>19, <2>1, Stores
    <2>3. h \in Kept
      BY <1>6, <1>13, <1>19
    <2>4. Kept = (Done \cap Kept) \cup {h}
      BY <1>14, <2>3
    <2>5. DOMAIN params' = {NameOf(f) : f \in Kept}
      BY <1>8, <1>15, <2>2, <2>4
    <2>6. ASSUME NEW f \in Kept PROVE params'[NameOf(f)] = ValueOf(f)
      <3>1. CASE f = h
        BY <1>8, <2>2, <3>1
      <3>2. CASE f # h
        <4>1. f \in Done /\ NameOf(f) \in DOMAIN params /\ NameOf(f) # name
          BY <1>6, <1>14, <1>19, <3>2
        <4>2. params[NameOf(f)] = ValueOf(f)
          BY <1>6, <1>12, <4>1
        <4> QED
          BY <2>2, <4>1, <4>2
      <3> QED
        BY <3>1, <3>2
    <2> QED
      BY <2>5, <2>6
  <1> QED
    BY <1>17, <1>18, <1>19

LEMMA QueryFixed ==
    ASSUME SplitInv, UNCHANGED query PROVE SplitInv'
  <1>1. /\ target' = target /\ c' = c /\ name' = name /\ value' = value /\ split' = split
        /\ path' = path /\ params' = params /\ inParams' = inParams /\ inValue' = inValue
    BY DEF query
  <1>2. /\ Separators' = Separators /\ Start' = Start /\ Cuts' = Cuts /\ Fields' = Fields
        /\ OneSeparator' = OneSeparator /\ Kept' = Kept
        /\ \A f : NameOf(f)' = NameOf(f) /\ ValueOf(f)' = ValueOf(f)
    BY <1>1, TargetFixed
  <1>3. Behind' = Behind /\ Done' = Done
    BY <1>1, <1>2 DEF Behind, Done
  <1>4. \A f : Latest(f)' = Latest(f)
    BY <1>2, <1>3 DEF Latest
  <1>5. \A s : ReadsFrom(s)' = ReadsFrom(s) /\ FieldRead(s)' = FieldRead(s)
    BY <1>1, <1>2 DEF ReadsFrom, FieldRead
  <1>6. (split' => c' = Len(target')) /\ NameIsPiece' /\ Fresh'
    BY <1>1, <1>2 DEF SplitInv, NameIsPiece, Fresh
  <1>7. PathIsBefore'
    BY <1>1, <1>2, <1>3 DEF SplitInv, PathIsBefore
  <1>8. Reading'
    BY <1>2, <1>3, <1>5 DEF SplitInv, Reading
  <1>9. Ended'
    BY <1>1, <1>2, <1>3, <1>4 DEF SplitInv, Ended
  <1>10. AllEnded'
    BY <1>1, <1>2, <1>3 DEF SplitInv, AllEnded
  <1> QED
    BY <1>6, <1>7, <1>8, <1>9, <1>10 DEF SplitInv

RequestInv == TypeOK /\ ParserInv /\ SplitInv

LEMMA InitRequestInv == Init => RequestInv
  <1> SUFFICES ASSUME Init PROVE RequestInv
    OBVIOUS
  <1>1. /\ body \in Seq(Byte) /\ sent \in Seq(Part) /\ target \in Seq(Characters)
        /\ multipart \in BOOLEAN
    BY RequestAssumption, MultipartAssumption DEF Init
  <1>2. /\ i = 0 /\ mark = 0 /\ first = 0 /\ state = "start" /\ index = 0
        /\ look = [k \in 0 .. Len(Boundary) + 1 |-> "unset"]
        /\ part = <<>> /\ files = <<>> /\ returned = -1
        /\ c = 0 /\ name = <<>> /\ value = <<>> /\ inParams = FALSE /\ inValue = FALSE
        /\ path = <<>> /\ params = <<>> /\ split = FALSE
    BY DEF Init
  <1>3. Len(body) \in Nat /\ Len(target) \in Nat /\ Len(Boundary) \in Nat
    BY <1>1, MultipartAssumption
  <1>4. ParserTypeOK
    <2>1. look \in [0 .. Len(Boundary) + 1 -> Byte \cup {"unset"}]
      BY <1>2
    <2>2. part \in Seq(Byte) /\ files \in Seq(Seq(Byte))
      BY <1>2
    <2>3. state \in States /\ state # "part_data_boundary"
      BY <1>2 DEF States
    <2>4. i \in 0..Len(body) /\ mark \in 0..i /\ first \in 0..i /\ index \in 0 .. Len(Boundary) + 1
          /\ returned \in -1 .. Len(body)
      BY <1>2, <1>3
    <2> QED
      BY <1>1, <2>1, <2>2, <2>3, <2>4 DEF ParserTypeOK
  <1>5. Matched /\ Held
    BY <1>2 DEF Matched, Held, InPart
  <1>6. TypeOK
    <2>1. <<>> \in Pieces(target)
      BY <1>1, NothingIsPiece
    <2>2. DOMAIN params = {} /\ params \in [DOMAIN params -> Seq(Characters)]
          /\ value \in Seq(Characters)
      BY <1>2
    <2> QED
      BY <1>1, <1>2, <1>3, <1>4, <2>1, <2>2 DEF TypeOK
  <1>7. NameIsPiece /\ Fresh
    <2>1. SubSeq(target, 1, 0) = <<>> /\ 1 \in 1 .. 0 + 1
      BY <1>1
    <2> QED
      BY <1>2, <2>1 DEF NameIsPiece, Fresh
  <1>8. ~Behind
    <2>1. OneSeparator => Start \in 1..Len(target)
      BY <1>1, OnlySeparator
    <2> QED
      BY <1>2, <1>3, <2>1 DEF Behind
  <1> QED
    BY <1>2, <1>4, <1>5, <1>6, <1>7, <1>8
       DEF RequestInv, ParserInv, SplitInv, PathIsBefore, Reading, Ended, AllEnded

LEMMA InductiveRequestInv == RequestInv /\ [Next]_vars => RequestInv'
  <1> SUFFICES ASSUME RequestInv, [Next]_vars PROVE RequestInv'
    OBVIOUS
  <1>1. TypeOK /\ ParserInv /\ SplitInv
    BY DEF RequestInv
  <1>2. ASSUME parser' = parser PROVE Matched' /\ Held'
    <2>1. /\ body' = body /\ i' = i /\ mark' = mark /\ state' = state /\ index' = index
          /\ look' = look /\ part' = part /\ first' = first
      BY <1>2 DEF parser
    <2> QED
      BY <1>1, <2>1 DEF ParserInv, Matched, Held, Piece, Lookbehind, InPart
  <1>3. ASSUME UNCHANGED query, ParserTypeOK' PROVE TypeOK'
    BY <1>1, <1>3 DEF TypeOK, query
  <1>4. CASE SplitTarget
    <2>1. parser' = parser
      BY <1>1, <1>4, Rounds
    <2>2. TypeOK' /\ NameIsPiece'
      BY <1>1, <1>4, QueryStep
    <2>3. Fresh' /\ PathIsBefore' /\ Reading' /\ Ended' /\ AllEnded'
      BY <1>1, <1>4, FreshStep, PathStep, ReadingStep, EndedStep, AllEndedStep
    <2>4. split' => c' = Len(target')
      BY <1>1, <1>4, Rounds
    <2>5. ParserTypeOK'
      BY <2>2 DEF TypeOK
    <2> QED
      BY <1>2, <2>1, <2>2, <2>3, <2>4, <2>5 DEF RequestInv, ParserInv, SplitInv
  <1>5. CASE ParseBody
    <2>1. ParserNext /\ UNCHANGED query
      BY <1>5 DEF ParseBody
    <2>2. ParserTypeOK' /\ Matched' /\ Held'
      BY <1>1, <2>1, TypeStep, MatchedStep, HeldStep
    <2>3. SplitInv'
      BY <1>1, <2>1, QueryFixed
    <2> QED
      BY <1>3, <2>1, <2>2, <2>3 DEF RequestInv, ParserInv
  <1>6. CASE UNCHANGED vars
    <2>1. UNCHANGED query /\ parser' = parser
      BY <1>6 DEF vars
    <2>2. ParserTypeOK'
      BY <1>1, <2>1 DEF ParserInv, ParserTypeOK, parser
    <2>3. SplitInv'
      BY <1>1, <2>1, QueryFixed
    <2> QED
      BY <1>2, <1>3, <2>1, <2>2, <2>3 DEF RequestInv, ParserInv
  <1> QED
    BY <1>4, <1>5, <1>6 DEF Next

LEMMA RequestInvariant == Spec => []RequestInv
  BY InitRequestInv, InductiveRequestInv, PTL DEF Spec

\* The constructor of http_request keeps its variables typed: multipart_parser_execute
\* never looks past the body or the lookbehind buffer, never emits a piece of
\* negative length, and path and names are pieces of the target.
THEOREM RequestIsTyped == Spec => []TypeOK
  <1>1. RequestInv => TypeOK
    BY DEF RequestInv
  <1> QED
    BY <1>1, RequestInvariant, PTL

\* multipart_parser_execute with http_request's callbacks neither loses nor
\* repeats a byte of a part, whatever looks like a boundary in it.
THEOREM NoByteOfAPartIsLost == Spec => []PartExact
  <1>1. RequestInv => PartExact
    BY DEF RequestInv, ParserInv, Held, PartExact, Pending
  <1> QED
    BY <1>1, RequestInvariant, PTL

\* The constructor splits a target with at most one separator into the path and
\* the parameters that the query string stands for.
THEOREM TargetIsSplitExactly == Spec => []TargetExact
  <1>1. ASSUME RequestInv, split PROVE Separators = {} => path = target /\ params = <<>>
    <2>1. Fresh
      BY <1>1 DEF RequestInv, SplitInv
    <2> QED
      BY <1>1, <2>1 DEF Fresh
  <1>2. ASSUME RequestInv, split, Cardinality(Separators) = 1
        PROVE  /\ path = SubSeq(target, 1, Start - 1)
               /\ DOMAIN params = {NameOf(f) : f \in Kept}
               /\ \A f \in Kept : params[NameOf(f)] = ValueOf(f)
    <2>1. target \in Seq(Characters) /\ c = Len(target) /\ OneSeparator
      BY <1>2 DEF RequestInv, TypeOK, SplitInv, OneSeparator
    <2>2. Start \in 1..Len(target) /\ Len(target) \in Nat
      BY <2>1, OnlySeparator
    <2>3. Behind
      BY <2>1, <2>2 DEF Behind
    <2> QED
      BY <1>2, <2>3 DEF RequestInv, SplitInv, PathIsBefore, AllEnded
  <1>3. RequestInv => TargetExact
    BY <1>1, <1>2 DEF TargetExact
  <1> QED
    BY <1>3, RequestInvariant, PTL

-----------------------------------------------------------------------------
(* The files.  What a client makes of parts is a boundary, and for each part *)
(* a line end, the head, a line end, the data, a line end and a boundary;    *)
(* Layout says which byte is where.                                          *)

\* Encoded[n], of Encoded[n - 1].
With(s, p) == s \o <<CR, LF>> \o p.head \o <<CR, LF>> \o p.data \o <<CR, LF>> \o Boundary

Leads(s, t) == Len(s) <= Len(t) /\ \A k \in 1..Len(s) : t[k] = s[k]

LEMMA LineEndType == <<CR, LF>> \in Seq(Byte) /\ Len(<<CR, LF>>) = 2
                     /\ <<CR, LF>>[1] = CR /\ <<CR, LF>>[2] = LF
  <1>1. CR \in Byte /\ LF \in Byte
    BY MultipartAssumption
  <1> QED
    BY <1>1

LEMMA Follows ==
    ASSUME NEW s \in Seq(Byte), NEW t \in Seq(Byte)
    PROVE  /\ s \o t \in Seq(Byte) /\ Len(s \o t) = Len(s) + Len(t)
           /\ Len(s) \in Nat /\ Len(t) \in Nat
           /\ \A k \in 1..Len(s) : (s \o t)[k] = s[k]
           /\ \A k \in 1..Len(t) : (s \o t)[Len(s) + k] = t[k]
  OBVIOUS

LEMMA LineEndFollows ==
    ASSUME NEW s \in Seq(Byte)
    PROVE  /\ s \o <<CR, LF>> \in Seq(Byte) /\ Len(s \o <<CR, LF>>) = Len(s) + 2 /\ Len(s) \in Nat
           /\ \A k \in 1..Len(s) : (s \o <<CR, LF>>)[k] = s[k]
           /\ (s \o <<CR, LF>>)[Len(s) + 1] = CR /\ (s \o <<CR, LF>>)[Len(s) + 2] = LF
  <1> DEFINE t == <<CR, LF>>
  <1>1. t \in Seq(Byte) /\ Len(t) = 2 /\ t[1] = CR /\ t[2] = LF
    BY LineEndType
  <1> HIDE DEF t
  <1>2. /\ s \o t \in Seq(Byte) /\ Len(s \o t) = Len(s) + Len(t) /\ Len(s) \in Nat
        /\ \A k \in 1..Len(s) : (s \o t)[k] = s[k]
        /\ \A k \in 1..Len(t) : (s \o t)[Len(s) + k] = t[k]
    BY <1>1, Follows
  <1>3. (s \o t)[Len(s) + 1] = CR /\ (s \o t)[Len(s) + 2] = LF
    <2>1. 1 \in 1..Len(t) /\ 2 \in 1..Len(t)
      BY <1>1
    <2> QED
      BY <1>1, <1>2, <2>1
  <1> QED
    BY <1>1, <1>2, <1>3 DEF t

LEMMA LeadsOn ==
    ASSUME NEW s, NEW t, NEW u, Len(s) \in Nat, Len(t) \in Nat, Len(u) \in Nat, Leads(s, t), Leads(t, u)
    PROVE  Leads(s, u)
  <1>1. \A k \in 1..Len(s) : k \in 1..Len(t)
    BY DEF Leads
  <1> QED
    BY <1>1 DEF Leads

LEMMA LeadsFirst ==
    ASSUME NEW s \in Seq(Byte), NEW t \in Seq(Byte)
    PROVE  Leads(s, s \o t)
  <1>1. Len(s) <= Len(s \o t)
    BY Follows
  <1> QED
    BY <1>1, Follows DEF Leads

\* Where a part is in what With makes of it.
Laid(w, a, p) ==
    LET h == a + 2
        d == h + Len(p.head) + 2
        e == d + Len(p.data)
    IN  /\ a + 6 + Len(p.head) + Len(p.data) + Len(Boundary) <= Len(w)
        /\ w[a + 1] = CR /\ w[a + 2] = LF
        /\ \A k \in 1..Len(p.head) : w[h + k] = p.head[k]
        /\ w[h + Len(p.head) + 1] = CR /\ w[h + Len(p.head) + 2] = LF
        /\ \A k \in 1..Len(p.data) : w[d + k] = p.data[k]
        /\ w[e + 1] = CR /\ w[e + 2] = LF
        /\ \A k \in 1..Len(Boundary) : w[e + 2 + k] = Boundary[k]

LEMMA LaidOut ==
    ASSUME NEW s \in Seq(Byte), NEW p \in Part
    PROVE  /\ With(s, p) \in Seq(Byte)
           /\ Len(With(s, p)) = Len(s) + 6 + Len(p.head) + Len(p.data) + Len(Boundary)
           /\ Leads(s, With(s, p)) /\ Laid(With(s, p), Len(s), p)
  <1> DEFINE h == p.head
             d == p.data
             s1 == s \o <<CR, LF>>
             s2 == s1 \o h
             s3 == s2 \o <<CR, LF>>
             s4 == s3 \o d
             s5 == s4 \o <<CR, LF>>
             w == s5 \o Boundary
  <1>0. h \in Seq(Byte) /\ d \in Seq(Byte) /\ Boundary \in Seq(Byte)
    BY MultipartAssumption DEF Part
  <1>1. With(s, p) = w
    BY DEF With
  <1> HIDE DEF h, d
  <1>2. /\ s1 \in Seq(Byte) /\ Len(s1) = Len(s) + 2 /\ Len(s) \in Nat
        /\ \A k \in 1..Len(s) : s1[k] = s[k]
        /\ s1[Len(s) + 1] = CR /\ s1[Len(s) + 2] = LF
    BY LineEndFollows
  <1> HIDE DEF s1
  <1>3. /\ s2 \in Seq(Byte) /\ Len(s2) = Len(s1) + Len(h) /\ Len(h) \in Nat
        /\ \A k \in 1..Len(s1) : s2[k] = s1[k]
        /\ \A k \in 1..Len(h) : s2[Len(s1) + k] = h[k]
    BY <1>0, <1>2, Follows
  <1> HIDE DEF s2
  <1>4. /\ s3 \in Seq(Byte) /\ Len(s3) = Len(s2) + 2
        /\ \A k \in 1..Len(s2) : s3[k] = s2[k]
        /\ s3[Len(s2) + 1] = CR /\ s3[Len(s2) + 2] = LF
    BY <1>3, LineEndFollows
  <1> HIDE DEF s3
  <1>5. /\ s4 \in Seq(Byte) /\ Len(s4) = Len(s3) + Len(d) /\ Len(d) \in Nat
        /\ \A k \in 1..Len(s3) : s4[k] = s3[k]
        /\ \A k \in 1..Len(d) : s4[Len(s3) + k] = d[k]
    BY <1>0, <1>4, Follows
  <1> HIDE DEF s4
  <1>6. /\ s5 \in Seq(Byte) /\ Len(s5) = Len(s4) + 2
        /\ \A k \in 1..Len(s4) : s5[k] = s4[k]
        /\ s5[Len(s4) + 1] = CR /\ s5[Len(s4) + 2] = LF
    BY <1>5, LineEndFollows
  <1> HIDE DEF s5
  <1>7. /\ w \in Seq(Byte) /\ Len(w) = Len(s5) + Len(Boundary) /\ Len(Boundary) \in Nat
        /\ \A k \in 1..Len(s5) : w[k] = s5[k]
        /\ \A k \in 1..Len(Boundary) : w[Len(s5) + k] = Boundary[k]
    BY <1>0, <1>6, Follows
  <1> HIDE DEF w
  <1> DEFINE a == Len(s)
             m == Len(h)
             n == Len(d)
             l == Len(Boundary)
  <1>8. /\ a \in Nat /\ m \in Nat /\ n \in Nat /\ l \in Nat
        /\ Len(s1) = a + 2 /\ Len(s2) = a + 2 + m /\ Len(s3) = a + 2 + m + 2
        /\ Len(s4) = a + 2 + m + 2 + n /\ Len(s5) = a + 2 + m + 2 + n + 2
        /\ Len(w) = a + 6 + m + n + l
    BY <1>2, <1>3, <1>4, <1>5, <1>6, <1>7
  <1> HIDE DEF a, m, n, l
  \* What a beginning holds, the whole holds.
  <1>9. \A k \in 1..Len(s5) : w[k] = s5[k]
    BY <1>7
  <1>10. \A k \in 1..Len(s4) : w[k] = s4[k]
    BY <1>6, <1>8, <1>9
  <1>11. \A k \in 1..Len(s3) : w[k] = s3[k]
    BY <1>5, <1>8, <1>10
  <1>12. \A k \in 1..Len(s2) : w[k] = s2[k]
    BY <1>4, <1>8, <1>11
  <1>13. \A k \in 1..Len(s1) : w[k] = s1[k]
    BY <1>3, <1>8, <1>12
  <1>14. \A k \in 1..a : w[k] = s[k]
    BY <1>2, <1>8, <1>13 DEF a
  <1>15. w[a + 1] = CR /\ w[a + 2] = LF
    <2>1. a + 1 \in 1..Len(s1) /\ a + 2 \in 1..Len(s1)
      BY <1>8
    <2> QED
      BY <1>2, <1>13, <2>1 DEF a
  <1>16. ASSUME NEW k \in 1..m PROVE w[a + 2 + k] = h[k]
    <2>1. a + 2 + k \in 1..Len(s2) /\ Len(s1) + k = a + 2 + k
      BY <1>8
    <2> QED
      BY <1>3, <1>12, <2>1 DEF m
  <1>17. w[a + 2 + m + 1] = CR /\ w[a + 2 + m + 2] = LF
    <2>1. a + 2 + m + 1 \in 1..Len(s3) /\ a + 2 + m + 2 \in 1..Len(s3)
          /\ Len(s2) + 1 = a + 2 + m + 1 /\ Len(s2) + 2 = a + 2 + m + 2
      BY <1>8
    <2> QED
      BY <1>4, <1>11, <2>1
  <1>18. ASSUME NEW k \in 1..n PROVE w[a + 2 + m + 2 + k] = d[k]
    <2>1. a + 2 + m + 2 + k \in 1..Len(s4) /\ Len(s3) + k = a + 2 + m + 2 + k
      BY <1>8
    <2> QED
      BY <1>5, <1>10, <2>1 DEF n
  <1>19. w[a + 2 + m + 2 + n + 1] = CR /\ w[a + 2 + m + 2 + n + 2] = LF
    <2>1. a + 2 + m + 2 + n + 1 \in 1..Len(s5) /\ a + 2 + m + 2 + n + 2 \in 1..Len(s5)
          /\ Len(s4) + 1 = a + 2 + m + 2 + n + 1 /\ Len(s4) + 2 = a + 2 + m + 2 + n + 2
      BY <1>8
    <2> QED
      BY <1>6, <1>9, <2>1
  <1>20. ASSUME NEW k \in 1..l PROVE w[a + 2 + m + 2 + n + 2 + k] = Boundary[k]
    <2>1. Len(s5) + k = a + 2 + m + 2 + n + 2 + k
      BY <1>8
    <2> QED
      BY <1>7, <2>1 DEF l
  <1>21. Laid(w, a, p)
    <2>1. m = Len(p.head) /\ n = Len(p.data) /\ l = Len(Boundary)
      BY DEF h, d, m, n, l
    <2>2. a + 6 + m + n + l <= Len(w)
      BY <1>8
    <2>3. \A k \in 1..m : w[a + 2 + k] = p.head[k]
      BY <1>16 DEF h
    <2>4. \A k \in 1..n : w[a + 2 + m + 2 + k] = p.data[k]
      BY <1>18 DEF d
    <2>5. \A k \in 1..l : w[a + 2 + m + 2 + n + 2 + k] = Boundary[k]
      BY <1>20
    <2> HIDE DEF m, n, l
    <2> QED
      BY ONLY <1>15, <1>17, <1>19, <2>1, <2>2, <2>3, <2>4, <2>5, Zenon DEF Laid
  <1>22. Leads(s, w)
    <2>1. a <= Len(w)
      BY <1>8
    <2> QED
      BY ONLY <1>14, <2>1 DEF Leads, a
  <1> QED
    BY <1>1, <1>7, <1>8, <1>21, <1>22 DEF a, m, n, l, h, d

\* Encoded, unfolded.
LEMMA EncodedEquation ==
    ASSUME sent \in Seq(Part)
    PROVE  /\ Encoded[0] = Boundary
           /\ \A n \in 1..Len(sent) : Encoded[n] = With(Encoded[n - 1], sent[n])
           /\ \A n \in 0..Len(sent) : Encoded[n] \in Seq(Byte)
  <1> DEFINE S == Seq(Byte)
             step == [n \in Nat |-> [s \in S |-> IF n + 1 <= Len(sent) THEN With(s, sent[n + 1]) ELSE s]]
             Unfolds(g) == g = [n \in 0..Len(sent) |-> IF n = 0 THEN Boundary ELSE With(g[n - 1], sent[n])]
  <1>0. Len(sent) \in Nat /\ Boundary \in S /\ \A n \in 1..Len(sent) : sent[n] \in Part
    BY MultipartAssumption
  <1>1. step \in [Nat -> [S -> S]]
    <2>1. ASSUME NEW n \in Nat, NEW s \in S
          PROVE  (IF n + 1 <= Len(sent) THEN With(s, sent[n + 1]) ELSE s) \in S
      <3>1. CASE n + 1 <= Len(sent)
        <4>1. n + 1 \in 1..Len(sent)
          BY <1>0, <3>1
        <4>2. With(s, sent[n + 1]) \in S
          BY <1>0, <4>1, LaidOut
        <4> QED
          BY <3>1, <4>2
      <3> QED
        BY <3>1
    <2> QED
      BY <2>1
  <1>2. PICK f : Recurses(f, S, Boundary, step)
    BY <1>0, <1>1, Recursion
  <1>3. f \in [Nat -> S] /\ f[0] = Boundary /\ \A n \in Nat : f[n + 1] = step[n][f[n]]
    BY <1>2 DEF Recurses
  <1> DEFINE g == [n \in 0..Len(sent) |-> f[n]]
  <1>4. ASSUME NEW n \in 1..Len(sent) PROVE g[n] = With(g[n - 1], sent[n])
    <2>1. n - 1 \in Nat /\ (n - 1) + 1 = n /\ n \in 0..Len(sent) /\ n - 1 \in 0..Len(sent) /\ n <= Len(sent)
      BY <1>0
    <2>2. f[n] = step[n - 1][f[n - 1]] /\ f[n - 1] \in S
      BY <1>3, <2>1
    <2>3. step[n - 1][f[n - 1]] = With(f[n - 1], sent[n])
      BY <2>1, <2>2
    <2> QED
      BY <2>1, <2>2, <2>3
  <1>5. g[0] = Boundary
    <2>1. 0 \in 0..Len(sent)
      BY <1>0
    <2>2. g[0] = f[0]
      BY <2>1
    <2> QED
      BY <1>3, <2>2
  <1>6. Unfolds(g)
    <2> DEFINE u == [n \in 0..Len(sent) |-> IF n = 0 THEN Boundary ELSE With(g[n - 1], sent[n])]
    <2>1. ASSUME NEW n \in 0..Len(sent) PROVE g[n] = u[n]
      <3>1. CASE n = 0
        BY <1>0, <1>5, <3>1
      <3>2. CASE n # 0
        <4>1. n \in 1..Len(sent)
          BY <1>0, <3>2
        <4>2. g[n] = With(g[n - 1], sent[n])
          BY <1>4, <4>1
        <4> HIDE DEF g
        <4> QED
          BY <3>2, <4>2
      <3> QED
        BY <3>1, <3>2
    <2>2. DOMAIN g = 0..Len(sent) /\ DOMAIN u = 0..Len(sent) /\ g = [n \in DOMAIN g |-> g[n]] /\ u = [n \in DOMAIN u |-> u[n]]
      OBVIOUS
    <2> HIDE DEF g, u
    <2>3. g = u
      BY <2>1, <2>2
    <2> QED
      BY <2>3 DEF u
  <1> HIDE DEF g
  <1>7. Encoded = CHOOSE e : Unfolds(e)
    BY DEF Encoded, With
  <1> HIDE DEF Unfolds
  <1>8. Unfolds(Encoded)
    BY <1>6, <1>7
  <1>9. Encoded = [n \in 0..Len(sent) |-> IF n = 0 THEN Boundary ELSE With(Encoded[n - 1], sent[n])]
    BY <1>8 DEF Unfolds
  <1> DEFINE e == Encoded
  <1>10. e = [n \in 0..Len(sent) |-> IF n = 0 THEN Boundary ELSE With(e[n - 1], sent[n])]
    BY <1>9
  <1> HIDE DEF e
  <1>11. e[0] = Boundary /\ \A n \in 1..Len(sent) : e[n] = With(e[n - 1], sent[n])
    <2>1. 0 \in 0..Len(sent) /\ \A n \in 1..Len(sent) : n \in 0..Len(sent) /\ n # 0
      BY <1>0
    <2> QED
      BY <1>10, <2>1
  <1>12. \A n \in 0..Len(sent) : e[n] \in S
    <2> DEFINE T == {n \in Nat : n <= Len(sent) => e[n] \in S}
    <2>1. 0 \in T
      BY <1>0, <1>11
    <2>2. ASSUME NEW n \in Nat, n \in T PROVE n + 1 \in T
      <3>1. CASE n + 1 <= Len(sent)
        <4>1. n + 1 \in 1..Len(sent) /\ (n + 1) - 1 = n /\ n <= Len(sent)
          BY <1>0, <3>1
        <4>2. e[n] \in S /\ sent[n + 1] \in Part
          BY <1>0, <2>2, <4>1
        <4>3. e[n + 1] = With(e[n], sent[n + 1])
          BY <1>11, <4>1
        <4>4. With(e[n], sent[n + 1]) \in S
          BY <4>2, LaidOut
        <4> QED
          BY <4>3, <4>4
      <3> QED
        BY <3>1
    <2> HIDE DEF T
    <2>3. Nat \subseteq T
      BY <2>1, <2>2, Induction
    <2> QED
      BY <1>0, <2>3 DEF T
  <1> QED
    BY <1>11, <1>12 DEF e

\* What a sequence holds of a part, one that begins with it holds as well.
LEMMA LaidLeads ==
    ASSUME NEW s, NEW t, Len(s) \in Nat, Len(t) \in Nat, Leads(s, t),
           NEW a \in Nat, NEW p \in Part, Laid(s, a, p)
    PROVE  Laid(t, a, p)
  <1> DEFINE m == Len(p.head)
             n == Len(p.data)
             l == Len(Boundary)
  <1>0. m \in Nat /\ n \in Nat /\ l \in Nat
    BY MultipartAssumption DEF Part
  <1>1. /\ a + 6 + m + n + l <= Len(s)
        /\ s[a + 1] = CR /\ s[a + 2] = LF
        /\ \A k \in 1..m : s[a + 2 + k] = p.head[k]
        /\ s[a + 2 + m + 1] = CR /\ s[a + 2 + m + 2] = LF
        /\ \A k \in 1..n : s[a + 2 + m + 2 + k] = p.data[k]
        /\ s[a + 2 + m + 2 + n + 1] = CR /\ s[a + 2 + m + 2 + n + 2] = LF
        /\ \A k \in 1..l : s[a + 2 + m + 2 + n + 2 + k] = Boundary[k]
    BY Zenon DEF Laid
  <1> HIDE DEF m, n, l
  <1>2. Len(s) <= Len(t) /\ \A q \in 1 .. a + 6 + m + n + l : t[q] = s[q]
    BY <1>0, <1>1 DEF Leads
  <1>3. a + 6 + m + n + l <= Len(t)
    BY <1>0, <1>1, <1>2
  <1>4. /\ t[a + 1] = CR /\ t[a + 2] = LF
        /\ t[a + 2 + m + 1] = CR /\ t[a + 2 + m + 2] = LF
        /\ t[a + 2 + m + 2 + n + 1] = CR /\ t[a + 2 + m + 2 + n + 2] = LF
    <2> DEFINE r == 1 .. a + 6 + m + n + l
    <2>1. /\ a + 1 \in r /\ a + 2 \in r /\ a + 2 + m + 1 \in r /\ a + 2 + m + 2 \in r
          /\ a + 2 + m + 2 + n + 1 \in r /\ a + 2 + m + 2 + n + 2 \in r
      BY ONLY <1>0, a \in Nat
    <2>2. \A q \in r : t[q] = s[q]
      BY <1>2
    <2> HIDE DEF r
    <2> QED
      BY ONLY <1>1, <2>1, <2>2
  <1>5. ASSUME NEW k \in 1..m PROVE t[a + 2 + k] = p.head[k]
    <2>1. a + 2 + k \in 1 .. a + 6 + m + n + l
      BY <1>0
    <2> QED
      BY <1>1, <1>2, <2>1
  <1>6. ASSUME NEW k \in 1..n PROVE t[a + 2 + m + 2 + k] = p.data[k]
    <2>1. a + 2 + m + 2 + k \in 1 .. a + 6 + m + n + l
      BY <1>0
    <2> QED
      BY <1>1, <1>2, <2>1
  <1>7. ASSUME NEW k \in 1..l PROVE t[a + 2 + m + 2 + n + 2 + k] = Boundary[k]
    <2>1. a + 2 + m + 2 + n + 2 + k \in 1 .. a + 6 + m + n + l
      BY <1>0
    <2> QED
      BY <1>1, <1>2, <2>1
  <1> QED
    BY ONLY <1>3, <1>4, <1>5, <1>6, <1>7, Zenon DEF Laid, m, n, l

\* Where Encode has the boundaries, the line ends, the parts and the hyphens.
BodyEnd(k) == Len(Encoded[k])

LEMMA Layout ==
    ASSUME sent \in Seq(Part)
    PROVE  /\ Encode \in Seq(Byte) /\ \A k \in 0..Len(sent) : BodyEnd(k) \in Nat
           /\ BodyEnd(0) = Len(Boundary) /\ \A k \in 1..Len(Boundary) : Encode[k] = Boundary[k]
           /\ \A k \in 1..Len(sent) : Laid(Encode, BodyEnd(k - 1), sent[k])
           /\ \A k \in 1..Len(sent) :
                BodyEnd(k) = BodyEnd(k - 1) + 6 + Len(sent[k].head) + Len(sent[k].data) + Len(Boundary)
           /\ Len(Encode) = BodyEnd(Len(sent)) + 2
           /\ Encode[BodyEnd(Len(sent)) + 1] = "-" /\ Encode[BodyEnd(Len(sent)) + 2] = "-"
  <1> DEFINE n == Len(sent)
             z == <<"-", "-">>
             w == Encoded[n] \o z
  <1>0. n \in Nat /\ Boundary \in Seq(Byte) /\ \A k \in 1..n : sent[k] \in Part /\ k \in 0..n /\ k - 1 \in 0..n
    BY MultipartAssumption
  <1>1. /\ Encoded[0] = Boundary
        /\ \A k \in 1..n : Encoded[k] = With(Encoded[k - 1], sent[k])
        /\ \A k \in 0..n : Encoded[k] \in Seq(Byte)
    BY EncodedEquation
  <1>2. \A k \in 0..n : Encoded[k] \in Seq(Byte) /\ BodyEnd(k) \in Nat /\ BodyEnd(k) = Len(Encoded[k])
    BY <1>1 DEF BodyEnd
  <1>3. z \in Seq(Byte) /\ Len(z) = 2 /\ z[1] = "-" /\ z[2] = "-"
    <2>1. "-" \in Byte
      BY MultipartAssumption
    <2> QED
      BY <2>1
  <1> HIDE DEF z
  <1>4. n \in 0..n /\ 0 \in 0..n
    BY <1>0
  <1>5. /\ w \in Seq(Byte) /\ Len(w) = BodyEnd(n) + 2
        /\ \A k \in 1..BodyEnd(n) : w[k] = Encoded[n][k]
        /\ \A k \in 1..2 : w[BodyEnd(n) + k] = z[k]
    <2> DEFINE x == Encoded[n]
    <2>1. x \in Seq(Byte) /\ Len(x) = BodyEnd(n)
      BY <1>2, <1>4
    <2> HIDE DEF x
    <2>2. /\ x \o z \in Seq(Byte) /\ Len(x \o z) = Len(x) + Len(z)
          /\ \A k \in 1..Len(x) : (x \o z)[k] = x[k]
          /\ \A k \in 1..Len(z) : (x \o z)[Len(x) + k] = z[k]
      BY <1>3, <2>1, Follows
    <2>3. x \o z = w
      BY DEF x
    <2> HIDE DEF w
    <2>4. /\ w \in Seq(Byte) /\ Len(w) = BodyEnd(n) + 2
          /\ \A k \in 1..BodyEnd(n) : w[k] = x[k]
          /\ \A k \in 1..2 : w[BodyEnd(n) + k] = z[k]
      BY ONLY <1>3, <2>1, <2>2, <2>3
    <2> QED
      BY <2>4 DEF x
  <1> HIDE DEF w
  <1>6. ASSUME NEW k \in 1..n
        PROVE  /\ BodyEnd(k) = BodyEnd(k - 1) + 6 + Len(sent[k].head) + Len(sent[k].data) + Len(Boundary)
               /\ Leads(Encoded[k - 1], Encoded[k]) /\ Laid(Encoded[k], BodyEnd(k - 1), sent[k])
    <2>1. sent[k] \in Part /\ Encoded[k - 1] \in Seq(Byte) /\ Encoded[k] = With(Encoded[k - 1], sent[k])
      BY <1>0, <1>1
    <2> QED
      BY <2>1, LaidOut DEF BodyEnd
  <1>7. \A k \in 0..n : Leads(Encoded[k], w)
    <2> DEFINE T == {j \in Nat : j <= n => Leads(Encoded[n - j], w)}
    <2>1. 0 \in T
      <3>1. Leads(Encoded[n], w)
        BY <1>2, <1>3, <1>4, LeadsFirst DEF w
      <3>2. n - 0 = n
        BY <1>0
      <3> QED
        BY <3>1, <3>2
    <2>2. ASSUME NEW j \in Nat, j \in T PROVE j + 1 \in T
      <3>1. CASE j + 1 <= n
        <4>1. n - j \in 1..n /\ n - (j + 1) \in 0..n /\ n - (j + 1) = (n - j) - 1 /\ j <= n /\ n - j \in 0..n
          BY <1>0, <3>1
        <4>2. Leads(Encoded[n - j], w)
          BY <2>2, <4>1
        <4>3. Leads(Encoded[n - (j + 1)], Encoded[n - j])
          <5>1. Leads(Encoded[(n - j) - 1], Encoded[n - j])
            BY <1>6, <4>1
          <5> QED
            BY <4>1, <5>1
        <4>4. Len(Encoded[n - j]) \in Nat /\ Len(Encoded[n - (j + 1)]) \in Nat /\ Len(w) \in Nat
          <5>1. Len(w) \in Nat
            BY <1>5, LenProperties
          <5> QED
            BY <1>2, <4>1, <5>1
        <4>5. Leads(Encoded[n - (j + 1)], w)
          BY <4>2, <4>3, <4>4, LeadsOn
        <4> QED
          BY <4>5
      <3> QED
        BY <3>1
    <2> HIDE DEF T
    <2>3. Nat \subseteq T
      BY <2>1, <2>2, Induction
    <2>4. ASSUME NEW k \in 0..n PROVE Leads(Encoded[k], w)
      <3>1. n - k \in Nat /\ n - k <= n /\ n - (n - k) = k
        BY <1>0
      <3>2. n - k \in T
        BY <2>3, <3>1
      <3>3. Leads(Encoded[n - (n - k)], w)
        BY <3>1, <3>2 DEF T
      <3> QED
        BY <3>1, <3>3
    <2> QED
      BY <2>4
  <1>8. ASSUME NEW k \in 1..n PROVE Laid(w, BodyEnd(k - 1), sent[k])
    <2>1. Leads(Encoded[k], w) /\ Laid(Encoded[k], BodyEnd(k - 1), sent[k]) /\ sent[k] \in Part
          /\ BodyEnd(k - 1) \in Nat /\ Len(Encoded[k]) \in Nat /\ Len(w) \in Nat
      BY <1>0, <1>2, <1>5, <1>6, <1>7, SMTT(60)
    <2> QED
      BY <2>1, LaidLeads
  <1>9. \A k \in 1..Len(Boundary) : w[k] = Boundary[k]
    BY <1>1, <1>4, <1>7 DEF Leads
  <1>10. w[BodyEnd(n) + 1] = "-" /\ w[BodyEnd(n) + 2] = "-"
    <2>1. 1 \in 1..2 /\ 2 \in 1..2
      OBVIOUS
    <2> QED
      BY <1>3, <1>5, <2>1
  <1>11. Encode = w
    BY DEF Encode, w, z
  <1>12. BodyEnd(0) = Len(Boundary)
    BY <1>1 DEF BodyEnd
  <1> HIDE DEF n
  <1> QED
    BY ONLY <1>2, <1>5, <1>6, <1>8, <1>9, <1>10, <1>11, <1>12, Zenon DEF n

-----------------------------------------------------------------------------
(* Of a body made this way, the place of the parser, state by state: where   *)
(* the byte it looks at is in the part it reads, or between which parts.     *)

InHeaders == {"header_field_start", "header_field", "header_value_start", "header_value",
    "header_value_almost_done", "headers_almost_done"}
InData == {"part_data_start"} \cup InPart

\* Made by a client, the end may be missing.
Made == IsPrefixOf(body, Encode) /\ \A k \in 1..Len(sent) : Writable(sent[k])

Arrived(fs) == Len(fs) <= Len(sent) /\ \A k \in 1..Len(fs) : fs[k] = sent[k].data

\* o bytes of the head h have been read.
AtHead(st, h, o) ==
    /\ st = "header_field_start" => o = Len(h) \/ (o \in 0 .. Len(h) - 1 /\ LineBegins(h, o))
    /\ st = "header_field" => o >= 0 /\ NameAhead(h, o)
    /\ st \in {"header_value_start", "header_value"} => o >= 0 /\ o + 2 <= Len(h)
    /\ st = "header_value_almost_done" => o \in 1 .. Len(h) - 1 /\ h[o] = CR
    /\ st = "headers_almost_done" => o = Len(h) + 1

\* The m bytes of the data begin at d.  What looks like a boundary begins o bytes after that.
AtLookalike(o, ix, d, m, ii) ==
    /\ o >= 0 /\ o = ii - ix - 2 - d
    /\ o = m \/ ii <= d + m
    /\ body[d + o + 1] = CR /\ body[d + o + 2] = LF
    /\ \A k \in 1..ix : body[d + o + 2 + k] = Boundary[k]
AtData(st, ii, ix, ff, d, m) ==
    /\ st = "part_data_start" => ii = d
    /\ st \in InPart => ff = d
    /\ st = "part_data" => d <= ii /\ ii <= d + m
    /\ st = "part_data_almost_boundary" => ii \in d + 1 .. d + m + 1 /\ body[ii] = CR
    /\ st = "part_data_boundary" => AtLookalike(ii - ix - 2 - d, ix, d, m, ii)

\* nf parts have been read.
Between(st, ii, nf) ==
    /\ st = "part_data_almost_end" => nf >= 1 /\ ii = BodyEnd(nf)
    /\ st = "part_data_end" => nf < Len(sent) /\ ii = BodyEnd(nf) + 1
    /\ st = "part_data_final_hyphen" => nf = Len(sent) /\ ii = BodyEnd(nf) + 1
    /\ st = "end" => nf = Len(sent) /\ ii = BodyEnd(nf) + 2

Inside(st, ii, ix, ff, nf) ==
    LET p == sent[nf + 1]
        h == BodyEnd(nf) + 2
    IN  nf < Len(sent) /\ AtHead(st, p.head, ii - h)
        /\ AtData(st, ii, ix, ff, h + Len(p.head) + 2, Len(p.data))

Place(st, ii, ix, ff, fs) ==
    /\ Arrived(fs)
    /\ st \in {"start", "start_boundary"} => fs = <<>> /\ ii = ix
    /\ st \in InHeaders \cup InData => Inside(st, ii, ix, ff, Len(fs))
    /\ Between(st, ii, Len(fs))

PlaceInv ==
    Made => /\ Place(state, i, index, first, files)
            /\ sent # <<>> /\ returned # -1 => returned = Len(body) /\ i = Len(body)

\* The byte looked at is one of Encode's.
LEMMA NextByte ==
    ASSUME ParserTypeOK, Made
    PROVE  /\ Len(body) <= Len(Encode)
           /\ \A q \in 1..Len(body) : body[q] = Encode[q]
           /\ i < Len(body) => Char = Encode[i + 1]
  <1>1. body \in Seq(Byte) /\ i \in 0..Len(body) /\ Encode \in Seq(Byte)
    BY Layout DEF ParserTypeOK
  <1>2. Len(body) <= Len(Encode) /\ body = SubSeq(Encode, 1, Len(body))
    BY DEF Made, IsPrefixOf
  <1>3. \A q \in 1..Len(body) : SubSeq(Encode, 1, Len(body))[q] = Encode[q]
    BY <1>1, <1>2
  <1>4. \A q \in 1..Len(body) : body[q] = Encode[q]
    BY <1>2, <1>3
  <1> QED
    BY <1>1, <1>2, <1>4 DEF Char

\* Where the part is that is being read, and what is known of it.
LEMMA PartRead ==
    ASSUME ParserTypeOK, Made, NEW nf \in Nat, nf < Len(sent)
    PROVE  /\ sent[nf + 1] \in Part /\ Writable(sent[nf + 1]) /\ BodyEnd(nf) \in Nat
           /\ Laid(Encode, BodyEnd(nf), sent[nf + 1])
           /\ BodyEnd(nf + 1) = BodyEnd(nf) + 6 + Len(sent[nf + 1].head) + Len(sent[nf + 1].data)
                                + Len(Boundary)
  <1>1. sent \in Seq(Part)
    BY DEF ParserTypeOK
  <1>2. nf + 1 \in 1..Len(sent) /\ (nf + 1) - 1 = nf /\ nf \in 0..Len(sent)
    BY <1>1
  <1>3. sent[nf + 1] \in Part
    BY <1>1, <1>2
  <1>4. Writable(sent[nf + 1])
    BY <1>2 DEF Made
  <1>5. BodyEnd(nf) \in Nat
    BY <1>1, <1>2, Layout
  <1>6. /\ Laid(Encode, BodyEnd((nf + 1) - 1), sent[nf + 1])
        /\ BodyEnd(nf + 1) = BodyEnd((nf + 1) - 1) + 6 + Len(sent[nf + 1].head)
                             + Len(sent[nf + 1].data) + Len(Boundary)
    BY <1>1, <1>2, Layout
  <1> QED
    BY <1>2, <1>3, <1>4, <1>5, <1>6

\* In a head of header lines, every byte is one that the state accepts, and
\* the next state is again at its place; the line end behind the head ends it.
LEMMA FieldByte ==
    ASSUME NEW h \in Seq(Byte), HeaderLines(h), NEW o \in 0 .. Len(h), NEW b,
           b = IF o < Len(h) THEN h[o + 1] ELSE CR,
           \/ o = Len(h) \/ (o \in 0 .. Len(h) - 1 /\ LineBegins(h, o))
           \/ NameAhead(h, o)
    PROVE  \/ b = CR /\ o = Len(h)
           \/ b = ":" /\ o + 3 <= Len(h)
           \/ b \in Letters \cup {"-"} /\ NameAhead(h, o + 1)
  <1>0. Len(h) \in Nat
    OBVIOUS
  <1>1. CASE o = Len(h) /\ ~NameAhead(h, o)
    BY <1>0, <1>1
  <1>2. CASE NameAhead(h, o)
    <2>1. PICK m \in o + 1 .. Len(h) :
                 h[m] = ":" /\ \A k \in o + 1 .. m - 1 : h[k] \in Letters \cup {"-"}
      BY <1>2 DEF NameAhead
    <2>2. o < Len(h) /\ b = h[o + 1] /\ m \in Nat
      BY <1>0, <2>1
    <2>3. CASE m = o + 1
      <3>1. b = ":"
        BY <2>1, <2>2, <2>3
      <3>2. h # <<>>
        BY <1>0, <2>2
      <3>3. /\ Len(h) >= 2 /\ h[Len(h) - 1] = CR
            /\ \A k \in 1..Len(h) : h[k] = CR => k < Len(h) /\ h[k + 1] = LF
        BY <3>2 DEF HeaderLines
      <3>4. h[Len(h)] = LF
        <4>1. Len(h) - 1 \in 1..Len(h) /\ (Len(h) - 1) + 1 = Len(h)
          BY <1>0, <3>3
        <4> QED
          BY <3>3, <4>1
      <3>5. ":" # CR /\ ":" # LF
        BY DEF CR, LF
      <3>6. o + 1 # Len(h) /\ o + 1 # Len(h) - 1
        BY <2>2, <3>1, <3>3, <3>4, <3>5
      <3> QED
        BY <1>0, <2>2, <3>1, <3>6
    <2>4. CASE m # o + 1
      <3>1. o + 1 \in o + 1 .. m - 1 /\ m \in (o + 1) + 1 .. Len(h)
            /\ \A k \in (o + 1) + 1 .. m - 1 : k \in o + 1 .. m - 1
        BY <1>0, <2>1, <2>2, <2>4
      <3>2. b \in Letters \cup {"-"}
        BY <2>1, <2>2, <3>1
      <3>3. NameAhead(h, o + 1)
        BY <2>1, <3>1 DEF NameAhead
      <3> QED
        BY <3>2, <3>3
    <2> QED
      BY <2>3, <2>4
  <1>3. CASE o \in 0 .. Len(h) - 1 /\ LineBegins(h, o)
    <2>1. NameAhead(h, o)
      BY <1>3 DEF HeaderLines
    <2> QED
      BY <1>2, <2>1
  <1> QED
    BY <1>1, <1>2, <1>3

LEMMA ValueByte ==
    ASSUME NEW h \in Seq(Byte), HeaderLines(h), NEW o \in Nat, o + 2 <= Len(h)
    PROVE  IF h[o + 1] = CR THEN o + 1 \in 1 .. Len(h) - 1 ELSE o + 3 <= Len(h)
  <1>0. Len(h) \in Nat
    OBVIOUS
  <1>1. h[Len(h) - 1] = CR
    <2>1. h # <<>>
      BY <1>0
    <2> QED
      BY <2>1 DEF HeaderLines
  <1>2. ASSUME h[o + 1] # CR PROVE o + 3 <= Len(h)
    <2>1. o + 1 # Len(h) - 1
      BY <1>1, <1>2
    <2> QED
      BY <1>0, <2>1
  <1>3. o + 1 \in 1 .. Len(h) - 1
    BY <1>0
  <1> QED
    BY <1>2, <1>3

LEMMA LineByte ==
    ASSUME NEW h \in Seq(Byte), HeaderLines(h), NEW o \in 1 .. Len(h) - 1, h[o] = CR
    PROVE  h[o + 1] = LF /\ (o + 1 = Len(h) \/ (o + 1 \in 0 .. Len(h) - 1 /\ LineBegins(h, o + 1)))
  <1>1. Len(h) \in Nat /\ o \in 1..Len(h) /\ (o + 1) - 1 = o /\ o + 1 >= 2
    OBVIOUS
  <1>2. h[o + 1] = LF
    BY <1>1 DEF HeaderLines
  <1>3. LineBegins(h, o + 1)
    BY <1>1, <1>2 DEF LineBegins
  <1> QED
    BY <1>1, <1>2, <1>3

\* The bytes of a part in Encode, from where it begins.
LEMMA PartBytes ==
    ASSUME NEW a \in Nat, NEW p \in Part, Laid(Encode, a, p)
    PROVE  /\ \A o \in 0 .. Len(p.head) :
                Encode[a + 2 + o + 1] = IF o < Len(p.head) THEN p.head[o + 1] ELSE CR
           /\ Encode[a + 2 + Len(p.head) + 2] = LF
  <1> DEFINE m == Len(p.head)
  <1>0. m \in Nat
    BY DEF Part
  <1>1. /\ \A k \in 1..m : Encode[a + 2 + k] = p.head[k]
        /\ Encode[a + 2 + m + 1] = CR /\ Encode[a + 2 + m + 2] = LF
    BY Zenon DEF Laid
  <1> HIDE DEF m
  <1>2. ASSUME NEW o \in 0..m
        PROVE  Encode[a + 2 + o + 1] = IF o < m THEN p.head[o + 1] ELSE CR
    <2>1. CASE o < m
      <3>1. o + 1 \in 1..m /\ a + 2 + (o + 1) = a + 2 + o + 1
        BY <1>0, <2>1
      <3> QED
        BY <1>1, <2>1, <3>1
    <2>2. CASE o = m
      BY <1>0, <1>1, <2>2
    <2> QED
      BY <1>0, <2>1, <2>2
  <1> QED
    BY <1>1, <1>2 DEF m

LEMMA DataBytes ==
    ASSUME NEW a \in Nat, NEW p \in Part, Laid(Encode, a, p)
    PROVE  LET d == a + 2 + Len(p.head) + 2
               n == Len(p.data)
           IN  /\ \A o \in 0 .. n :
                    Encode[d + o + 1] = IF o < n THEN p.data[o + 1] ELSE CR
               /\ Encode[d + n + 2] = LF
               /\ \A k \in 1..Len(Boundary) : Encode[d + n + 2 + k] = Boundary[k]
  <1> DEFINE d == a + 2 + Len(p.head) + 2
             n == Len(p.data)
  <1>0. n \in Nat /\ d \in Nat
    BY DEF Part
  <1>1. /\ \A k \in 1..n : Encode[d + k] = p.data[k]
        /\ Encode[d + n + 1] = CR /\ Encode[d + n + 2] = LF
        /\ \A k \in 1..Len(Boundary) : Encode[d + n + 2 + k] = Boundary[k]
    BY Zenon DEF Laid
  <1> HIDE DEF d, n
  <1>2. ASSUME NEW o \in 0..n
        PROVE  Encode[d + o + 1] = IF o < n THEN p.data[o + 1] ELSE CR
    <2>1. CASE o < n
      <3>1. o + 1 \in 1..n /\ d + (o + 1) = d + o + 1
        BY <1>0, <2>1
      <3> QED
        BY <1>1, <2>1, <3>1
    <2>2. CASE o = n
      BY <1>0, <1>1, <2>2
    <2> QED
      BY <1>0, <2>1, <2>2
  <1> QED
    BY <1>1, <1>2 DEF d, n

\* Where the parser is in a head.
LEMMA HeadRead ==
    ASSUME ParserTypeOK, Made, Place(state, i, index, first, files), state \in InHeaders
    PROVE  LET nf == Len(files)
               p  == sent[nf + 1]
               o  == i - (BodyEnd(nf) + 2)
           IN  /\ nf \in Nat /\ nf < Len(sent) /\ p \in Part /\ p.head \in Seq(Byte)
               /\ HeaderLines(p.head) /\ BodyEnd(nf) \in Nat
               /\ AtHead(state, p.head, o) /\ o \in Int /\ i \in Nat
               /\ i < Len(body) /\ o \in 0..Len(p.head)
                    => Char = IF o < Len(p.head) THEN p.head[o + 1] ELSE CR
               /\ i < Len(body) /\ o = Len(p.head) + 1
                    => Char = LF /\ i + 1 = BodyEnd(nf) + 2 + Len(p.head) + 2
  <1> DEFINE nf == Len(files)
             p  == sent[nf + 1]
             o  == i - (BodyEnd(nf) + 2)
  <1>1. nf \in Nat /\ i \in Nat
    BY DEF ParserTypeOK
  <1>2. nf < Len(sent) /\ AtHead(state, p.head, o)
    BY DEF Place, Inside
  <1>3. p \in Part /\ Writable(p) /\ BodyEnd(nf) \in Nat /\ Laid(Encode, BodyEnd(nf), p)
    BY <1>1, <1>2, PartRead
  <1> HIDE DEF nf, p
  <1>4. p.head \in Seq(Byte) /\ HeaderLines(p.head) /\ o \in Int /\ Len(p.head) \in Nat
    BY <1>1, <1>3 DEF Writable, Part
  <1>5. /\ \A q \in 0 .. Len(p.head) :
                Encode[BodyEnd(nf) + 2 + q + 1] = IF q < Len(p.head) THEN p.head[q + 1] ELSE CR
        /\ Encode[BodyEnd(nf) + 2 + Len(p.head) + 2] = LF
    BY <1>3, PartBytes
  <1>6. i < Len(body) => Char = Encode[i + 1]
    BY NextByte
  <1>7. i + 1 = BodyEnd(nf) + 2 + o + 1
    BY <1>1, <1>3
  <1> HIDE DEF o
  <1>8. ASSUME i < Len(body), o \in 0..Len(p.head)
        PROVE  Char = IF o < Len(p.head) THEN p.head[o + 1] ELSE CR
    BY <1>5, <1>6, <1>7, <1>8
  <1>9. ASSUME i < Len(body), o = Len(p.head) + 1
        PROVE  Char = LF /\ i + 1 = BodyEnd(nf) + 2 + Len(p.head) + 2
    <2>1. i + 1 = BodyEnd(nf) + 2 + Len(p.head) + 2
      BY <1>3, <1>4, <1>7, <1>9
    <2> QED
      BY <1>5, <1>6, <1>9, <2>1
  <1> QED
    BY <1>1, <1>2, <1>3, <1>4, <1>8, <1>9 DEF nf, p, o

\* The head goes on.
LEMMA HeadGoesOn ==
    ASSUME ParserTypeOK, Made, Place(state, i, index, first, files), state \in InHeaders,
           NEW st \in InHeaders, NEW ix, NEW ff,
           AtHead(st, sent[Len(files) + 1].head, (i - (BodyEnd(Len(files)) + 2)) + 1)
    PROVE  Place(st, i + 1, ix, ff, files)
  <1> DEFINE nf == Len(files)
             p  == sent[nf + 1]
             h  == BodyEnd(nf) + 2
  <1>1. nf < Len(sent) /\ h \in Nat /\ i \in Nat
    BY HeadRead, SMTT(60)
  <1>2. Arrived(files)
    BY DEF Place
  <1> HIDE DEF h
  <1>3. (i + 1) - h = (i - h) + 1
    BY <1>1
  <1>4. AtHead(st, p.head, (i + 1) - h)
    BY <1>3 DEF h
  <1>5. AtData(st, i + 1, ix, ff, h + Len(p.head) + 2, Len(p.data))
    BY DEF AtData, InHeaders, InPart
  <1>6. Between(st, i + 1, nf)
    BY DEF Between, InHeaders
  <1>7. Inside(st, i + 1, ix, ff, nf)
    BY <1>1, <1>4, <1>5 DEF Inside, h
  <1>8. st \notin {"start", "start_boundary"}
    BY DEF InHeaders
  <1> QED
    BY <1>2, <1>6, <1>7, <1>8 DEF Place

\* The head is over.
LEMMA DataBegins ==
    ASSUME ParserTypeOK, Made, Place(state, i, index, first, files), state \in InHeaders,
           NEW ix, NEW ff, i + 1 = BodyEnd(Len(files)) + 2 + Len(sent[Len(files) + 1].head) + 2
    PROVE  Place("part_data_start", i + 1, ix, ff, files)
  <1> DEFINE nf == Len(files)
             p  == sent[nf + 1]
             h  == BodyEnd(nf) + 2
             st == "part_data_start"
  <1>1. nf < Len(sent)
    BY HeadRead
  <1>2. Arrived(files)
    BY DEF Place
  <1>3. AtHead(st, p.head, (i + 1) - h)
    BY DEF AtHead
  <1>4. AtData(st, i + 1, ix, ff, h + Len(p.head) + 2, Len(p.data))
    BY DEF AtData, InPart
  <1>5. Between(st, i + 1, nf)
    BY DEF Between
  <1>6. Inside(st, i + 1, ix, ff, nf)
    BY <1>1, <1>3, <1>4 DEF Inside
  <1> QED
    BY <1>2, <1>5, <1>6 DEF Place

LEMMA FieldPlace ==
    ASSUME ParserTypeOK, Made, Place(state, i, index, first, files), i < Len(body),
           state \in {"header_field_start", "header_field"}
    PROVE  /\ Char \in {CR, ":", "-"} \cup Letters
           /\ HeaderField => Place(state', i', index', first', files')
  <1> DEFINE h == sent[Len(files) + 1].head
             o == i - (BodyEnd(Len(files)) + 2)
  <1>0. state \in InHeaders
    BY DEF InHeaders
  <1>1. /\ h \in Seq(Byte) /\ HeaderLines(h) /\ AtHead(state, h, o) /\ o \in Int
        /\ o \in 0..Len(h) => Char = IF o < Len(h) THEN h[o + 1] ELSE CR
    BY <1>0, HeadRead
  <1> HIDE DEF h, o
  <1>2. \/ o = Len(h) \/ (o \in 0 .. Len(h) - 1 /\ LineBegins(h, o))
        \/ o >= 0 /\ NameAhead(h, o)
    BY <1>1 DEF AtHead
  <1>3. o \in 0..Len(h)
    BY <1>1, <1>2 DEF NameAhead
  <1>4. \/ Char = CR /\ o = Len(h)
        \/ Char = ":" /\ o + 3 <= Len(h)
        \/ Char \in Letters \cup {"-"} /\ NameAhead(h, o + 1)
    BY <1>1, <1>2, <1>3, FieldByte
  <1>5. /\ CR # ":" /\ CR \notin Letters \cup {"-"} /\ ":" \notin Letters \cup {"-"}
        /\ CR \notin Blanks /\ ":" \notin Blanks
        /\ \A b \in Blanks : b \notin Letters \cup {"-"}
    BY MultipartAssumption DEF CR, Blanks
  <1>6. ASSUME HeaderField PROVE Place(state', i', index', first', files')
    <2>1. /\ i' = i + 1 /\ files' = files
          /\ \/ Char = CR /\ state' = "headers_almost_done"
             \/ Char \in Blanks \cup {":"} /\ state' = "header_value_start"
             \/ Char \in Letters \cup {"-"} /\ state' = "header_field"
      BY <1>6 DEF HeaderField, Goto
    <2>2. state' \in InHeaders
      BY <2>1 DEF InHeaders
    <2>3. AtHead(state', h, o + 1)
      <3>1. CASE Char = CR
        <4>1. state' = "headers_almost_done" /\ o = Len(h)
          BY <1>4, <1>5, <2>1, <3>1
        <4> QED
          BY <4>1 DEF AtHead
      <3>2. CASE Char = ":"
        <4>1. state' = "header_value_start" /\ o + 3 <= Len(h)
          BY <1>4, <1>5, <2>1, <3>2
        <4> QED
          BY <1>1, <1>3, <4>1 DEF AtHead
      <3>3. CASE Char \in Letters \cup {"-"}
        <4>1. state' = "header_field" /\ NameAhead(h, o + 1)
          BY <1>4, <1>5, <2>1, <3>3
        <4>2. o + 1 >= 0
          BY <1>3
        <4> QED
          BY <4>1, <4>2 DEF AtHead
      <3> QED
        BY <1>4, <3>1, <3>2, <3>3
    <2>4. Place(state', i + 1, index', first', files)
      BY <1>0, <2>2, <2>3, HeadGoesOn DEF h, o
    <2> QED
      BY <2>1, <2>4
  <1>7. Char \in {CR, ":", "-"} \cup Letters
    BY <1>4
  <1> QED
    BY <1>6, <1>7

LEMMA ValuePlace ==
    ASSUME ParserTypeOK, Made, Place(state, i, index, first, files), HeaderValue
    PROVE  Place(state', i', index', first', files')
  <1> DEFINE h == sent[Len(files) + 1].head
             o == i - (BodyEnd(Len(files)) + 2)
  <1>0. state \in {"header_value_start", "header_value"} /\ state \in InHeaders /\ i < Len(body)
    BY DEF HeaderValue, Reads, InHeaders
  <1>1. /\ h \in Seq(Byte) /\ HeaderLines(h) /\ AtHead(state, h, o) /\ o \in Int
        /\ o \in 0..Len(h) => Char = IF o < Len(h) THEN h[o + 1] ELSE CR
    BY <1>0, HeadRead
  <1> HIDE DEF h, o
  <1>2. o >= 0 /\ o + 2 <= Len(h)
    BY <1>0, <1>1 DEF AtHead
  <1>3. o \in Nat /\ o \in 0..Len(h) /\ o < Len(h)
    BY <1>1, <1>2
  <1>4. Char = h[o + 1]
    BY <1>1, <1>3
  <1>5. IF h[o + 1] = CR THEN o + 1 \in 1 .. Len(h) - 1 ELSE o + 3 <= Len(h)
    BY <1>1, <1>2, <1>3, ValueByte
  <1>6. /\ i' = i + 1 /\ files' = files
        /\ IF Char = CR THEN state' = "header_value_almost_done"
           ELSE state' \in {"header_value_start", "header_value"}
    <2>1. CR \notin Blanks
      BY DEF CR, Blanks
    <2> QED
      BY <1>0, <2>1 DEF HeaderValue, Goto
  <1>7. state' \in InHeaders
    BY <1>6 DEF InHeaders
  <1>8. AtHead(state', h, o + 1)
    <2>1. CASE Char = CR
      BY <1>4, <1>5, <1>6, <2>1 DEF AtHead
    <2>2. CASE Char # CR
      <3>1. o + 1 >= 0 /\ (o + 1) + 2 <= Len(h)
        BY <1>3, <1>4, <1>5, <2>2
      <3> QED
        BY <1>6, <2>2, <3>1 DEF AtHead
    <2> QED
      BY <2>1, <2>2
  <1>9. Place(state', i + 1, index', first', files)
    BY <1>0, <1>7, <1>8, HeadGoesOn DEF h, o
  <1> QED
    BY <1>6, <1>9

\* The line end of a header, of the head, of a boundary between two parts.
LEMMA LinePlace ==
    ASSUME ParserTypeOK, Made, Place(state, i, index, first, files), i < Len(body),
           state \in {"header_value_almost_done", "headers_almost_done", "part_data_end"}
    PROVE  /\ Char = LF
           /\ LineEnd => Place(state', i', index', first', files')
  <1> DEFINE nf == Len(files)
             h == sent[nf + 1].head
             o == i - (BodyEnd(nf) + 2)
  <1>0. LineEnd => /\ i' = i + 1 /\ files' = files
                   /\ state' = IF state = "headers_almost_done" THEN "part_data_start"
                               ELSE "header_field_start"
    BY DEF LineEnd, Reads, Goto
  <1>1. CASE state = "header_value_almost_done"
    <2>1. state \in InHeaders
      BY <1>1 DEF InHeaders
    <2>2. /\ h \in Seq(Byte) /\ HeaderLines(h) /\ AtHead(state, h, o) /\ o \in Int
          /\ o \in 0..Len(h) => Char = IF o < Len(h) THEN h[o + 1] ELSE CR
      BY <2>1, HeadRead
    <2> HIDE DEF h, o
    <2>3. o \in 1 .. Len(h) - 1 /\ h[o] = CR
      BY <1>1, <2>2 DEF AtHead
    <2>4. Char = h[o + 1]
      BY <2>2, <2>3
    <2>5. h[o + 1] = LF /\ (o + 1 = Len(h) \/ (o + 1 \in 0 .. Len(h) - 1 /\ LineBegins(h, o + 1)))
      BY <2>2, <2>3, LineByte
    <2>6. AtHead("header_field_start", h, o + 1)
      BY <2>5 DEF AtHead
    <2>7. "header_field_start" \in InHeaders
      BY DEF InHeaders
    <2>8. Place("header_field_start", i + 1, index', first', files)
      BY <2>1, <2>6, <2>7, HeadGoesOn DEF h, o
    <2> QED
      BY <1>0, <1>1, <2>4, <2>5, <2>8
  <1>2. CASE state = "headers_almost_done"
    <2>1. state \in InHeaders
      BY <1>2 DEF InHeaders
    <2>2. /\ AtHead(state, h, o)
          /\ o = Len(h) + 1 => Char = LF /\ i + 1 = BodyEnd(nf) + 2 + Len(h) + 2
      BY <2>1, HeadRead
    <2> HIDE DEF o
    <2>3. Char = LF /\ i + 1 = BodyEnd(nf) + 2 + Len(h) + 2
      BY <1>2, <2>2 DEF AtHead
    <2>4. Place("part_data_start", i + 1, index', first', files)
      BY <2>1, <2>3, DataBegins
    <2> QED
      BY <1>0, <1>2, <2>3, <2>4
  <1>3. CASE state = "part_data_end"
    <2>1. nf < Len(sent) /\ i = BodyEnd(nf) + 1 /\ Arrived(files)
      BY <1>3 DEF Place, Between
    <2>2. nf \in Nat
      BY DEF ParserTypeOK
    <2>3. sent[nf + 1] \in Part /\ BodyEnd(nf) \in Nat /\ Laid(Encode, BodyEnd(nf), sent[nf + 1])
      BY <2>1, <2>2, PartRead
    <2>4. Char = LF
      <3>1. Encode[BodyEnd(nf) + 2] = LF
        BY <2>3 DEF Laid
      <3>2. Char = Encode[i + 1] /\ i + 1 = BodyEnd(nf) + 2
        BY <2>1, <2>3, NextByte
      <3> QED
        BY <3>1, <3>2
    <2>5. AtHead("header_field_start", h, (i + 1) - (BodyEnd(nf) + 2))
      <3>1. (i + 1) - (BodyEnd(nf) + 2) = 0
        BY <2>1, <2>3
      <3>2. 0 = Len(h) \/ (0 \in 0 .. Len(h) - 1 /\ LineBegins(h, 0))
        BY <2>3 DEF Part, LineBegins
      <3> QED
        BY <3>1, <3>2 DEF AtHead
    <2>6. ASSUME NEW d, NEW m PROVE AtData("header_field_start", i + 1, index', first', d, m)
      BY DEF AtData, InPart
    <2>7. Between("header_field_start", i + 1, nf)
      BY DEF Between
    <2>8. Inside("header_field_start", i + 1, index', first', nf)
      BY <2>1, <2>5, <2>6 DEF Inside
    <2>9. Place("header_field_start", i + 1, index', first', files)
      BY <2>1, <2>7, <2>8 DEF Place
    <2> QED
      BY <1>0, <1>3, <2>4, <2>9
  <1> QED
    BY <1>1, <1>2, <1>3

\* Where the parser is in the data of a part.
LEMMA DataRead ==
    ASSUME ParserTypeOK, Made, Place(state, i, index, first, files), state \in InData
    PROVE  LET nf == Len(files)
               p  == sent[nf + 1]
               d  == BodyEnd(nf) + 2 + Len(p.head) + 2
               m  == Len(p.data)
           IN  /\ nf \in Nat /\ nf < Len(sent) /\ p \in Part /\ p.data \in Seq(Byte)
               /\ d \in Nat /\ m \in Nat /\ i \in Nat /\ index \in Nat
               /\ AtData(state, i, index, first, d, m)
               /\ \A o \in 0..m : Encode[d + o + 1] = IF o < m THEN p.data[o + 1] ELSE CR
               /\ Encode[d + m + 2] = LF
               /\ \A k \in 1..Len(Boundary) : Encode[d + m + 2 + k] = Boundary[k]
               /\ BodyEnd(nf + 1) = d + m + 2 + Len(Boundary)
               /\ \A o \in 0..m : ~BoundaryAt(p.data, o)
  <1> DEFINE nf == Len(files)
             p  == sent[nf + 1]
             d  == BodyEnd(nf) + 2 + Len(p.head) + 2
             m  == Len(p.data)
  <1>1. nf \in Nat /\ i \in Nat /\ index \in Nat
    BY MultipartAssumption DEF ParserTypeOK
  <1>2. nf < Len(sent) /\ AtData(state, i, index, first, d, m)
    BY DEF Place, Inside
  <1>3. /\ p \in Part /\ Writable(p) /\ BodyEnd(nf) \in Nat /\ Laid(Encode, BodyEnd(nf), p)
        /\ BodyEnd(nf + 1) = BodyEnd(nf) + 6 + Len(p.head) + Len(p.data) + Len(Boundary)
    BY <1>1, <1>2, PartRead
  <1> HIDE DEF p, nf
  <1>4. p.data \in Seq(Byte) /\ m \in Nat /\ d \in Nat /\ Len(p.head) \in Nat /\ Len(Boundary) \in Nat
    BY <1>3, MultipartAssumption DEF Part
  <1>5. /\ \A o \in 0..m : Encode[d + o + 1] = IF o < m THEN p.data[o + 1] ELSE CR
        /\ Encode[d + m + 2] = LF
        /\ \A k \in 1..Len(Boundary) : Encode[d + m + 2 + k] = Boundary[k]
    BY <1>3, DataBytes
  <1>6. BodyEnd(nf + 1) = d + m + 2 + Len(Boundary)
    <2> DEFINE a == BodyEnd(nf)
               b == BodyEnd(nf + 1)
               g == Len(p.head)
               l == Len(Boundary)
    <2>1. a \in Nat /\ g \in Nat /\ l \in Nat /\ m \in Nat /\ b = a + 6 + g + m + l
      BY <1>3, <1>4
    <2>2. d = a + 2 + g + 2
      OBVIOUS
    <2> HIDE DEF a, b, g, l, m, d
    <2>3. b = d + m + 2 + l
      BY ONLY <2>1, <2>2
    <2> QED
      BY <2>3 DEF b, l
  <1>7. \A o \in 0..m : ~BoundaryAt(p.data, o)
    BY <1>3 DEF Writable
  <1> HIDE DEF d, m
  <1> QED
    BY <1>1, <1>2, <1>3, <1>4, <1>5, <1>6, <1>7 DEF nf, p, d, m

\* The data goes on.
LEMMA DataGoesOn ==
    ASSUME ParserTypeOK, Made, Place(state, i, index, first, files), state \in InData,
           NEW st \in InPart, NEW ii, NEW ix, NEW ff,
           AtData(st, ii, ix, ff, BodyEnd(Len(files)) + 2 + Len(sent[Len(files) + 1].head) + 2,
                  Len(sent[Len(files) + 1].data))
    PROVE  Place(st, ii, ix, ff, files)
  <1> DEFINE nf == Len(files)
  <1>1. nf < Len(sent)
    BY DataRead
  <1>2. Arrived(files)
    BY DEF Place
  <1>3. AtHead(st, sent[nf + 1].head, ii - (BodyEnd(nf) + 2))
    BY DEF AtHead, InPart
  <1>4. Between(st, ii, nf)
    BY DEF Between, InPart
  <1>5. Inside(st, ii, ix, ff, nf)
    BY <1>1, <1>3 DEF Inside
  <1>6. st \notin {"start", "start_boundary"}
    BY DEF InPart
  <1> QED
    BY <1>2, <1>4, <1>5, <1>6 DEF Place

LEMMA DataPlace ==
    ASSUME ParserTypeOK, Made, Place(state, i, index, first, files), PartData
    PROVE  Place(state', i', index', first', files')
  <1> DEFINE p == sent[Len(files) + 1]
             d == BodyEnd(Len(files)) + 2 + Len(p.head) + 2
             m == Len(p.data)
  <1>1. /\ i < Len(body) /\ state \in {"part_data_start", "part_data"}
        /\ first' = (IF state = "part_data_start" THEN i ELSE first)
        /\ i' = i + 1 /\ index' = index /\ files' = files
        /\ \/ Char = CR /\ state' = "part_data_almost_boundary"
           \/ Char # CR /\ state' = "part_data"
    BY DEF PartData, Reads, Goto
  <1>2. state \in InData
    BY <1>1 DEF InData, InPart
  <1>3. /\ d \in Nat /\ m \in Nat /\ i \in Nat /\ AtData(state, i, index, first, d, m)
        /\ \A o \in 0..m : Encode[d + o + 1] = IF o < m THEN p.data[o + 1] ELSE CR
    BY <1>2, DataRead
  <1>4. Char = Encode[i + 1] /\ body[i + 1] = Char
    BY <1>1, NextByte DEF Char
  <1> HIDE DEF p, d, m
  <1>5. d <= i /\ i <= d + m /\ first' = d
    BY <1>1, <1>3 DEF AtData, InPart
  <1>6. Char # CR => i + 1 <= d + m
    <2>1. i - d \in 0..m /\ d + (i - d) + 1 = i + 1
      BY <1>3, <1>5
    <2>2. Encode[i + 1] = IF i - d < m THEN p.data[(i - d) + 1] ELSE CR
      BY <1>3, <2>1
    <2> QED
      BY <1>3, <1>4, <1>5, <2>2
  <1>7. AtData(state', i + 1, index, first', d, m)
    <2>1. CASE Char = CR
      <3>1. i + 1 \in d + 1 .. d + m + 1 /\ body[i + 1] = CR /\ state' = "part_data_almost_boundary"
        BY <1>1, <1>3, <1>4, <1>5, <2>1
      <3> QED
        BY <1>5, <3>1 DEF AtData
    <2>2. CASE Char # CR
      <3>1. d <= i + 1 /\ i + 1 <= d + m /\ state' = "part_data"
        BY <1>1, <1>3, <1>5, <1>6, <2>2
      <3> QED
        BY <1>5, <3>1 DEF AtData
    <2> QED
      BY <2>1, <2>2
  <1>8. state' \in InPart
    BY <1>1 DEF InPart
  <1>9. Place(state', i + 1, index, first', files)
    BY <1>2, <1>7, <1>8, DataGoesOn DEF p, d, m
  <1> QED
    BY <1>1, <1>9

LEMMA AlmostBoundaryPlace ==
    ASSUME ParserTypeOK, Made, Place(state, i, index, first, files), AlmostBoundary
    PROVE  Place(state', i', index', first', files')
  <1> DEFINE p == sent[Len(files) + 1]
             d == BodyEnd(Len(files)) + 2 + Len(p.head) + 2
             m == Len(p.data)
  <1>1. /\ i < Len(body) /\ state = "part_data_almost_boundary" /\ first' = first /\ files' = files
        /\ \/ Char = LF /\ state' = "part_data_boundary" /\ i' = i + 1 /\ index' = 0
           \/ Char # LF /\ state' = "part_data" /\ i' = i /\ index' = index
    BY DEF AlmostBoundary, Reads, Goto, ReadAgain
  <1>2. state \in InData
    BY <1>1 DEF InData, InPart
  <1>3. /\ d \in Nat /\ m \in Nat /\ i \in Nat /\ AtData(state, i, index, first, d, m)
        /\ \A o \in 0..m : Encode[d + o + 1] = IF o < m THEN p.data[o + 1] ELSE CR
        /\ Encode[d + m + 2] = LF
    BY <1>2, DataRead
  <1>4. Char = Encode[i + 1] /\ body[i + 1] = Char
    BY <1>1, NextByte DEF Char
  <1> HIDE DEF p, d, m
  <1>5. d + 1 <= i /\ i <= d + m + 1 /\ body[i] = CR /\ first' = d
    BY <1>1, <1>3 DEF AtData, InPart
  <1>6. i = d + m + 1 => Char = LF
    BY <1>3, <1>4
  <1>7. i = d + m => Char # LF
    <2>1. Encode[d + m + 1] = CR
      BY <1>3
    <2> QED
      BY <1>4, <2>1 DEF CR, LF
  <1>8. AtData(state', i', index', first', d, m)
    <2>1. CASE Char = LF
      <3> DEFINE o == (i + 1) - 0 - 2 - d
      <3>1. o \in Int /\ o >= 0 /\ d + o + 1 = i /\ d + o + 2 = i + 1
            /\ (o = m \/ i + 1 <= d + m) /\ i + 1 >= d
        BY <1>3, <1>5, <1>7, <2>1
      <3>2. AtLookalike(o, 0, d, m, i + 1)
        <4> HIDE DEF o
        <4>1. o = (i + 1) - 0 - 2 - d
          BY DEF o
        <4> QED
          BY <1>4, <1>5, <2>1, <3>1, <4>1 DEF AtLookalike
      <3>3. state' = "part_data_boundary" /\ i' = i + 1 /\ index' = 0
        BY <1>1, <2>1
      <3> QED
        BY <1>5, <3>2, <3>3 DEF AtData
    <2>2. CASE Char # LF
      <3>1. d <= i /\ i <= d + m
        BY <1>3, <1>5, <1>6, <2>2
      <3> QED
        BY <1>1, <1>5, <2>2, <3>1 DEF AtData
    <2> QED
      BY <2>1, <2>2
  <1>9. state' \in InPart
    BY <1>1 DEF InPart
  <1>10. Place(state', i', index', first', files)
    BY <1>2, <1>8, <1>9, DataGoesOn DEF p, d, m
  <1> QED
    BY <1>1, <1>10

\* What looks like the boundary to its end is the boundary behind the data: in
\* the data there is none.
LEMMA BoundaryIsTheEnd ==
    ASSUME ParserTypeOK, Made, NEW p \in Part, \A o \in 0..Len(p.data) : ~BoundaryAt(p.data, o),
           NEW d \in Nat, NEW o \in Nat, o = Len(p.data) \/ d + o + 2 + Len(Boundary) <= d + Len(p.data),
           \A k \in 0..Len(p.data) : Encode[d + k + 1] = IF k < Len(p.data) THEN p.data[k + 1] ELSE CR,
           d + o + 2 + Len(Boundary) <= Len(body), body[d + o + 1] = CR, body[d + o + 2] = LF,
           \A k \in 1..Len(Boundary) : body[d + o + 2 + k] = Boundary[k]
    PROVE  o = Len(p.data)
  <1> DEFINE m == Len(p.data)
             l == Len(Boundary)
  <1>0. m \in Nat /\ l \in Nat /\ Len(body) \in Nat
    BY MultipartAssumption, SMTT(60) DEF Part, ParserTypeOK
  <1>1. \A q \in 1..Len(body) : body[q] = Encode[q]
    BY NextByte
  <1> HIDE DEF m, l
  <1>2. SUFFICES ASSUME o + 2 + l <= m PROVE FALSE
    BY <1>0 DEF m, l
  <1>3. ASSUME NEW k \in 1 .. o + 2 + l PROVE p.data[k] = body[d + k]
    <2>1. k - 1 \in 0..m /\ k - 1 < m /\ d + (k - 1) + 1 = d + k /\ (k - 1) + 1 = k
          /\ d + k \in 1..Len(body)
      BY <1>0, <1>2 DEF m, l
    <2>2. Encode[d + (k - 1) + 1] = p.data[(k - 1) + 1]
      BY <2>1 DEF m
    <2> QED
      BY <1>1, <2>1, <2>2
  <1>4. p.data[o + 1] = CR /\ p.data[o + 2] = LF
    <2>1. o + 1 \in 1 .. o + 2 + l /\ o + 2 \in 1 .. o + 2 + l /\ d + (o + 1) = d + o + 1
          /\ d + (o + 2) = d + o + 2
      BY <1>0
    <2> QED
      BY <1>3, <2>1
  <1>5. ASSUME NEW k \in 1..l PROVE p.data[o + 2 + k] = Boundary[k]
    <2>1. o + 2 + k \in 1 .. o + 2 + l /\ d + (o + 2 + k) = d + o + 2 + k
      BY <1>0
    <2>2. p.data[o + 2 + k] = body[d + o + 2 + k]
      BY <1>3, <2>1
    <2> QED
      BY <2>2 DEF l
  <1>6. BoundaryAt(p.data, o)
    BY <1>2, <1>4, <1>5 DEF BoundaryAt, m, l
  <1>7. o \in 0..m
    BY <1>0, <1>2
  <1> QED
    BY <1>6, <1>7 DEF m

\* When the boundary is being compared, the callback has what comes before it.
LEMMA Collected ==
    ASSUME ParserInv, state = "part_data_boundary", NEW o \in Nat, i = first + o + 2 + index
    PROVE  Len(part) = o /\ \A q \in 1..o : part[q] = body[first + q]
  <1> DEFINE l == Lookbehind(2 + index)
             z == Piece(first, i)
  <1>1. index \in Nat /\ part \in Seq(Byte) /\ i \in Nat /\ first \in Nat /\ first <= i /\ i <= Len(body)
        /\ body \in Seq(Byte)
    BY MultipartAssumption DEF ParserInv, ParserTypeOK
  <1>2. l \in Seq(Byte) /\ Len(l) = 2 + index
    <2>1. 2 + index \in Nat /\ (2 + index) - 1 = index + 1
      BY <1>1
    <2>2. \A k \in 0 .. (2 + index) - 1 : look[k] \in Byte
      BY <2>1, LooksLikeBytes
    <2> QED
      BY <2>1, <2>2, LookbehindType
  <1>3. z \in Seq(Byte) /\ Len(z) = i - first /\ \A k \in 1 .. i - first : z[k] = body[first + k]
    BY <1>1, PieceType
  <1>4. part \o l = z
    BY DEF ParserInv, Held
  <1> HIDE DEF l, z
  <1>5. Len(part \o l) = Len(part) + Len(l) /\ \A k \in 1..Len(part) : (part \o l)[k] = part[k]
    BY <1>1, <1>2, Follows
  <1>6. Len(part) = o /\ o <= i - first
    <2>1. Len(part) \in Nat
      BY <1>1
    <2> QED
      BY <1>1, <1>2, <1>3, <1>4, <1>5, <2>1
  <1>7. ASSUME NEW q \in 1..o PROVE part[q] = body[first + q]
    <2>1. q \in 1..Len(part) /\ q \in 1 .. i - first
      BY <1>1, <1>6
    <2> QED
      BY <1>3, <1>4, <1>5, <2>1
  <1> QED
    BY <1>6, <1>7

LEMMA ArrivedGrows ==
    ASSUME files \in Seq(Seq(Byte)), part \in Seq(Byte), Len(files) < Len(sent), Len(sent) \in Nat,
           Arrived(files), part = sent[Len(files) + 1].data
    PROVE  Arrived(Append(files, part)) /\ Len(Append(files, part)) = Len(files) + 1
  <1> DEFINE f == Append(files, part)
  <1>1. Len(f) = Len(files) + 1 /\ Len(files) \in Nat /\ f[Len(files) + 1] = part
        /\ \A k \in 1..Len(files) : f[k] = files[k]
    BY AppendProperties
  <1> HIDE DEF f
  <1>2. ASSUME NEW k \in 1..Len(f) PROVE f[k] = sent[k].data
    BY <1>1, SMTT(60) DEF Arrived
  <1>3. Len(f) <= Len(sent)
    BY <1>1
  <1> QED
    BY <1>1, <1>2, <1>3 DEF Arrived, f

LEMMA PartBoundaryPlace ==
    ASSUME ParserInv, Made, Place(state, i, index, first, files), PartBoundary
    PROVE  Place(state', i', index', first', files')
  <1> DEFINE nf == Len(files)
             p == sent[nf + 1]
             d == BodyEnd(nf) + 2 + Len(p.head) + 2
             m == Len(p.data)
             l == Len(Boundary)
             o == i - index - 2 - d
  <1>0. ParserTypeOK
    BY DEF ParserInv
  <1>1. /\ i < Len(body) /\ state = "part_data_boundary" /\ first' = first
        /\ \/ /\ Boundary[index + 1] # Char /\ state' = "part_data" /\ i' = i /\ index' = index
              /\ files' = files
           \/ /\ Boundary[index + 1] = Char /\ i' = i + 1 /\ index' = index + 1
              /\ index' = Len(Boundary) => files' = Append(files, part)
                                           /\ state' = "part_data_almost_end"
              /\ index' # Len(Boundary) => state' = "part_data_boundary" /\ files' = files
    BY DEF PartBoundary, Reads, Goto, ReadAgain
  <1>2. state \in InData
    BY <1>1 DEF InData, InPart
  <1>3. /\ d \in Nat /\ m \in Nat /\ i \in Nat /\ AtData(state, i, index, first, d, m)
        /\ \A q \in 0..m : Encode[d + q + 1] = IF q < m THEN p.data[q + 1] ELSE CR
        /\ \A k \in 1..l : Encode[d + m + 2 + k] = Boundary[k]
        /\ BodyEnd(nf + 1) = d + m + 2 + l
        /\ \A q \in 0..m : ~BoundaryAt(p.data, q)
        /\ nf \in Nat /\ nf < Len(sent) /\ p \in Part /\ p.data \in Seq(Byte)
    BY <1>0, <1>2, DataRead
  <1>4. Char = Encode[i + 1] /\ body[i + 1] = Char
    BY <1>0, <1>1, NextByte DEF Char
  <1>5. l \in Nat /\ index \in Nat /\ index < l /\ Len(body) \in Nat /\ body \in Seq(Byte)
    BY <1>0, <1>1, MultipartAssumption DEF ParserTypeOK
  <1>6. first = d /\ AtLookalike(o, index, d, m, i)
    BY <1>1, <1>3 DEF AtData, InPart
  <1> HIDE DEF p, d, m, l, nf
  <1>7. /\ o \in Nat /\ i = d + o + 2 + index /\ (o = m \/ i <= d + m)
        /\ body[d + o + 1] = CR /\ body[d + o + 2] = LF
        /\ \A k \in 1..index : body[d + o + 2 + k] = Boundary[k]
    BY <1>3, <1>5, <1>6 DEF AtLookalike
  <1> HIDE DEF o
  <1>n. /\ d \in Nat /\ m \in Nat /\ i \in Nat /\ index \in Nat /\ l \in Nat /\ o \in Nat
        /\ Len(body) \in Nat /\ i = d + o + 2 + index /\ i < Len(body) /\ index < l
    BY <1>1, <1>3, <1>5, <1>7
  \* Behind the data comes the boundary, it does not end in its middle.
  <1>8. o = m => Boundary[index + 1] = Char
    <2>1. index + 1 \in 1..l /\ d + m + 2 + (index + 1) = d + m + 2 + index + 1
      BY <1>3, <1>5, SMTT(60)
    <2> QED
      BY <1>3, <1>4, <1>7, <2>1
  \* A CR is not a byte of the boundary: it does not begin in the data and go on behind it.
  <1>9. Boundary[index + 1] = Char => o = m \/ i + 1 <= d + m
    <2>1. SUFFICES ASSUME Boundary[index + 1] = Char, i = d + m PROVE FALSE
      BY <1>3, <1>7
    <2>2. Encode[d + m + 1] = CR
      BY <1>3, SMTT(60)
    <2>3. index + 1 \in 1..Len(Boundary)
      BY <1>5 DEF l
    <2>4. Boundary[index + 1] # CR
      BY <2>3, MultipartAssumption
    <2> QED
      BY <1>4, <2>1, <2>2, <2>4
  <1>10. CASE Boundary[index + 1] # Char
    <2>1. state' = "part_data" /\ i' = i /\ files' = files /\ index' = index
      BY <1>1, <1>10
    <2>2. d <= i /\ i <= d + m
      BY <1>3, <1>5, <1>7, <1>8, <1>10
    <2>3. AtData("part_data", i, index, first, d, m)
      BY <1>6, <2>2 DEF AtData
    <2>4. "part_data" \in InPart
      BY DEF InPart
    <2>5. Place("part_data", i, index, first, files)
      BY <1>0, <1>2, <2>3, <2>4, DataGoesOn DEF p, d, m, nf
    <2> QED
      BY <1>1, <2>1, <2>5
  <1>11. CASE Boundary[index + 1] = Char
    <2>1. i' = i + 1 /\ index' = index + 1 /\ i + 1 = d + o + 2 + (index + 1)
      BY <1>1, <1>3, <1>5, <1>7, <1>11
    <2>2. \A k \in 1 .. index + 1 : body[d + o + 2 + k] = Boundary[k]
      <3>1. SUFFICES ASSUME NEW k \in 1 .. index + 1 PROVE body[d + o + 2 + k] = Boundary[k]
        OBVIOUS
      <3>2. CASE k = index + 1
        <4>1. d + o + 2 + k = i + 1
          BY <2>1, <3>2
        <4> QED
          BY <1>4, <1>11, <3>2, <4>1
      <3>3. CASE k \in 1..index
        BY <1>7, <3>3
      <3> QED
        BY <1>5, <3>2, <3>3
    <2>3. CASE index + 1 # l
      <3>1. state' = "part_data_boundary" /\ files' = files
        BY <1>1, <1>11, <2>1, <2>3 DEF l
      <3>2. AtLookalike(o, index + 1, d, m, i + 1)
        <4>1. o = (i + 1) - (index + 1) - 2 - d /\ o >= 0
          BY ONLY <1>n
        <4> QED
          BY <1>7, <1>9, <1>11, <2>2, <4>1 DEF AtLookalike
      <3>3. AtData("part_data_boundary", i + 1, index + 1, first, d, m)
        <4>1. o = (i + 1) - (index + 1) - 2 - d
          BY ONLY <1>n
        <4> QED
          BY <1>6, <3>2, <4>1 DEF AtData
      <3>4. "part_data_boundary" \in InPart
        BY DEF InPart
      <3>5. Place("part_data_boundary", i + 1, index + 1, first, files)
        BY <1>0, <1>2, <3>3, <3>4, DataGoesOn DEF p, d, m, nf
      <3> QED
        BY <1>1, <2>1, <3>1, <3>5
    <2>4. CASE index + 1 = l
      <3>1. state' = "part_data_almost_end" /\ files' = Append(files, part)
        BY <1>1, <1>11, <2>1, <2>4 DEF l
      <3>2. o = m
        <4>1. d + o + 2 + l = i + 1 /\ i + 1 <= Len(body)
          BY ONLY <1>n, <2>4
        <4>2. o = m \/ d + o + 2 + l <= d + m
          BY <1>9, <1>11, <4>1
        <4>3. \A k \in 1..l : body[d + o + 2 + k] = Boundary[k]
          BY <2>2, <2>4
        <4> QED
          BY <1>0, <1>3, <1>7, <4>1, <4>2, <4>3, BoundaryIsTheEnd DEF m, l
      <3>3. part = p.data
        <4>1. Len(part) = o /\ \A q \in 1..o : part[q] = body[d + q]
          BY <1>1, <1>6, <1>7, Collected
        <4>2. ASSUME NEW q \in 1..m PROVE body[d + q] = p.data[q]
          <5>1. q - 1 \in 0..m /\ q - 1 < m /\ d + (q - 1) + 1 = d + q /\ (q - 1) + 1 = q
                /\ d + q \in 1..Len(body)
            BY ONLY <1>n, <3>2, q \in 1..m
          <5>2. Encode[d + (q - 1) + 1] = p.data[(q - 1) + 1]
            BY <1>3, <5>1
          <5>3. body[d + q] = Encode[d + q]
            BY <1>0, <5>1, NextByte
          <5> QED
            BY <5>1, <5>2, <5>3
        <4>3. part \in Seq(Byte) /\ p.data \in Seq(Byte) /\ Len(part) = Len(p.data)
              /\ \A q \in 1..Len(part) : part[q] = p.data[q]
          BY <1>0, <1>3, <3>2, <4>1, <4>2 DEF ParserTypeOK, m
        <4> QED
          BY <4>3, SeqEqual
      <3>4. Arrived(Append(files, part)) /\ Len(Append(files, part)) = nf + 1
        <4>1. files \in Seq(Seq(Byte)) /\ part \in Seq(Byte) /\ Len(sent) \in Nat
          BY <1>0 DEF ParserTypeOK
        <4>2. Arrived(files)
          BY DEF Place
        <4> QED
          BY <1>3, <3>3, <4>1, <4>2, ArrivedGrows DEF nf, p
      <3>5. i + 1 = BodyEnd(nf + 1)
        BY <1>3, <2>1, <2>4, <3>2
      <3>6. Between("part_data_almost_end", i + 1, nf + 1)
        BY <1>3, <3>5 DEF Between
      <3>7. Place("part_data_almost_end", i + 1, index', first', Append(files, part))
        BY <3>4, <3>6 DEF Place, InHeaders, InData, InPart
      <3> QED
        BY <2>1, <3>1, <3>7
    <2> QED
      BY <2>3, <2>4
  <1> QED
    BY <1>10, <1>11

\* Between two parts, and behind the last.
LEMMA AfterPlace ==
    ASSUME ParserTypeOK, Made, Place(state, i, index, first, files), i < Len(body),
           state \in {"part_data_almost_end", "part_data_final_hyphen", "end"}
    PROVE  /\ state = "part_data_almost_end" => Char \in {"-", CR}
           /\ state = "part_data_final_hyphen" => Char = "-"
           /\ AfterBoundary => Place(state', i', index', first', files')
  <1> DEFINE nf == Len(files)
  <1>1. /\ nf \in Nat /\ i \in Nat /\ sent \in Seq(Part) /\ Len(sent) \in Nat /\ Len(body) \in Nat
        /\ Arrived(files) /\ nf <= Len(sent)
    BY DEF ParserTypeOK, Place, Arrived
  <1>2. nf \in 0..Len(sent)
    BY <1>1
  <1>3. /\ BodyEnd(nf) \in Nat /\ Len(Encode) = BodyEnd(Len(sent)) + 2
        /\ Encode[BodyEnd(Len(sent)) + 1] = "-" /\ Encode[BodyEnd(Len(sent)) + 2] = "-"
    BY <1>1, <1>2, Layout
  <1>4. Between(state, i, nf)
    BY DEF Place
  <1>5. Char = Encode[i + 1] /\ Len(body) <= Len(Encode)
    BY NextByte
  <1>6. nf < Len(sent) => Encode[BodyEnd(nf) + 1] = CR
    <2>1. nf < Len(sent) => Laid(Encode, BodyEnd(nf), sent[nf + 1])
      BY <1>1, PartRead
    <2> QED
      BY <2>1 DEF Laid
  <1> HIDE DEF nf
  <1>7. AfterBoundary => i' = i + 1 /\ files' = files
    BY DEF AfterBoundary, Goto, nf
  <1>8. ASSUME NEW st \in {"part_data_end", "part_data_final_hyphen", "end"}, Between(st, i + 1, nf)
        PROVE  Place(st, i + 1, index', first', files)
    BY <1>1, <1>8 DEF Place, InHeaders, InData, InPart, nf
  <1>9. CASE state = "part_data_almost_end"
    <2>1. nf >= 1 /\ i = BodyEnd(nf)
      BY <1>4, <1>9 DEF Between
    <2>2. Char = IF nf < Len(sent) THEN CR ELSE "-"
      <3>1. nf = Len(sent) \/ nf < Len(sent)
        BY <1>2
      <3> QED
        BY <1>3, <1>5, <1>6, <2>1, <3>1
    <2>3. AfterBoundary => state' = IF nf < Len(sent) THEN "part_data_end" ELSE "part_data_final_hyphen"
      <3>1. AfterBoundary => \/ Char = "-" /\ state' = "part_data_final_hyphen"
                             \/ Char = CR /\ state' = "part_data_end"
        BY <1>9 DEF AfterBoundary, Reads, Goto
      <3> QED
        BY <2>2, <3>1 DEF CR
    <2>4. Between(IF nf < Len(sent) THEN "part_data_end" ELSE "part_data_final_hyphen", i + 1, nf)
      <3>1. CASE nf < Len(sent)
        BY <2>1, <3>1 DEF Between
      <3>2. CASE nf = Len(sent)
        BY <2>1, <3>2 DEF Between
      <3> QED
        BY <1>2, <3>1, <3>2
    <2>5. AfterBoundary => Place(state', i + 1, index', first', files)
      BY <1>8, <2>3, <2>4
    <2> QED
      BY <1>7, <1>9, <2>2, <2>5
  <1>10. CASE state = "part_data_final_hyphen"
    <2>1. nf = Len(sent) /\ i = BodyEnd(nf) + 1
      BY <1>4, <1>10 DEF Between
    <2>2. Char = "-"
      <3>1. i + 1 = BodyEnd(Len(sent)) + 2
        BY <1>3, <2>1
      <3> QED
        BY <1>3, <1>5, <3>1
    <2>3. AfterBoundary => state' = "end"
      BY <1>10 DEF AfterBoundary, Reads, Goto
    <2>4. Between("end", i + 1, nf)
      BY <1>3, <2>1 DEF Between
    <2>5. AfterBoundary => Place(state', i + 1, index', first', files)
      BY <1>8, <2>3, <2>4
    <2> QED
      BY <1>7, <1>10, <2>2, <2>5
  <1>11. CASE state = "end"
    <2>1. nf = Len(sent) /\ i = BodyEnd(nf) + 2
      BY <1>4, <1>11 DEF Between
    <2>2. FALSE
      BY <1>1, <1>3, <1>5, <2>1
    <2> QED
      BY <2>2
  <1> QED
    BY <1>9, <1>10, <1>11

\* The first boundary, behind which comes a part if there is one.
LEMMA StartPlace ==
    ASSUME ParserTypeOK, Made, Place(state, i, index, first, files), i < Len(body),
           state \in {"start", "start_boundary"}
    PROVE  /\ sent # <<>> => Char = Delimiter[index + 1]
           /\ StartBoundary => Place(state', i', index', first', files')
  <1> DEFINE l == Len(Boundary)
  <1>1. /\ files = <<>> /\ i = index /\ Arrived(files) /\ Len(files) = 0
    BY DEF Place
  <1>2. /\ l \in Nat /\ index \in 0 .. l + 1 /\ sent \in Seq(Part) /\ Len(sent) \in Nat
        /\ Len(Delimiter) = l + 2 /\ Delimiter[l + 1] = CR /\ Delimiter[l + 2] = LF
        /\ \A k \in 1..l : Delimiter[k] = Boundary[k]
    <2>1. l \in Nat /\ index \in 0 .. l + 1 /\ sent \in Seq(Part) /\ Len(sent) \in Nat /\ Boundary \in Seq(Byte)
      BY MultipartAssumption DEF ParserTypeOK
    <2> QED
      BY <2>1, LineEndFollows DEF Delimiter
  <1>3. /\ BodyEnd(0) = l /\ \A k \in 1..l : Encode[k] = Boundary[k]
        /\ Len(Encode) = BodyEnd(Len(sent)) + 2 /\ Encode[BodyEnd(Len(sent)) + 1] = "-"
    BY <1>2, Layout
  <1>4. Char = Encode[i + 1]
    BY NextByte
  <1> HIDE DEF l
  <1>5. Len(sent) > 0 => Encode[l + 1] = CR /\ Encode[l + 2] = LF
    <2>1. 0 \in Nat
      OBVIOUS
    <2>2. 0 < Len(sent) => Laid(Encode, BodyEnd(0), sent[0 + 1])
      BY <2>1, PartRead
    <2> QED
      BY <1>2, <1>3, <2>2 DEF Laid
  <1>6. ASSUME Len(sent) > 0 PROVE Char = Delimiter[index + 1]
    <2>1. CASE index < l
      <3>1. index + 1 \in 1..l
        BY <1>2, <2>1
      <3> QED
        BY <1>1, <1>2, <1>3, <1>4, <3>1
    <2>2. CASE index = l
      BY <1>1, <1>2, <1>4, <1>5, <1>6, <2>2
    <2>3. CASE index = l + 1
      <3>1. index + 1 = l + 2
        BY <1>2, <2>3
      <3> QED
        BY <1>1, <1>2, <1>4, <1>5, <1>6, <3>1
    <2> QED
      BY <1>2, <2>1, <2>2, <2>3
  <1>7. sent # <<>> => Len(sent) > 0
    BY <1>2
  \* Of no part at all, the parser refuses the hyphens behind the boundary.
  <1>8. Char = Delimiter[index + 1] /\ index >= l => Len(sent) > 0
    <2>1. SUFFICES ASSUME Char = Delimiter[index + 1], index >= l, Len(sent) = 0 PROVE FALSE
      BY <1>2
    <2>2. Len(Encode) = l + 2 /\ Encode[l + 1] = "-"
      BY <1>3, <2>1
    <2>3. CASE index = l
      BY <1>1, <1>2, <1>4, <2>1, <2>2, <2>3 DEF CR
    <2>4. CASE index = l + 1
      <3>1. Encode[l + 2] = "-"
        <4>1. Encode[BodyEnd(Len(sent)) + 2] = "-"
          BY <1>2, Layout
        <4> QED
          BY <1>3, <2>1, <4>1
      <3>2. index + 1 = l + 2 /\ i + 1 = l + 2
        BY <1>1, <1>2, <2>4
      <3> QED
        BY <1>2, <1>4, <2>1, <3>1, <3>2 DEF LF
    <2> QED
      BY <1>2, <2>1, <2>3, <2>4
  <1>9. ASSUME StartBoundary PROVE Place(state', i', index', first', files')
    <2>1. /\ i' = i + 1 /\ files' = files /\ Char = Delimiter[index + 1]
          /\ \/ index + 1 < l + 2 /\ index' = index + 1 /\ state' = "start_boundary"
             \/ index + 1 = l + 2 /\ state' = "header_field_start"
      BY <1>2, <1>9 DEF StartBoundary, Goto
    <2>2. CASE index' = index + 1 /\ state' = "start_boundary"
      <3>1. Between("start_boundary", i + 1, Len(files))
        BY DEF Between
      <3> QED
        BY <1>1, <2>1, <2>2, <3>1 DEF Place, InHeaders, InData, InPart
    <2>3. CASE index + 1 = l + 2 /\ state' = "header_field_start"
      <3> DEFINE h == sent[0 + 1].head
      <3>1. Len(sent) > 0 /\ i + 1 = BodyEnd(0) + 2
        <4>1. index >= l
          BY <1>2, <2>3
        <4> QED
          BY <1>1, <1>2, <1>3, <1>8, <2>1, <2>3, <4>1
      <3>2. 0 \in Nat /\ 0 < Len(sent)
        BY <3>1
      <3>3. h \in Seq(Byte) /\ Len(h) \in Nat
        <4>1. sent[0 + 1] \in Part
          BY <3>2, PartRead
        <4> QED
          BY <4>1 DEF Part
      <3>4. AtHead("header_field_start", h, (i + 1) - (BodyEnd(0) + 2))
        <4>1. (i + 1) - (BodyEnd(0) + 2) = 0
          BY <1>2, <1>3, <3>1
        <4>2. 0 = Len(h) \/ (0 \in 0 .. Len(h) - 1 /\ LineBegins(h, 0))
          BY <3>3 DEF LineBegins
        <4> QED
          BY <4>1, <4>2 DEF AtHead
      <3>5. ASSUME NEW d, NEW m PROVE AtData("header_field_start", i + 1, index', first', d, m)
        BY DEF AtData, InPart
      <3>6. Between("header_field_start", i + 1, 0)
        BY DEF Between
      <3>7. Inside("header_field_start", i + 1, index', first', 0)
        BY <3>2, <3>4, <3>5 DEF Inside
      <3>8. Place("header_field_start", i + 1, index', first', files)
        BY <1>1, <3>6, <3>7 DEF Place
      <3> QED
        BY <2>1, <2>3, <3>8
    <2> QED
      BY <2>1, <2>2, <2>3
  <1> QED
    BY <1>6, <1>7, <1>9

\* A step that reads a byte leads from one place to another; of what a client
\* made of parts, no byte is refused.
LEMMA PlaceStep ==
    ASSUME ParserInv, Made, Place(state, i, index, first, files), ParserNext
    PROVE  /\ Place(state', i', index', first', files')
           /\ UNCHANGED returned \/ sent = <<>> \/ (returned' = Len(body) /\ i' = Len(body))
  <1>0. ParserTypeOK
    BY DEF ParserInv
  <1>1. CASE StartBoundary
    <2>1. i < Len(body) /\ state \in {"start", "start_boundary"} /\ UNCHANGED returned
      BY <1>1 DEF StartBoundary, Reads, Goto
    <2> QED
      BY <1>0, <1>1, <2>1, StartPlace
  <1>2. CASE HeaderField
    <2>1. i < Len(body) /\ state \in {"header_field_start", "header_field"} /\ UNCHANGED returned
      BY <1>2 DEF HeaderField, Reads, Goto
    <2> QED
      BY <1>0, <1>2, <2>1, FieldPlace
  <1>3. CASE HeaderValue
    <2>1. UNCHANGED returned
      BY <1>3 DEF HeaderValue, Goto
    <2> QED
      BY <1>0, <1>3, <2>1, ValuePlace
  <1>4. CASE LineEnd
    <2>1. /\ i < Len(body) /\ UNCHANGED returned
          /\ state \in {"header_value_almost_done", "headers_almost_done", "part_data_end"}
      BY <1>4 DEF LineEnd, Reads, Goto
    <2> QED
      BY <1>0, <1>4, <2>1, LinePlace
  <1>5. CASE PartData
    <2>1. UNCHANGED returned
      BY <1>5 DEF PartData, Goto
    <2> QED
      BY <1>0, <1>5, <2>1, DataPlace
  <1>6. CASE AlmostBoundary
    <2>1. UNCHANGED returned
      BY <1>6 DEF AlmostBoundary, Goto, ReadAgain
    <2> QED
      BY <1>0, <1>6, <2>1, AlmostBoundaryPlace
  <1>7. CASE PartBoundary
    <2>1. UNCHANGED returned
      BY <1>7 DEF PartBoundary, Goto, ReadAgain
    <2> QED
      BY <1>7, <2>1, PartBoundaryPlace
  <1>8. CASE AfterBoundary
    <2>1. /\ i < Len(body) /\ UNCHANGED returned
          /\ state \in {"part_data_almost_end", "part_data_final_hyphen", "end"}
      BY <1>8 DEF AfterBoundary, Reads, Goto
    <2> QED
      BY <1>0, <1>8, <2>1, AfterPlace
  <1>9. CASE Refuse
    <2>1. UNCHANGED <<state, i, index, first, files>> /\ i < Len(body)
      BY <1>9 DEF Refuse, Reads
    <2>2. sent = <<>>
      <3>1. CASE state \in {"start", "start_boundary"}
        <4>1. Char # Delimiter[index + 1]
          BY <1>9, <3>1 DEF Refuse, Reads
        <4> QED
          BY <1>0, <2>1, <3>1, <4>1, StartPlace
      <3>2. CASE state \in {"header_field_start", "header_field"}
        <4>1. Char \notin {CR, ":", "-"} \cup Letters
          BY <1>9, <3>2 DEF Refuse, Reads
        <4> QED
          BY <1>0, <2>1, <3>2, <4>1, FieldPlace
      <3>3. CASE state \in {"header_value_almost_done", "headers_almost_done", "part_data_end"}
        <4>1. Char # LF
          BY <1>9, <3>3 DEF Refuse, Reads
        <4> QED
          BY <1>0, <2>1, <3>3, <4>1, LinePlace
      <3>4. CASE state \in {"part_data_almost_end", "part_data_final_hyphen"}
        <4>1. /\ state = "part_data_almost_end" => Char \notin {"-", CR}
              /\ state = "part_data_final_hyphen" => Char # "-"
          BY <1>9, <3>4 DEF Refuse, Reads
        <4> QED
          BY <1>0, <2>1, <3>4, <4>1, AfterPlace
      <3> QED
        BY <1>9, <3>1, <3>2, <3>3, <3>4 DEF Refuse, Reads
    <2> QED
      BY <2>1, <2>2
  <1>10. CASE Finish
    BY <1>10 DEF Finish
  <1> QED
    BY <1>1, <1>2, <1>3, <1>4, <1>5, <1>6, <1>7, <1>8, <1>9, <1>10 DEF ParserNext

\* What a body is made of stays what it is.
LEMMA MadeFixed ==
    ASSUME UNCHANGED <<body, sent>>
    PROVE  /\ Encoded' = Encoded /\ Made' = Made
           /\ Place(state', i', index', first', files') => Place(state, i, index, first, files)'
  <1>1. Encoded' = Encoded
    BY DEF Encoded
  <1>2. Encode' = Encode
    BY <1>1 DEF Encode
  <1>3. Made' = Made
    BY <1>2 DEF Made, IsPrefixOf, Writable, HeaderLines, BoundaryAt, NameAhead, LineBegins
  <1>4. ASSUME Arrived(files') PROVE Arrived(files)'
    BY <1>4 DEF Arrived
  <1>5. ASSUME Between(state', i', Len(files')) PROVE Between(state, i, Len(files))'
    BY <1>1, <1>5 DEF Between, BodyEnd
  <1>6. ASSUME Inside(state', i', index', first', Len(files'))
        PROVE  Inside(state, i, index, first, Len(files))'
    <2> DEFINE nf == Len(files)
               p == sent[nf + 1]
               h == BodyEnd(nf) + 2
    <2>1. /\ nf' < Len(sent') /\ AtHead(state', p'.head, i' - h')
          /\ AtData(state', i', index', first', h' + Len(p'.head) + 2, Len(p'.data))
      BY <1>1, <1>6 DEF Inside, BodyEnd
    <2>2. AtHead(state, p.head, i - h)'
      BY <2>1 DEF AtHead, NameAhead, LineBegins
    <2>3. AtData(state, i, index, first, h + Len(p.head) + 2, Len(p.data))'
      BY <2>1 DEF AtData, AtLookalike
    <2> QED
      BY <2>1, <2>2, <2>3 DEF Inside
  <1>7. ASSUME Place(state', i', index', first', files')
        PROVE  Place(state, i, index, first, files)'
    BY <1>4, <1>5, <1>6, <1>7 DEF Place
  <1> QED
    BY <1>1, <1>3, <1>7

LEMMA InitPlaceInv == Init => PlaceInv
  <1> SUFFICES ASSUME Init PROVE PlaceInv
    OBVIOUS
  <1>1. state = "start" /\ files = <<>> /\ i = 0 /\ index = 0 /\ returned = -1
    BY DEF Init, ParserInit
  <1>2. sent \in Seq(Part)
    BY InitRequestInv DEF RequestInv, ParserInv, ParserTypeOK
  <1>3. Arrived(files)
    BY <1>1, <1>2 DEF Arrived
  <1>4. Between(state, i, Len(files))
    BY <1>1 DEF Between
  <1>5. Place(state, i, index, first, files)
    BY <1>1, <1>3, <1>4 DEF Place, InHeaders, InData, InPart
  <1> QED
    BY <1>1, <1>5 DEF PlaceInv

LEMMA InductivePlaceInv == RequestInv /\ PlaceInv /\ [Next]_vars => PlaceInv'
  <1> SUFFICES ASSUME RequestInv, PlaceInv, [Next]_vars PROVE PlaceInv'
    OBVIOUS
  <1>0. ParserInv /\ ParserTypeOK /\ Len(body) \in Nat
    BY DEF RequestInv, ParserInv, ParserTypeOK
  <1>1. CASE UNCHANGED parser
    <2>1. UNCHANGED <<body, sent, i, state, index, first, files, returned>>
      BY <1>1 DEF parser
    <2>2. Made => Place(state', i', index', first', files')
      BY <2>1 DEF PlaceInv
    <2> QED
      BY <2>1, <2>2, MadeFixed DEF PlaceInv
  <1>2. CASE ParserNext
    <2>1. UNCHANGED <<body, sent>> /\ returned = -1
      BY <1>2 DEF ParserNext, StartBoundary, HeaderField, HeaderValue, LineEnd, PartData,
         AlmostBoundary, PartBoundary, AfterBoundary, Refuse, Finish, Goto, ReadAgain, Reads
    <2>2. Made' = Made
          /\ (Place(state', i', index', first', files') => Place(state, i, index, first, files)')
      BY <2>1, MadeFixed
    <2>3. ASSUME Made
          PROVE  /\ Place(state', i', index', first', files')
                 /\ UNCHANGED returned \/ sent = <<>> \/ (returned' = Len(body) /\ i' = Len(body))
      BY <1>0, <1>2, <2>3, PlaceStep DEF PlaceInv
    <2> QED
      BY <2>1, <2>2, <2>3 DEF PlaceInv
  <1>3. CASE SplitTarget
    <2>1. TypeOK /\ SplitInv
      BY DEF RequestInv
    <2>2. parser' = parser
      BY <1>3, <2>1, Rounds
    <2> QED
      BY <1>1, <2>2
  <1>4. CASE ParseBody
    BY <1>2, <1>4 DEF ParseBody
  <1>5. CASE UNCHANGED vars
    <2>1. parser' = parser
      BY <1>5 DEF vars
    <2> QED
      BY <1>1, <2>1
  <1> QED
    BY <1>3, <1>4, <1>5 DEF Next

LEMMA PlaceInvariant == Spec => [](RequestInv /\ PlaceInv)
  <1>1. RequestInv /\ PlaceInv /\ [Next]_vars => (RequestInv /\ PlaceInv)'
    BY InductiveRequestInv, InductivePlaceInv
  <1> QED
    BY <1>1, InitRequestInv, InitPlaceInv, PTL DEF Spec

\* The parts come one behind the other.
LEMMA BodyEndGrows ==
    ASSUME sent \in Seq(Part), NEW k \in 0..Len(sent)
    PROVE  BodyEnd(k) <= BodyEnd(Len(sent))
  <1> DEFINE n == Len(sent)
             T == {j \in Nat : j <= n => BodyEnd(n - j) <= BodyEnd(n)}
  <1>1. n \in Nat /\ \A j \in 0..n : BodyEnd(j) \in Nat
    BY Layout
  <1>2. 0 \in T
    <2>1. n - 0 = n /\ n \in 0..n
      BY <1>1
    <2> QED
      BY <1>1, <2>1
  <1>3. ASSUME NEW j \in Nat, j \in T PROVE j + 1 \in T
    <2>1. CASE j + 1 <= n
      <3> DEFINE q == n - j
      <3>1. q \in 1..n /\ n - (j + 1) = q - 1 /\ j <= n /\ q \in 0..n /\ q - 1 \in 0..n /\ n \in 0..n
        BY <1>1, <2>1
      <3>2. BodyEnd(q) <= BodyEnd(n)
        BY <1>3, <3>1
      <3> HIDE DEF q
      <3>3. BodyEnd(q - 1) <= BodyEnd(q)
        <4>1. BodyEnd(q) = BodyEnd(q - 1) + 6 + Len(sent[q].head) + Len(sent[q].data) + Len(Boundary)
          BY <3>1, Layout
        <4>2. sent[q] \in Part
          BY <3>1
        <4>3. Len(sent[q].head) \in Nat /\ Len(sent[q].data) \in Nat /\ Len(Boundary) \in Nat
          BY <4>2, MultipartAssumption DEF Part
        <4> DEFINE g == Len(sent[q].head)
                   e == Len(sent[q].data)
                   l == Len(Boundary)
                   x == BodyEnd(q)
                   y == BodyEnd(q - 1)
        <4>4. x = y + 6 + g + e + l /\ y \in Nat /\ g \in Nat /\ e \in Nat /\ l \in Nat
          BY <1>1, <3>1, <4>1, <4>3
        <4> HIDE DEF g, e, l, x, y
        <4>5. y <= x
          BY ONLY <4>4
        <4> QED
          BY <4>5 DEF x, y
      <3>4. BodyEnd(q - 1) <= BodyEnd(n)
        BY <1>1, <3>1, <3>2, <3>3, SMTT(60)
      <3> QED
        BY <3>1, <3>4
    <2> QED
      BY <2>1
  <1> HIDE DEF T
  <1>4. Nat \subseteq T
    BY <1>2, <1>3, Induction
  <1>5. n - k \in Nat /\ n - k <= n /\ n - (n - k) = k
    BY <1>1
  <1>6. n - k \in T
    BY <1>4, <1>5
  <1>7. BodyEnd(n - (n - k)) <= BodyEnd(n)
    BY <1>5, <1>6 DEF T
  <1> QED
    BY <1>5, <1>7

\* When the whole body has been read, the parser has seen its end.
LEMMA AllRead ==
    ASSUME ParserTypeOK, Made, Place(state, i, index, first, files), sent # <<>>, i = Len(Encode)
    PROVE  Len(files) = Len(sent)
  <1> DEFINE nf == Len(files)
  <1>1. nf \in Nat /\ i \in Nat /\ index \in 0 .. Len(Boundary) + 1 /\ sent \in Seq(Part)
        /\ Len(sent) \in Nat /\ Len(Boundary) \in Nat /\ state \in States
    BY MultipartAssumption DEF ParserTypeOK
  <1>2. nf <= Len(sent) /\ nf \in 0..Len(sent)
    BY <1>1 DEF Place, Arrived
  <1>3. SUFFICES ASSUME nf < Len(sent) PROVE FALSE
    BY <1>1, <1>2
  <1>4. /\ sent[nf + 1] \in Part /\ BodyEnd(nf) \in Nat /\ Laid(Encode, BodyEnd(nf), sent[nf + 1])
        /\ BodyEnd(nf + 1) = BodyEnd(nf) + 6 + Len(sent[nf + 1].head) + Len(sent[nf + 1].data) + Len(Boundary)
    BY <1>1, <1>3, PartRead
  <1>5. BodyEnd(nf + 1) <= BodyEnd(Len(sent))
    <2>1. nf + 1 \in 1..Len(sent)
      BY <1>1, <1>3
    <2> QED
      BY <1>1, <2>1, BodyEndGrows
  <1> DEFINE p == sent[nf + 1]
             a == BodyEnd(nf)
             m == Len(p.head)
             n == Len(p.data)
             l == Len(Boundary)
             w == Len(Encode)
  <1>6. a \in Nat /\ m \in Nat /\ n \in Nat /\ l \in Nat /\ w \in Nat /\ a + 8 + m + n + l <= w
    <2>1. w = BodyEnd(Len(sent)) + 2 /\ BodyEnd(Len(sent)) \in Nat
      BY <1>1, Layout
    <2>2. m \in Nat /\ n \in Nat
      BY <1>4 DEF Part
    <2> DEFINE b == BodyEnd(nf + 1)
               z == BodyEnd(Len(sent))
    <2>3. /\ a \in Nat /\ l \in Nat /\ z \in Nat /\ b = a + 6 + m + n + l /\ b <= z /\ w = z + 2
          /\ m \in Nat /\ n \in Nat
      BY <1>1, <1>4, <1>5, <2>1, <2>2
    <2> HIDE DEF a, m, n, l, w, b, z
    <2> QED
      BY ONLY <2>3
  <1>n. i = w /\ i \in Nat /\ index \in 0 .. l + 1
    BY <1>1
  <1> HIDE DEF l
  <1>7. CASE state \in {"start", "start_boundary"}
    <2>1. i = index
      BY <1>7 DEF Place
    <2> HIDE DEF a, m, n, w
    <2> QED
      BY ONLY <1>6, <1>n, <2>1
  <1>8. CASE state \in InHeaders
    <2> DEFINE o == i - (a + 2)
    <2>1. AtHead(state, p.head, o) /\ o \in Int
      BY <1>8, HeadRead
    <2> HIDE DEF o
    <2>2. o <= m + 1
      BY <1>6, <1>8, <2>1, SMTT(60) DEF AtHead, InHeaders, NameAhead
    <2> HIDE DEF a, m, n, l, w
    <2>3. i = a + 2 + o
      BY ONLY <1>6, <1>n DEF o
    <2> QED
      BY <1>1, <1>6, <2>1, <2>2, <2>3 DEF w
  <1>9. CASE state \in InData
    <2> DEFINE d == a + 2 + m + 2
    <2>1. AtData(state, i, index, first, d, n)
      BY <1>9, DataRead
    <2> HIDE DEF d
    <2>2. d = a + 2 + m + 2
      BY DEF d
    <2> HIDE DEF a, m, n, w
    <2>3. CASE state = "part_data_start" \/ state = "part_data" \/ state = "part_data_almost_boundary"
      <3>1. i <= d + n + 1
        BY <1>6, <1>n, <2>1, <2>2, <2>3 DEF AtData
      <3> QED
        BY ONLY <1>6, <1>n, <2>2, <3>1
    <2>4. CASE state = "part_data_boundary"
      <3>1. i <= d + n \/ i - index - 2 - d = n
        BY <2>1, <2>4 DEF AtData, AtLookalike
      <3>2. index < l
        BY <2>4 DEF ParserTypeOK, l
      <3> QED
        BY ONLY <1>6, <1>n, <2>2, <3>1, <3>2
    <2> QED
      BY <1>9, <2>3, <2>4 DEF InData, InPart
  <1>10. CASE state \notin {"start", "start_boundary"} \cup InHeaders \cup InData
    <2>1. Between(state, i, nf) /\ nf < Len(sent)
      BY <1>3 DEF Place
    <2>2. i <= a + 1
      BY <1>1, <1>4, <1>10, <2>1 DEF Between, States, InHeaders, InData, InPart
    <2> HIDE DEF a, m, n, w
    <2> QED
      BY ONLY <1>6, <1>n, <2>2
  <1> QED
    BY <1>7, <1>8, <1>9, <1>10

\* Of a body a client made of parts in which no line begins with the boundary,
\* http_request finds every part: multipart_parser.c and the callbacks lose, add and mix up nothing,
\* whatever looks like the boundary, in a cut-off body as in a whole one.
THEOREM FilesAreFoundExactly ==
    Spec => []((\A k \in 1..Len(sent) : Writable(sent[k])) => FilesExact)
  <1>1. RequestInv /\ PlaceInv => ((\A k \in 1..Len(sent) : Writable(sent[k])) => FilesExact)
    <2>1. SUFFICES ASSUME RequestInv, PlaceInv, \A k \in 1..Len(sent) : Writable(sent[k])
                   PROVE  FilesExact
      OBVIOUS
    <2>2. /\ ParserTypeOK /\ sent \in Seq(Part) /\ Len(sent) \in Nat /\ body \in Seq(Byte)
          /\ files \in Seq(Seq(Byte)) /\ Len(files) \in Nat
      BY <2>1 DEF RequestInv, ParserInv, ParserTypeOK
    <2>3. /\ Contents \in Seq(Seq(Byte)) /\ Len(Contents) = Len(sent)
          /\ \A k \in 1..Len(sent) : Contents[k] = sent[k].data
      <3>1. \A k \in 1..Len(sent) : sent[k].data \in Seq(Byte)
        <4>1. \A k \in 1..Len(sent) : sent[k] \in Part
          BY <2>2
        <4> QED
          BY <4>1 DEF Part
      <3>2. Contents \in [1..Len(sent) -> Seq(Byte)]
        BY <3>1 DEF Contents
      <3>3. Contents \in Seq(Seq(Byte))
        BY <2>2, <3>2, FunctionIsSequence
      <3> QED
        BY <2>2, <3>2, <3>3, LenProperties DEF Contents
    <2>4. ASSUME IsPrefixOf(body, Encode) PROVE IsPrefixOf(files, Contents)
      <3>1. Arrived(files)
        BY <2>1, <2>4 DEF PlaceInv, Made, Place
      <3> DEFINE s == SubSeq(Contents, 1, Len(files))
      <3>2. Len(files) \in 0..Len(Contents)
        BY <2>2, <2>3, <3>1 DEF Arrived
      <3>3. s \in Seq(Seq(Byte)) /\ Len(s) = Len(files)
        BY <2>3, <3>2, Cut
      <3>4. \A k \in 1..Len(files) : s[k] = Contents[k]
        BY <2>3, <3>2
      <3> HIDE DEF s
      <3>5. \A k \in 1..Len(files) : files[k] = s[k]
        BY <2>2, <2>3, <3>1, <3>4 DEF Arrived
      <3>6. files = s
        BY <2>2, <3>3, <3>5, SeqEqual
      <3> QED
        BY <3>2, <3>6 DEF IsPrefixOf, s
    <2>5. ASSUME sent # <<>>, body = Encode, returned # -1
          PROVE  files = Contents /\ returned = Len(body)
      <3>1. IsPrefixOf(body, Encode)
        BY <2>2, <2>5 DEF IsPrefixOf
      <3>2. Made
        BY <2>1, <3>1 DEF Made
      <3>3. Place(state, i, index, first, files) /\ returned = Len(body) /\ i = Len(body)
        BY <2>1, <2>5, <3>2 DEF PlaceInv
      <3>4. Len(files) = Len(sent)
        BY <2>2, <2>5, <3>2, <3>3, AllRead
      <3>5. \A k \in 1..Len(files) : files[k] = Contents[k]
        BY <2>3, <3>3, <3>4 DEF Place, Arrived
      <3>6. files = Contents
        BY <2>2, <2>3, <3>4, <3>5, SeqEqual
      <3> QED
        BY <3>3, <3>6
    <2> QED
      BY <2>4, <2>5 DEF FilesExact
  <1> QED
    BY <1>1, PlaceInvariant, PTL

-----------------------------------------------------------------------------
(* base64_encode and base64_decode: how a group of three bytes is four        *)
(* sextets.                                                                   *)

LEMMA Powers == /\ 2 ^ 0 = 1 /\ 2 ^ 1 = 2 /\ 2 ^ 2 = 4 /\ 2 ^ 3 = 8
                /\ 2 ^ 4 = 16 /\ 2 ^ 5 = 32 /\ 2 ^ 6 = 64 /\ 2 ^ 7 = 128
  OBVIOUS

\* The k-th byte of the input, and zero behind the last.
Input(k) == IF k <= Len(plain) THEN plain[k] ELSE 0

LEMMA InputType == ASSUME plain \in Seq(Octet), NEW k \in Nat, k # 0 PROVE Input(k) \in Octet
  <1>1. 0 \in Octet
    BY DEF Octet
  <1>2. k <= Len(plain) => plain[k] \in Octet
    OBVIOUS
  <1> QED
    BY <1>1, <1>2 DEF Input

LEMMA BitAt ==
    ASSUME plain \in Seq(Octet), NEW q \in Nat, NEW r \in 0..7
    PROVE  Bit(8 * q + r) = (Input(q + 1) \div 2 ^ (7 - r)) % 2
  <1>1. (8 * q + r) \div 8 = q /\ (8 * q + r) % 8 = r
    OBVIOUS
  <1>2. Len(plain) \in Nat
    OBVIOUS
  <1>3. CASE q < Len(plain)
    BY <1>1, <1>2, <1>3 DEF Bit, Input
  <1>4. CASE ~(q < Len(plain))
    <2>1. Input(q + 1) = 0 /\ Bit(8 * q + r) = 0
      BY <1>1, <1>2, <1>4 DEF Bit, Input
    <2>2. 2 ^ (7 - r) \in {1, 2, 4, 8, 16, 32, 64, 128}
      <3>1. r \in {0, 1, 2, 3, 4, 5, 6, 7}
        OBVIOUS
      <3> DEFINE n == 7 - r
      <3>2. n \in {0, 1, 2, 3, 4, 5, 6, 7}
        BY <3>1
      <3> HIDE DEF n
      <3>3. 2 ^ n \in {2 ^ 0, 2 ^ 1, 2 ^ 2, 2 ^ 3, 2 ^ 4, 2 ^ 5, 2 ^ 6, 2 ^ 7}
        BY <3>2, Zenon
      <3>4. 2 ^ n \in {1, 2, 4, 8, 16, 32, 64, 128}
        BY ONLY <3>3, Powers
      <3> QED
        BY <3>4 DEF n
    <2>3. \A m \in {1, 2, 4, 8, 16, 32, 64, 128} : (0 \div m) % 2 = 0
      OBVIOUS
    <2> QED
      BY <2>1, <2>2, <2>3
  <1> QED
    BY <1>3, <1>4

\* The eight bits of a byte of the input.
LEMMA BitsOf ==
    ASSUME plain \in Seq(Octet), NEW q \in Nat
    PROVE  /\ Bit(8 * q) = (Input(q + 1) \div 128) % 2
           /\ Bit(8 * q + 1) = (Input(q + 1) \div 64) % 2
           /\ Bit(8 * q + 2) = (Input(q + 1) \div 32) % 2
           /\ Bit(8 * q + 3) = (Input(q + 1) \div 16) % 2
           /\ Bit(8 * q + 4) = (Input(q + 1) \div 8) % 2
           /\ Bit(8 * q + 5) = (Input(q + 1) \div 4) % 2
           /\ Bit(8 * q + 6) = (Input(q + 1) \div 2) % 2
           /\ Bit(8 * q + 7) = Input(q + 1) % 2
  <1> DEFINE b == Input(q + 1)
  <1>1. \A r \in 0..7 : Bit(8 * q + r) = (b \div 2 ^ (7 - r)) % 2
    BY BitAt
  <1>2. b \in Octet
    BY InputType
  <1> HIDE DEF b
  <1>3. 8 * q + 0 = 8 * q /\ b \div 1 = b
    BY <1>2 DEF Octet
  <1>4. Bit(8 * q + 0) = (b \div 2 ^ 7) % 2 /\ Bit(8 * q + 1) = (b \div 2 ^ 6) % 2
    <2>1. 7 - 0 = 7 /\ 7 - 1 = 6
      OBVIOUS
    <2> QED
      BY <1>1, <2>1
  <1>5. Bit(8 * q + 2) = (b \div 2 ^ 5) % 2 /\ Bit(8 * q + 3) = (b \div 2 ^ 4) % 2
    <2>1. 7 - 2 = 5 /\ 7 - 3 = 4
      OBVIOUS
    <2> QED
      BY <1>1, <2>1
  <1>6. Bit(8 * q + 4) = (b \div 2 ^ 3) % 2 /\ Bit(8 * q + 5) = (b \div 2 ^ 2) % 2
    <2>1. 7 - 4 = 3 /\ 7 - 5 = 2
      OBVIOUS
    <2> QED
      BY <1>1, <2>1
  <1>7. Bit(8 * q + 6) = (b \div 2 ^ 1) % 2 /\ Bit(8 * q + 7) = (b \div 2 ^ 0) % 2
    <2>1. 7 - 6 = 1 /\ 7 - 7 = 0
      OBVIOUS
    <2> QED
      BY <1>1, <2>1
  <1> QED
    BY <1>3, <1>4, <1>5, <1>6, <1>7, Powers DEF b

LEMMA SextetsOfBytes ==
    ASSUME NEW a \in Octet, NEW b \in Octet, NEW d \in Octet
    PROVE  /\ 32 * ((a \div 128) % 2) + 16 * ((a \div 64) % 2) + 8 * ((a \div 32) % 2)
              + 4 * ((a \div 16) % 2) + 2 * ((a \div 8) % 2) + ((a \div 4) % 2) = a \div 4
           /\ 32 * ((a \div 2) % 2) + 16 * (a % 2) + 8 * ((b \div 128) % 2)
              + 4 * ((b \div 64) % 2) + 2 * ((b \div 32) % 2) + ((b \div 16) % 2)
              = (a % 4) * 16 + b \div 16
           /\ 32 * ((b \div 8) % 2) + 16 * ((b \div 4) % 2) + 8 * ((b \div 2) % 2)
              + 4 * (b % 2) + 2 * ((d \div 128) % 2) + ((d \div 64) % 2)
              = (b % 16) * 4 + d \div 64
           /\ 32 * ((d \div 32) % 2) + 16 * ((d \div 16) % 2) + 8 * ((d \div 8) % 2)
              + 4 * ((d \div 4) % 2) + 2 * ((d \div 2) % 2) + (d % 2) = d % 64
  <1>1. 32 * ((a \div 128) % 2) + 16 * ((a \div 64) % 2) + 8 * ((a \div 32) % 2)
        + 4 * ((a \div 16) % 2) + 2 * ((a \div 8) % 2) + ((a \div 4) % 2) = a \div 4
    BY SMTT(60) DEF Octet
  <1>2. 32 * ((a \div 2) % 2) + 16 * (a % 2) + 8 * ((b \div 128) % 2)
        + 4 * ((b \div 64) % 2) + 2 * ((b \div 32) % 2) + ((b \div 16) % 2) = (a % 4) * 16 + b \div 16
    BY SMTT(60) DEF Octet
  <1>3. 32 * ((b \div 8) % 2) + 16 * ((b \div 4) % 2) + 8 * ((b \div 2) % 2)
        + 4 * (b % 2) + 2 * ((d \div 128) % 2) + ((d \div 64) % 2) = (b % 16) * 4 + d \div 64
    BY SMTT(60) DEF Octet
  <1>4. 32 * ((d \div 32) % 2) + 16 * ((d \div 16) % 2) + 8 * ((d \div 8) % 2)
        + 4 * ((d \div 4) % 2) + 2 * ((d \div 2) % 2) + (d % 2) = d % 64
    BY SMTT(60) DEF Octet
  <1> QED
    BY <1>1, <1>2, <1>3, <1>4

\* The sextets that RFC 4648 makes of the g-th group are those of Quad.
LEMMA SextetsOfGroup ==
    ASSUME plain \in Seq(Octet), NEW g \in Nat
    PROVE  /\ Sextet(4 * g) = Input(3 * g + 1) \div 4
           /\ Sextet(4 * g + 1) = (Input(3 * g + 1) % 4) * 16 + Input(3 * g + 2) \div 16
           /\ Sextet(4 * g + 2) = (Input(3 * g + 2) % 16) * 4 + Input(3 * g + 3) \div 64
           /\ Sextet(4 * g + 3) = Input(3 * g + 3) % 64
  <1> DEFINE a == Input(3 * g + 1)
             b == Input(3 * g + 2)
             d == Input(3 * g + 3)
  <1>1. a \in Octet /\ b \in Octet /\ d \in Octet
    BY InputType
  <1>2. /\ Bit(8 * (3 * g)) = (a \div 128) % 2 /\ Bit(8 * (3 * g) + 1) = (a \div 64) % 2
        /\ Bit(8 * (3 * g) + 2) = (a \div 32) % 2 /\ Bit(8 * (3 * g) + 3) = (a \div 16) % 2
        /\ Bit(8 * (3 * g) + 4) = (a \div 8) % 2 /\ Bit(8 * (3 * g) + 5) = (a \div 4) % 2
        /\ Bit(8 * (3 * g) + 6) = (a \div 2) % 2 /\ Bit(8 * (3 * g) + 7) = a % 2
    BY BitsOf
  <1>3. /\ Bit(8 * (3 * g + 1)) = (b \div 128) % 2 /\ Bit(8 * (3 * g + 1) + 1) = (b \div 64) % 2
        /\ Bit(8 * (3 * g + 1) + 2) = (b \div 32) % 2 /\ Bit(8 * (3 * g + 1) + 3) = (b \div 16) % 2
        /\ Bit(8 * (3 * g + 1) + 4) = (b \div 8) % 2 /\ Bit(8 * (3 * g + 1) + 5) = (b \div 4) % 2
        /\ Bit(8 * (3 * g + 1) + 6) = (b \div 2) % 2 /\ Bit(8 * (3 * g + 1) + 7) = b % 2
    <2> DEFINE q == 3 * g + 1
    <2>1. q + 1 = 3 * g + 2 /\ q \in Nat
      OBVIOUS
    <2>2. Input(q + 1) = b
      BY <2>1
    <2> HIDE DEF q
    <2>3. /\ Bit(8 * q) = (b \div 128) % 2 /\ Bit(8 * q + 1) = (b \div 64) % 2
          /\ Bit(8 * q + 2) = (b \div 32) % 2 /\ Bit(8 * q + 3) = (b \div 16) % 2
          /\ Bit(8 * q + 4) = (b \div 8) % 2 /\ Bit(8 * q + 5) = (b \div 4) % 2
          /\ Bit(8 * q + 6) = (b \div 2) % 2 /\ Bit(8 * q + 7) = b % 2
      BY <2>1, <2>2, BitsOf
    <2> QED
      BY <2>3 DEF q
  <1>4. /\ Bit(8 * (3 * g + 2)) = (d \div 128) % 2 /\ Bit(8 * (3 * g + 2) + 1) = (d \div 64) % 2
        /\ Bit(8 * (3 * g + 2) + 2) = (d \div 32) % 2 /\ Bit(8 * (3 * g + 2) + 3) = (d \div 16) % 2
        /\ Bit(8 * (3 * g + 2) + 4) = (d \div 8) % 2 /\ Bit(8 * (3 * g + 2) + 5) = (d \div 4) % 2
        /\ Bit(8 * (3 * g + 2) + 6) = (d \div 2) % 2 /\ Bit(8 * (3 * g + 2) + 7) = d % 2
    <2> DEFINE q == 3 * g + 2
    <2>1. q + 1 = 3 * g + 3 /\ q \in Nat
      OBVIOUS
    <2>2. Input(q + 1) = d
      BY <2>1
    <2> HIDE DEF q
    <2>3. /\ Bit(8 * q) = (d \div 128) % 2 /\ Bit(8 * q + 1) = (d \div 64) % 2
          /\ Bit(8 * q + 2) = (d \div 32) % 2 /\ Bit(8 * q + 3) = (d \div 16) % 2
          /\ Bit(8 * q + 4) = (d \div 8) % 2 /\ Bit(8 * q + 5) = (d \div 4) % 2
          /\ Bit(8 * q + 6) = (d \div 2) % 2 /\ Bit(8 * q + 7) = d % 2
      BY <2>1, <2>2, BitsOf
    <2> QED
      BY <2>3 DEF q
  <1> HIDE DEF a, b, d
  <1>5. /\ 6 * (4 * g) = 8 * (3 * g) /\ 6 * (4 * g) + 1 = 8 * (3 * g) + 1
        /\ 6 * (4 * g) + 2 = 8 * (3 * g) + 2 /\ 6 * (4 * g) + 3 = 8 * (3 * g) + 3
        /\ 6 * (4 * g) + 4 = 8 * (3 * g) + 4 /\ 6 * (4 * g) + 5 = 8 * (3 * g) + 5
    OBVIOUS
  <1>6. /\ 6 * (4 * g + 1) = 8 * (3 * g) + 6 /\ 6 * (4 * g + 1) + 1 = 8 * (3 * g) + 7
        /\ 6 * (4 * g + 1) + 2 = 8 * (3 * g + 1) /\ 6 * (4 * g + 1) + 3 = 8 * (3 * g + 1) + 1
        /\ 6 * (4 * g + 1) + 4 = 8 * (3 * g + 1) + 2 /\ 6 * (4 * g + 1) + 5 = 8 * (3 * g + 1) + 3
    OBVIOUS
  <1>7. /\ 6 * (4 * g + 2) = 8 * (3 * g + 1) + 4 /\ 6 * (4 * g + 2) + 1 = 8 * (3 * g + 1) + 5
        /\ 6 * (4 * g + 2) + 2 = 8 * (3 * g + 1) + 6 /\ 6 * (4 * g + 2) + 3 = 8 * (3 * g + 1) + 7
        /\ 6 * (4 * g + 2) + 4 = 8 * (3 * g + 2) /\ 6 * (4 * g + 2) + 5 = 8 * (3 * g + 2) + 1
    OBVIOUS
  <1>8. /\ 6 * (4 * g + 3) = 8 * (3 * g + 2) + 2 /\ 6 * (4 * g + 3) + 1 = 8 * (3 * g + 2) + 3
        /\ 6 * (4 * g + 3) + 2 = 8 * (3 * g + 2) + 4 /\ 6 * (4 * g + 3) + 3 = 8 * (3 * g + 2) + 5
        /\ 6 * (4 * g + 3) + 4 = 8 * (3 * g + 2) + 6 /\ 6 * (4 * g + 3) + 5 = 8 * (3 * g + 2) + 7
    OBVIOUS
  <1>9. Sextet(4 * g) = 32 * ((a \div 128) % 2) + 16 * ((a \div 64) % 2) + 8 * ((a \div 32) % 2)
              + 4 * ((a \div 16) % 2) + 2 * ((a \div 8) % 2) + ((a \div 4) % 2)
    BY ONLY <1>2, <1>5 DEF Sextet
  <1>10. Sextet(4 * g + 1) = 32 * ((a \div 2) % 2) + 16 * (a % 2) + 8 * ((b \div 128) % 2)
              + 4 * ((b \div 64) % 2) + 2 * ((b \div 32) % 2) + ((b \div 16) % 2)
    BY ONLY <1>2, <1>3, <1>6 DEF Sextet
  <1>11. Sextet(4 * g + 2) = 32 * ((b \div 8) % 2) + 16 * ((b \div 4) % 2) + 8 * ((b \div 2) % 2)
              + 4 * (b % 2) + 2 * ((d \div 128) % 2) + ((d \div 64) % 2)
    BY ONLY <1>3, <1>4, <1>7 DEF Sextet
  <1>12. Sextet(4 * g + 3) = 32 * ((d \div 32) % 2) + 16 * ((d \div 16) % 2) + 8 * ((d \div 8) % 2)
              + 4 * ((d \div 4) % 2) + 2 * ((d \div 2) % 2) + (d % 2)
    BY ONLY <1>4, <1>8 DEF Sextet
  <1> QED
    BY <1>1, <1>9, <1>10, <1>11, <1>12, SextetsOfBytes DEF a, b, d

LEMMA SextetType ==
    ASSUME plain \in Seq(Octet), NEW j \in Nat PROVE Sextet(j) \in 0..63
  <1> DEFINE g == j \div 4
  <1>1. g \in Nat /\ (j = 4 * g \/ j = 4 * g + 1 \/ j = 4 * g + 2 \/ j = 4 * g + 3)
    OBVIOUS
  <1> HIDE DEF g
  <1>2. Input(3 * g + 1) \in 0..255 /\ Input(3 * g + 2) \in 0..255 /\ Input(3 * g + 3) \in 0..255
    BY <1>1, InputType, SMTT(60) DEF Octet
  <1>4. /\ Sextet(4 * g) \in 0..63 /\ Sextet(4 * g + 1) \in 0..63
        /\ Sextet(4 * g + 2) \in 0..63 /\ Sextet(4 * g + 3) \in 0..63
    <2> DEFINE a == Input(3 * g + 1)
               b == Input(3 * g + 2)
               d == Input(3 * g + 3)
    <2>1. /\ Sextet(4 * g) = a \div 4 /\ Sextet(4 * g + 1) = (a % 4) * 16 + b \div 16
          /\ Sextet(4 * g + 2) = (b % 16) * 4 + d \div 64 /\ Sextet(4 * g + 3) = d % 64
      BY <1>1, SextetsOfGroup
    <2>3. a \in 0..255 /\ b \in 0..255 /\ d \in 0..255
      BY <1>2
    <2> HIDE DEF a, b, d
    <2>2. a \div 4 \in 0..63 /\ d % 64 \in 0..63
      BY ONLY <2>3
    <2>4. (a % 4) * 16 + b \div 16 \in 0..63
      BY ONLY <2>3
    <2>5. (b % 16) * 4 + d \div 64 \in 0..63
      BY ONLY <2>3
    <2> QED
      BY <2>1, <2>2, <2>4, <2>5
  <1> QED
    BY <1>1, <1>4

\* base64_chars and the search in it.
LEMMA Base64Chars ==
    ASSUME NEW k \in 0..63
    PROVE  /\ Base64Char(k) \in Octet /\ Base64Char(k) # Equals64
           /\ IsBase64(Base64Char(k)) /\ Base64Index(Base64Char(k)) = k
  <1>1. CASE k < 26
    <2>1. Base64Char(k) = k + 65
      BY <1>1 DEF Base64Char, Within
    <2> QED
      BY <1>1, <2>1 DEF Octet, Equals64, IsBase64, IsAlnum, Within, Base64Index
  <1>2. CASE Within(26, k, 51)
    <2>1. Base64Char(k) = k + 71
      BY <1>2 DEF Base64Char, Within
    <2> QED
      BY <1>2, <2>1 DEF Octet, Equals64, IsBase64, IsAlnum, Within, Base64Index
  <1>3. CASE Within(52, k, 61)
    <2>1. Base64Char(k) = k - 4
      BY <1>3 DEF Base64Char, Within
    <2> QED
      BY <1>3, <2>1 DEF Octet, Equals64, IsBase64, IsAlnum, Within, Base64Index
  <1>4. CASE k = 62 \/ k = 63
    <2>1. Base64Char(k) = IF k = 62 THEN 43 ELSE 47
      BY <1>4 DEF Base64Char, Within
    <2> QED
      BY <1>4, <2>1 DEF Octet, Equals64, IsBase64, IsAlnum, Within, Base64Index
  <1> QED
    BY <1>1, <1>2, <1>3, <1>4 DEF Within

\* The j-th character of the input in base 64.
CharOf(j) == Base64Char(Sextet(j - 1))

LEMMA CharOfType ==
    ASSUME plain \in Seq(Octet), NEW j \in Nat, j # 0
    PROVE  /\ CharOf(j) \in Octet /\ CharOf(j) # Equals64 /\ IsBase64(CharOf(j))
           /\ Base64Index(CharOf(j)) = Sextet(j - 1)
  <1>1. Sextet(j - 1) \in 0..63
    BY SextetType
  <1> QED
    BY <1>1, Base64Chars DEF CharOf

LEMMA QuadOfGroup ==
    ASSUME plain \in Seq(Octet), NEW g \in Nat, NEW b,
           b[1] = Input(3 * g + 1), b[2] = Input(3 * g + 2), b[3] = Input(3 * g + 3)
    PROVE  /\ Quad(b) \in Seq(Octet) /\ Len(Quad(b)) = 4
           /\ \A d \in 1..4 : Quad(b)[d] = CharOf(4 * g + d)
  <1>1. /\ (4 * g + 1) - 1 = 4 * g /\ (4 * g + 2) - 1 = 4 * g + 1
        /\ (4 * g + 3) - 1 = 4 * g + 2 /\ (4 * g + 4) - 1 = 4 * g + 3
    OBVIOUS
  <1>2. Quad(b) = <<CharOf(4 * g + 1), CharOf(4 * g + 2), CharOf(4 * g + 3), CharOf(4 * g + 4)>>
    BY <1>1, SextetsOfGroup DEF Quad, CharOf
  <1>3. /\ CharOf(4 * g + 1) \in Octet /\ CharOf(4 * g + 2) \in Octet
        /\ CharOf(4 * g + 3) \in Octet /\ CharOf(4 * g + 4) \in Octet
    BY CharOfType
  <1> QED
    BY <1>2, <1>3

LEMMA TripleOfGroup ==
    ASSUME NEW a \in Octet, NEW b \in Octet, NEW d \in Octet, NEW t,
           t[1] = a \div 4, t[2] = (a % 4) * 16 + b \div 16
    PROVE  /\ Triple(t)[1] = a
           /\ t[3] = (b % 16) * 4 + d \div 64 => Triple(t)[2] = b
           /\ t[3] = (b % 16) * 4 + d \div 64 /\ t[4] = d % 64 => Triple(t)[3] = d
  <1>1. (((a \div 4) * 4) % 256) + ((((a % 4) * 16 + b \div 16) \div 16) % 4) = a
    BY DEF Octet
  <1>2. (((a % 4) * 16 + b \div 16) % 16) * 16 + ((((b % 16) * 4 + d \div 64) \div 4) % 16) = b
    BY DEF Octet
  <1>3. (((b % 16) * 4 + d \div 64) % 4) * 64 + (d % 64) = d
    BY DEF Octet
  <1> QED
    BY <1>1, <1>2, <1>3 DEF Triple

\* While base64_encode runs: g groups have been written, and group holds the
\* bytes read since.
Encodes(g) ==
    /\ group \in Seq(Octet) /\ Len(group) < 3
    /\ read = 3 * g + Len(group) /\ read <= Len(plain)
    /\ \A k \in 1..Len(group) : group[k] = plain[3 * g + k]
    /\ code \in Seq(Octet) /\ Len(code) = 4 * g
    /\ \A j \in 1 .. 4 * g : code[j] = CharOf(j)
    /\ back = <<>>

\* While base64_decode runs: g groups have been written, and group holds the
\* characters read since, none of them a '='.
Decoded(g) ==
    /\ group \in Seq(Octet) /\ Len(group) < 4
    /\ read = 4 * g + Len(group) /\ read <= Len(code)
    /\ \A k \in 1..Len(group) : group[k] = code[4 * g + k]
    /\ back \in Seq(Octet) /\ Len(back) = 3 * g /\ 3 * g <= Len(plain)
    /\ \A k \in 1 .. 3 * g : back[k] = plain[k]
    /\ read # 0 => 6 * (read - 1) < 8 * Len(plain)

LEMMA CodeGrows ==
    ASSUME NEW g \in Nat, code \in Seq(Octet), Len(code) = 4 * g,
           \A j \in 1 .. 4 * g : code[j] = CharOf(j),
           NEW t \in Seq(Octet), \A d \in 1..Len(t) : t[d] = CharOf(4 * g + d)
    PROVE  /\ code \o t \in Seq(Octet) /\ Len(code \o t) = 4 * g + Len(t)
           /\ \A j \in 1 .. 4 * g + Len(t) : (code \o t)[j] = CharOf(j)
  <1>0. Len(code) \in Nat /\ Len(t) \in Nat
    OBVIOUS
  <1>1. code \o t \in Seq(Octet) /\ Len(code \o t) = 4 * g + Len(t)
    BY Joined
  <1>2. ASSUME NEW j \in 1 .. 4 * g + Len(t) PROVE (code \o t)[j] = CharOf(j)
    <2>1. (code \o t)[j] = IF j <= 4 * g THEN code[j] ELSE t[j - 4 * g]
      OBVIOUS
    <2>2. CASE j <= 4 * g
      BY <2>1, <2>2
    <2>3. CASE j > 4 * g
      <3> DEFINE d == j - 4 * g
      <3>1. d \in 1..Len(t) /\ 4 * g + d = j
        BY <2>3
      <3>2. (code \o t)[j] = t[d]
        BY <2>1, <2>3
      <3> HIDE DEF d
      <3>3. t[d] = CharOf(4 * g + d)
        BY <3>1
      <3> QED
        BY <3>1, <3>2, <3>3
    <2> QED
      BY <2>2, <2>3
  <1> QED
    BY <1>1, <1>2

LEMMA EncodeByteStep ==
    ASSUME plain \in Seq(Octet), NEW g \in Nat, Encodes(g), EncodeByte
    PROVE  Encodes(g)' \/ Encodes(g + 1)'
  <1>1. /\ group \in Seq(Octet) /\ Len(group) < 3 /\ read = 3 * g + Len(group)
        /\ read <= Len(plain)
        /\ \A k \in 1..Len(group) : group[k] = plain[3 * g + k]
        /\ code \in Seq(Octet) /\ Len(code) = 4 * g
        /\ \A j \in 1 .. 4 * g : code[j] = CharOf(j)
        /\ back = <<>>
    BY DEF Encodes
  <1>0. Len(group) \in Nat /\ Len(plain) \in Nat
    BY <1>1
  <1>2. read < Len(plain) /\ read' = read + 1 /\ plain' = plain /\ back' = back
    BY DEF EncodeByte
  <1>3. \A j : CharOf(j)' = CharOf(j)
    BY <1>2 DEF CharOf, Sextet, Bit
  <1> DEFINE bytes == Append(group, plain[read + 1])
  <1>4. IF Len(bytes) = 3 THEN code' = code \o Quad(bytes) /\ group' = <<>>
        ELSE group' = bytes /\ code' = code
    BY DEF EncodeByte
  <1>5. /\ bytes \in Seq(Octet) /\ Len(bytes) = Len(group) + 1
        /\ \A k \in 1 .. Len(group) + 1 : bytes[k] = plain[3 * g + k]
    <2>1. plain[read + 1] \in Octet
      BY <1>1, <1>2
    <2>2. bytes \in Seq(Octet) /\ Len(bytes) = Len(group) + 1
          /\ \A k \in 1 .. Len(group) + 1 : bytes[k] = IF k <= Len(group) THEN group[k]
                                                      ELSE plain[read + 1]
      BY <1>1, <2>1
    <2>3. ASSUME NEW k \in 1 .. Len(group) + 1 PROVE bytes[k] = plain[3 * g + k]
      <3>1. CASE k <= Len(group)
        BY <1>1, <2>2, <3>1
      <3>2. CASE k = Len(group) + 1
        <4>1. 3 * g + k = read + 1
          BY <1>1, <3>2
        <4> QED
          BY <1>1, <2>2, <3>2, <4>1
      <3> QED
        BY <1>1, <3>1, <3>2
    <2> QED
      BY <2>2, <2>3
  <1> HIDE DEF bytes
  <1>6. CASE Len(bytes) # 3
    <2>1. group' = bytes /\ code' = code
      BY <1>4, <1>6
    <2>2. Len(group') < 3 /\ read' = 3 * g + Len(group') /\ read' <= Len(plain')
      BY <1>0, <1>1, <1>2, <1>5, <1>6, <2>1
    <2>3. group' \in Seq(Octet) /\ \A k \in 1..Len(group') : group'[k] = plain'[3 * g + k]
      BY <1>2, <1>5, <2>1
    <2> QED
      BY <1>1, <1>2, <1>3, <2>1, <2>2, <2>3 DEF Encodes
  <1>7. CASE Len(bytes) = 3
    <2>1. code' = code \o Quad(bytes) /\ group' = <<>> /\ Len(group) = 2
      <3>0. Len(bytes) = Len(group) + 1
        BY <1>5
      <3>3. \A n \in Nat : n + 1 = 3 => n = 2
        OBVIOUS
      <3>1. Len(group) = 2
        BY ONLY <1>0, <1>7, <3>0, <3>3
      <3>2. code' = code \o Quad(bytes) /\ group' = <<>>
        BY <1>4, <1>7
      <3> QED
        BY <3>1, <3>2
    <2>2. bytes[1] = Input(3 * g + 1) /\ bytes[2] = Input(3 * g + 2) /\ bytes[3] = Input(3 * g + 3)
      BY <1>1, <1>2, <1>5, <2>1 DEF Input
    <2>3. /\ Quad(bytes) \in Seq(Octet) /\ Len(Quad(bytes)) = 4
          /\ \A d \in 1..4 : Quad(bytes)[d] = CharOf(4 * g + d)
      BY <2>2, QuadOfGroup
    <2> DEFINE t == Quad(bytes)
    <2> HIDE DEF t
    <2>4. t \in Seq(Octet) /\ Len(t) = 4 /\ \A d \in 1..Len(t) : t[d] = CharOf(4 * g + d)
      BY <2>3 DEF t
    <2>5. /\ code \o t \in Seq(Octet) /\ Len(code \o t) = 4 * g + 4
          /\ \A j \in 1 .. 4 * g + 4 : (code \o t)[j] = CharOf(j)
      BY <1>1, <2>4, CodeGrows, ZenonT(60)
    <2>6. code' = code \o t
      BY <2>1 DEF t
    <2>7. 4 * (g + 1) = 4 * g + 4 /\ read' = 3 * (g + 1) + 0 /\ read' <= Len(plain')
      BY <1>1, <1>2, <2>1
    <2>8. group' \in Seq(Octet) /\ Len(group') = 0
      BY <2>1
    <2>9. code' \in Seq(Octet) /\ Len(code') = 4 * (g + 1)
          /\ \A j \in 1 .. 4 * (g + 1) : code'[j] = CharOf(j)'
      BY <1>3, <2>5, <2>6, <2>7
    <2>10. /\ Len(group') < 3 /\ read' = 3 * (g + 1) + Len(group')
           /\ \A k \in 1..Len(group') : group'[k] = plain'[3 * (g + 1) + k]
      BY <2>7, <2>8
    <2> QED
      BY <1>1, <1>2, <2>7, <2>8, <2>9, <2>10 DEF Encodes
  <1> QED
    BY <1>6, <1>7

LEMMA OctetsJoin ==
    ASSUME NEW p \in Seq(Octet), NEW q \in Seq(Octet)
    PROVE  /\ p \o q \in Seq(Octet) /\ Len(p \o q) = Len(p) + Len(q)
           /\ Len(p) \in Nat /\ Len(q) \in Nat
           /\ \A j \in 1 .. Len(p) + Len(q) : (p \o q)[j] = IF j <= Len(p) THEN p[j] ELSE q[j - Len(p)]
  OBVIOUS

LEMMA OctetsBegin ==
    ASSUME NEW p \in Seq(Octet), NEW n \in 0..Len(p)
    PROVE  /\ SubSeq(p, 1, n) \in Seq(Octet) /\ Len(SubSeq(p, 1, n)) = n
           /\ \A k \in 1..n : SubSeq(p, 1, n)[k] = p[k]
  OBVIOUS

\* Code that has the characters of RFC 4648 is the base 64 of the input.
LEMMA CodeIs ==
    ASSUME plain \in Seq(Octet), NEW t \in Seq(Octet), Len(t) = 4 * ((Len(plain) + 2) \div 3),
           \A j \in 1..Len(t) : t[j] = IF 6 * (j - 1) < 8 * Len(plain) THEN CharOf(j) ELSE Equals64
    PROVE  t = Rfc4648
  <1> DEFINE n == 4 * ((Len(plain) + 2) \div 3)
  <1>1. t = [j \in 1..n |-> t[j]]
    BY SeqDef
  <1>2. Rfc4648 = [j \in 1..n |-> IF 6 * (j - 1) < 8 * Len(plain) THEN CharOf(j) ELSE Equals64]
    BY DEF Rfc4648, CharOf
  <1> HIDE DEF n
  <1>3. Len(t) = n
    BY DEF n
  <1> QED
    BY <1>1, <1>2, <1>3

\* What base64_encode returns.
LEMMA EncodeRestStep ==
    ASSUME plain \in Seq(Octet), NEW g \in Nat, Encodes(g), EncodeRest
    PROVE  code' = Rfc4648 /\ code' \in Seq(Octet)
  <1>1. /\ group \in Seq(Octet) /\ Len(group) < 3 /\ read = 3 * g + Len(group)
        /\ \A k \in 1..Len(group) : group[k] = plain[3 * g + k]
        /\ code \in Seq(Octet) /\ Len(code) = 4 * g
        /\ \A j \in 1 .. 4 * g : code[j] = CharOf(j)
    BY DEF Encodes
  <1> DEFINE m == Len(group)
             b == Filled(group, 3)
             t == SubSeq(Quad(b), 1, m + 1)
             e == [k \in 1 .. 3 - m |-> Equals64]
  <1>2. m \in {0, 1, 2} /\ Len(plain) = 3 * g + m /\ Len(plain) \in Nat
    <2>1. m \in Nat /\ m < 3 /\ Len(plain) \in Nat
      BY <1>1
    <2>2. read = Len(plain) /\ read = 3 * g + m
      BY <1>1 DEF EncodeRest
    <2> HIDE DEF m
    <2> QED
      BY ONLY <2>1, <2>2
  <1>3. code' = IF group = <<>> THEN code ELSE (code \o t) \o e
    BY DEF EncodeRest
  <1>4. CASE m = 0
    <2>1. code' = code
      <3>1. group = <<>>
        BY <1>1, <1>4, EmptySeq
      <3> QED
        BY <1>3, <3>1
    <2>2. Len(code) = 4 * ((Len(plain) + 2) \div 3)
      BY <1>1, <1>2, <1>4
    <2>3. \A j \in 1..Len(code) : 6 * (j - 1) < 8 * Len(plain)
      BY <1>1, <1>2, <1>4
    <2>4. code = Rfc4648
      BY <1>1, <2>2, <2>3, CodeIs
    <2> QED
      BY <1>1, <2>1, <2>4
  <1>5. CASE m # 0
    <2>1. b[1] = Input(3 * g + 1) /\ b[2] = Input(3 * g + 2) /\ b[3] = Input(3 * g + 3)
      BY <1>1, <1>2, <1>5 DEF Filled, Input
    <2>2. /\ Quad(b) \in Seq(Octet) /\ Len(Quad(b)) = 4
          /\ \A d \in 1..4 : Quad(b)[d] = CharOf(4 * g + d)
      BY <2>1, QuadOfGroup
    <2> DEFINE q == Quad(b)
    <2>3. t \in Seq(Octet) /\ Len(t) = m + 1 /\ \A d \in 1..Len(t) : t[d] = CharOf(4 * g + d)
      <3>1. q \in Seq(Octet) /\ Len(q) = 4 /\ \A d \in 1..4 : q[d] = CharOf(4 * g + d)
        BY <2>2
      <3> HIDE DEF q, m
      <3>2. /\ SubSeq(q, 1, m + 1) \in Seq(Octet) /\ Len(SubSeq(q, 1, m + 1)) = m + 1
            /\ \A d \in 1 .. m + 1 : SubSeq(q, 1, m + 1)[d] = q[d]
        <4>1. m + 1 \in 0..Len(q)
          BY <1>2, <3>1
        <4> QED
          BY <3>1, <4>1, OctetsBegin
      <3>3. \A d \in 1 .. m + 1 : d \in 1..4
        BY <1>2
      <3> QED
        BY <3>1, <3>2, <3>3 DEF q
    <2>4. e \in Seq(Octet) /\ Len(e) = 3 - m /\ \A k \in 1 .. 3 - m : e[k] = Equals64
      <3>1. Equals64 \in Octet /\ 3 - m \in Nat
        <4>1. Equals64 \in Octet
          BY DEF Equals64, Octet
        <4>2. \A x \in {0, 1, 2} : 3 - x \in Nat
          OBVIOUS
        <4> HIDE DEF m
        <4> QED
          BY <1>2, <4>1, <4>2
      <3>2. e \in [1 .. 3 - m -> Octet]
        BY <3>1
      <3> HIDE DEF m
      <3>3. e \in Seq(Octet)
        BY <3>1, <3>2, FunctionIsSequence
      <3> QED
        BY <3>1, <3>2, <3>3
    <2> HIDE DEF t, e, b
    <2>5. /\ code \o t \in Seq(Octet) /\ Len(code \o t) = 4 * g + Len(t)
          /\ \A j \in 1 .. 4 * g + Len(t) : (code \o t)[j] = CharOf(j)
      BY <1>1, <2>3, CodeGrows
    <2> DEFINE u == code \o t
               r == u \o e
    <2>6. group # <<>>
      BY <1>5
    <2>7. code' = r
      BY <1>3, <2>6
    <2>8. u \in Seq(Octet) /\ Len(u) = 4 * g + m + 1 /\ \A j \in 1 .. 4 * g + m + 1 : u[j] = CharOf(j)
      BY <1>2, <2>3, <2>5
    <2> HIDE DEF u, m
    <2>9. r \in Seq(Octet) /\ Len(r) = Len(u) + Len(e)
          /\ \A j \in 1 .. Len(u) + Len(e) : r[j] = IF j <= Len(u) THEN u[j] ELSE e[j - Len(u)]
      BY <2>4, <2>8, OctetsJoin
    <2>10. Len(r) = 4 * g + 4
      BY <1>2, <2>4, <2>8, <2>9
    <2>11. ASSUME NEW j \in 1 .. 4 * g + 4
           PROVE  r[j] = IF 6 * (j - 1) < 8 * Len(plain) THEN CharOf(j) ELSE Equals64
      <3>1. 6 * (j - 1) < 8 * Len(plain) <=> j <= 4 * g + m + 1
        BY <1>2, <1>5
      <3>2. CASE j <= 4 * g + m + 1
        <4>1. j \in 1 .. 4 * g + m + 1 /\ j \in 1 .. Len(u) + Len(e) /\ j <= Len(u)
          BY <1>2, <2>4, <2>8, <3>2
        <4> QED
          BY <2>8, <2>9, <3>1, <3>2, <4>1
      <3>3. CASE ~(j <= 4 * g + m + 1)
        <4>1. j \in 1 .. Len(u) + Len(e) /\ ~(j <= Len(u)) /\ j - Len(u) \in 1 .. 3 - m
          BY <1>2, <2>4, <2>8, <3>3
        <4> QED
          BY <2>4, <2>9, <3>1, <3>3, <4>1
      <3> QED
        BY <3>2, <3>3
    <2>12. 4 * g + 4 = 4 * ((Len(plain) + 2) \div 3)
      <3>1. (Len(plain) + 2) \div 3 = g + 1
        BY <1>2, <1>5
      <3> QED
        BY <3>1
    <2> HIDE DEF r
    <2>13. r = Rfc4648
      BY <2>9, <2>10, <2>11, <2>12, CodeIs
    <2> QED
      BY <2>7, <2>9, <2>13
  <1> QED
    BY <1>4, <1>5

LEMMA Rfc4648Is ==
    ASSUME plain \in Seq(Octet)
    PROVE  /\ Rfc4648 \in Seq(Octet) /\ Len(Rfc4648) = 4 * ((Len(plain) + 2) \div 3)
           /\ \A j \in 1..Len(Rfc4648) :
                Rfc4648[j] = IF 6 * (j - 1) < 8 * Len(plain) THEN CharOf(j) ELSE Equals64
  <1> DEFINE n == 4 * ((Len(plain) + 2) \div 3)
             f == [j \in 1..n |-> IF 6 * (j - 1) < 8 * Len(plain) THEN CharOf(j) ELSE Equals64]
  <1>1. n \in Nat
    OBVIOUS
  <1>2. ASSUME NEW j \in 1..n
        PROVE  (IF 6 * (j - 1) < 8 * Len(plain) THEN CharOf(j) ELSE Equals64) \in Octet
    <2>1. Equals64 \in Octet
      BY DEF Equals64, Octet
    <2>2. j \in Nat /\ j # 0
      BY <1>1
    <2> QED
      BY <2>1, <2>2, CharOfType
  <1>3. Rfc4648 = f
    BY DEF Rfc4648, CharOf
  <1>4. f \in [1..n -> Octet]
    BY <1>2
  <1>5. f \in Seq(Octet) /\ Len(f) = n
    <2> HIDE DEF n, f
    <2> QED
      BY <1>1, <1>4, FunctionIsSequence, LenProperties
  <1> QED
    BY <1>3, <1>5

\* A character of the code is taken for one of base 64 iff it is not padding.
LEMMA CodeCharIs ==
    ASSUME plain \in Seq(Octet), code = Rfc4648, NEW j \in 1..Len(code)
    PROVE  /\ IsBase64(code[j]) <=> 6 * (j - 1) < 8 * Len(plain)
           /\ 6 * (j - 1) < 8 * Len(plain) => code[j] = CharOf(j) /\ Base64Index(code[j]) = Sextet(j - 1)
  <1>1. code[j] = IF 6 * (j - 1) < 8 * Len(plain) THEN CharOf(j) ELSE Equals64
    BY Rfc4648Is
  <1>2. ~IsBase64(Equals64)
    BY DEF IsBase64, IsAlnum, Within, Equals64
  <1>3. j \in Nat /\ j # 0
    BY Rfc4648Is
  <1> QED
    BY <1>1, <1>2, <1>3, CharOfType

\* The sextets of a group that has been read are those of three bytes.
LEMMA IndicesOfGroup ==
    ASSUME plain \in Seq(Octet), code = Rfc4648, NEW g \in Nat, NEW t \in Seq(Octet),
           4 * g + Len(t) <= Len(code), Len(t) <= 4,
           \A k \in 1..Len(t) : t[k] = code[4 * g + k],
           Len(t) # 0 => 6 * (4 * g + Len(t) - 1) < 8 * Len(plain)
    PROVE  /\ Len(Indices(t)) = Len(t)
           /\ Len(t) >= 1 => Indices(t)[1] = Input(3 * g + 1) \div 4
           /\ Len(t) >= 2 => Indices(t)[2] = (Input(3 * g + 1) % 4) * 16 + Input(3 * g + 2) \div 16
           /\ Len(t) >= 3 => Indices(t)[3] = (Input(3 * g + 2) % 16) * 4 + Input(3 * g + 3) \div 64
           /\ Len(t) >= 4 => Indices(t)[4] = Input(3 * g + 3) % 64
  <1> DEFINE m == Len(t)
  <1>1. m \in Nat /\ Len(plain) \in Nat /\ Len(code) \in Nat
    BY Rfc4648Is
  <1>2. ASSUME NEW k \in 1..m PROVE Indices(t)[k] = Sextet(4 * g + k - 1)
    <2>1. 4 * g + k \in 1..Len(code) /\ 6 * ((4 * g + k) - 1) < 8 * Len(plain)
      BY <1>1, SMTT(60)
    <2>2. Base64Index(code[4 * g + k]) = Sextet((4 * g + k) - 1)
      BY <2>1, CodeCharIs
    <2>3. Indices(t)[k] = Base64Index(t[k])
      BY DEF Indices
    <2> QED
      BY <2>2, <2>3
  <1>3. Len(Indices(t)) = m
    <2>1. Indices(t) = [k \in 1..m |-> Base64Index(t[k])]
      BY DEF Indices
    <2> QED
      BY <1>1, <2>1
  <1>4. /\ 4 * g + 1 - 1 = 4 * g /\ 4 * g + 2 - 1 = 4 * g + 1
        /\ 4 * g + 3 - 1 = 4 * g + 2 /\ 4 * g + 4 - 1 = 4 * g + 3
    OBVIOUS
  <1>5. ASSUME Len(t) >= 1 PROVE Indices(t)[1] = Input(3 * g + 1) \div 4
    <2>1. 1 \in 1..m
      BY <1>1, <1>5
    <2>2. Indices(t)[1] = Sextet(4 * g)
      BY <1>2, <1>4, <2>1
    <2> QED
      BY <2>2, SextetsOfGroup
  <1>6. ASSUME Len(t) >= 2
        PROVE  Indices(t)[2] = (Input(3 * g + 1) % 4) * 16 + Input(3 * g + 2) \div 16
    <2>1. 2 \in 1..m
      BY <1>1, <1>6
    <2>2. Indices(t)[2] = Sextet(4 * g + 1)
      BY <1>2, <1>4, <2>1
    <2> QED
      BY <2>2, SextetsOfGroup
  <1>7. ASSUME Len(t) >= 3
        PROVE  Indices(t)[3] = (Input(3 * g + 2) % 16) * 4 + Input(3 * g + 3) \div 64
    <2>1. 3 \in 1..m
      BY <1>1, <1>7
    <2>2. Indices(t)[3] = Sextet(4 * g + 2)
      BY <1>2, <1>4, <2>1
    <2> QED
      BY <2>2, SextetsOfGroup
  <1>8. ASSUME Len(t) >= 4 PROVE Indices(t)[4] = Input(3 * g + 3) % 64
    <2>1. 4 \in 1..m
      BY <1>1, <1>8
    <2>2. Indices(t)[4] = Sextet(4 * g + 3)
      BY <1>2, <1>4, <2>1
    <2> QED
      BY <2>2, SextetsOfGroup
  <1> QED
    BY <1>3, <1>5, <1>6, <1>7, <1>8

LEMMA DecodeCharStep ==
    ASSUME plain \in Seq(Octet), code = Rfc4648, NEW g \in Nat, Decoded(g), DecodeChar
    PROVE  Decoded(g)' \/ Decoded(g + 1)'
  <1>1. /\ group \in Seq(Octet) /\ Len(group) < 4
        /\ read = 4 * g + Len(group) /\ read <= Len(code)
        /\ \A k \in 1..Len(group) : group[k] = code[4 * g + k]
        /\ back \in Seq(Octet) /\ Len(back) = 3 * g /\ 3 * g <= Len(plain)
        /\ \A k \in 1 .. 3 * g : back[k] = plain[k]
    BY DEF Decoded
  <1>2. /\ read < Len(code) /\ IsBase64(code[read + 1]) /\ read' = read + 1
        /\ plain' = plain /\ code' = code
    BY DEF DecodeChar, Decodes
  <1>3. code \in Seq(Octet) /\ Len(code) \in Nat /\ Len(group) \in Nat /\ Len(plain) \in Nat
    BY <1>1, Rfc4648Is
  <1>4. code[read + 1] \in Octet /\ 6 * read < 8 * Len(plain)
    <2>1. read + 1 \in 1..Len(code) /\ (read + 1) - 1 = read
      BY <1>1, <1>2, <1>3
    <2> QED
      BY <1>2, <1>3, <2>1, CodeCharIs, SMTT(60)
  <1> DEFINE t == Append(group, code[read + 1])
  <1>5. IF Len(t) = 4 THEN back' = back \o Triple(Indices(t)) /\ group' = <<>>
        ELSE group' = t /\ back' = back
    BY DEF DecodeChar
  <1>6. /\ t \in Seq(Octet) /\ Len(t) = Len(group) + 1
        /\ \A k \in 1 .. Len(group) + 1 : t[k] = code[4 * g + k]
    <2>1. t \in Seq(Octet) /\ Len(t) = Len(group) + 1
          /\ \A k \in 1 .. Len(group) + 1 : t[k] = IF k <= Len(group) THEN group[k]
                                                  ELSE code[read + 1]
      BY <1>1, <1>4
    <2>2. ASSUME NEW k \in 1 .. Len(group) + 1 PROVE t[k] = code[4 * g + k]
      <3>1. CASE k <= Len(group)
        BY <1>1, <2>1, <3>1
      <3>2. CASE k = Len(group) + 1
        <4>1. 4 * g + k = read + 1
          BY <1>1, <1>3, <3>2
        <4> QED
          BY <1>3, <2>1, <3>2, <4>1
      <3> QED
        BY <1>3, <3>1, <3>2
    <2> QED
      BY <2>1, <2>2
  <1> HIDE DEF t
  <1>7. /\ 4 * g + Len(t) = read + 1 /\ 4 * g + Len(t) <= Len(code) /\ Len(t) <= 4 /\ Len(t) \in Nat
        /\ 6 * (4 * g + Len(t) - 1) < 8 * Len(plain)
    <2>1. read = 4 * g + Len(group) /\ Len(group) < 4 /\ Len(t) = Len(group) + 1
      BY <1>1, <1>6
    <2> QED
      BY <1>2, <1>3, <1>4, <2>1
  <1>8. CASE Len(t) # 4
    <2>1. group' = t /\ back' = back
      BY <1>5, <1>8
    <2>2. /\ Len(group') < 4 /\ read' = 4 * g + Len(group') /\ read' <= Len(code')
          /\ 6 * (read' - 1) < 8 * Len(plain')
      <3>1. Len(t) < 4
        <4> DEFINE l == Len(t)
        <4>1. l \in Nat /\ l <= 4 /\ l # 4
          BY <1>7, <1>8
        <4> HIDE DEF l
        <4>2. l < 4
          BY ONLY <4>1
        <4> QED
          BY <4>2 DEF l
      <3>2. Len(group') = Len(t)
        BY <2>1
      <3>3. read' = 4 * g + Len(t)
        BY <1>2, <1>7
      <3>4. read' <= Len(code') /\ 4 * g + Len(t) - 1 = read' - 1
        BY <1>2, <1>7, <3>3
      <3> QED
        BY <1>2, <1>7, <3>1, <3>2, <3>3, <3>4
    <2>3. group' \in Seq(Octet) /\ \A k \in 1..Len(group') : group'[k] = code'[4 * g + k]
      BY <1>2, <1>6, <2>1
    <2> QED
      BY <1>1, <1>2, <2>1, <2>2, <2>3 DEF Decoded
  <1>9. CASE Len(t) = 4
    <2> DEFINE a == Input(3 * g + 1)
               b == Input(3 * g + 2)
               d == Input(3 * g + 3)
               x == Indices(t)
               y == Triple(x)
    <2>1. 3 * g + 3 <= Len(plain)
      BY <1>3, <1>7, <1>9
    <2>2. a = plain[3 * g + 1] /\ b = plain[3 * g + 2] /\ d = plain[3 * g + 3]
      BY <1>3, <2>1 DEF Input
    <2>3. a \in Octet /\ b \in Octet /\ d \in Octet
      BY InputType
    <2>4. /\ x[1] = a \div 4 /\ x[2] = (a % 4) * 16 + b \div 16
          /\ x[3] = (b % 16) * 4 + d \div 64 /\ x[4] = d % 64
      <3>1. \A k \in 1..Len(t) : t[k] = code[4 * g + k]
        BY <1>6
      <3>2. Len(t) >= 1 /\ Len(t) >= 2 /\ Len(t) >= 3 /\ Len(t) >= 4
        BY <1>9
      <3> QED
        BY <1>6, <1>7, <3>1, <3>2, IndicesOfGroup
    <2> HIDE DEF a, b, d, x
    <2>5. y[1] = a /\ y[2] = b /\ y[3] = d
      BY <2>3, <2>4, TripleOfGroup
    <2>6. y \in Seq(Octet) /\ Len(y) = 3
      <3>1. y = <<y[1], y[2], y[3]>>
        BY DEF Triple
      <3> HIDE DEF y
      <3>2. y = <<a, b, d>>
        BY <2>5, <3>1
      <3> QED
        BY <2>3, <3>2
    <2>7. back' = back \o y /\ group' = <<>>
      BY <1>5, <1>9 DEF x
    <2> HIDE DEF y
    <2>8. /\ back \o y \in Seq(Octet) /\ Len(back \o y) = Len(back) + Len(y)
          /\ \A j \in 1 .. Len(back) + Len(y) :
                (back \o y)[j] = IF j <= Len(back) THEN back[j] ELSE y[j - Len(back)]
      BY <1>1, <2>6, OctetsJoin
    <2>9. Len(back) = 3 * g /\ Len(y) = 3 /\ 3 * (g + 1) = 3 * g + 3
      BY <1>1, <2>6
    <2>10. ASSUME NEW k \in 1 .. 3 * (g + 1) PROVE back'[k] = plain[k]
      <3>1. k \in 1 .. Len(back) + Len(y)
        BY <2>9
      <3>2. CASE k <= 3 * g
        <4>1. k \in 1 .. 3 * g /\ k <= Len(back)
          BY <2>9, <3>2
        <4> QED
          BY <1>1, <2>7, <2>8, <3>1, <4>1
      <3>3. CASE ~(k <= 3 * g)
        <4>1. /\ ~(k <= Len(back)) /\ k - Len(back) = k - 3 * g
              /\ k = 3 * g + 1 \/ k = 3 * g + 2 \/ k = 3 * g + 3
          BY <2>9, <3>3
        <4>2. back'[k] = y[k - 3 * g]
          BY <2>7, <2>8, <3>1, <4>1
        <4>3. 3 * g + 1 - 3 * g = 1 /\ 3 * g + 2 - 3 * g = 2 /\ 3 * g + 3 - 3 * g = 3
          OBVIOUS
        <4>4. CASE k = 3 * g + 1
          BY <2>2, <2>5, <4>2, <4>3, <4>4
        <4>5. CASE k = 3 * g + 2
          BY <2>2, <2>5, <4>2, <4>3, <4>5
        <4>6. CASE k = 3 * g + 3
          BY <2>2, <2>5, <4>2, <4>3, <4>6
        <4> QED
          BY <4>1, <4>4, <4>5, <4>6
      <3> QED
        BY <3>2, <3>3
    <2>11. back' \in Seq(Octet) /\ Len(back') = 3 * (g + 1) /\ 3 * (g + 1) <= Len(plain')
      BY <1>2, <2>1, <2>7, <2>8, <2>9
    <2>12. group' \in Seq(Octet) /\ Len(group') = 0
           /\ \A k \in 1..Len(group') : group'[k] = code'[4 * (g + 1) + k]
      BY <2>7
    <2>13. /\ read' = 4 * (g + 1) + Len(group') /\ read' <= Len(code') /\ Len(group') < 4
           /\ 6 * (read' - 1) < 8 * Len(plain')
      <3>1. Len(group') = 0
        BY <2>12
      <3> QED
        BY <1>2, <1>3, <1>4, <1>7, <1>9, <3>1
    <2> QED
      BY <1>2, <2>10, <2>11, <2>12, <2>13 DEF Decoded
  <1> QED
    BY <1>8, <1>9

LEMMA FirstOfThree ==
    ASSUME NEW u, NEW v, NEW w
    PROVE  SubSeq(<<u, v, w>>, 1, 1) = <<u>> /\ SubSeq(<<u, v, w>>, 1, 2) = <<u, v>>
  <1> DEFINE s == <<u, v, w>>
             S == {u, v, w}
  <1>1. s \in Seq(S) /\ Len(s) = 3
    OBVIOUS
  <1>2. s[1] = u /\ s[2] = v
    OBVIOUS
  <1> HIDE DEF s, S
  <1>3. /\ SubSeq(s, 1, 1) \in Seq(S) /\ Len(SubSeq(s, 1, 1)) = 1 /\ SubSeq(s, 1, 1)[1] = s[1]
    BY <1>1
  <1>4. /\ SubSeq(s, 1, 2) \in Seq(S) /\ Len(SubSeq(s, 1, 2)) = 2
        /\ SubSeq(s, 1, 2)[1] = s[1] /\ SubSeq(s, 1, 2)[2] = s[2]
    BY <1>1
  <1>5. SubSeq(s, 1, 1) = <<u>>
    <2>1. <<u>> \in Seq(S) /\ Len(<<u>>) = 1 /\ <<u>>[1] = u
      BY DEF S
    <2> HIDE DEF s
    <2>2. \A k \in 1..1 : SubSeq(s, 1, 1)[k] = <<u>>[k]
      BY <1>2, <1>3, <2>1
    <2> QED
      BY <1>3, <2>1, <2>2, SeqEqual
  <1>6. SubSeq(s, 1, 2) = <<u, v>>
    <2>1. <<u, v>> \in Seq(S) /\ Len(<<u, v>>) = 2 /\ <<u, v>>[1] = u /\ <<u, v>>[2] = v
      BY DEF S
    <2> HIDE DEF s
    <2>2. \A k \in 1..2 : SubSeq(s, 1, 2)[k] = <<u, v>>[k]
      <3>1. \A k \in 1..2 : k = 1 \/ k = 2
        OBVIOUS
      <3> QED
        BY <1>2, <1>4, <2>1, <3>1
    <2> QED
      BY <1>4, <2>1, <2>2, SeqEqual
  <1> QED
    BY <1>5, <1>6 DEF s

\* What base64_decode returns.
LEMMA DecodeRestStep ==
    ASSUME plain \in Seq(Octet), code = Rfc4648, NEW g \in Nat, Decoded(g), DecodeRest
    PROVE  back' = plain
  <1>1. /\ group \in Seq(Octet) /\ Len(group) < 4
        /\ read = 4 * g + Len(group) /\ read <= Len(code)
        /\ \A k \in 1..Len(group) : group[k] = code[4 * g + k]
        /\ back \in Seq(Octet) /\ Len(back) = 3 * g /\ 3 * g <= Len(plain)
        /\ \A k \in 1 .. 3 * g : back[k] = plain[k]
        /\ read # 0 => 6 * (read - 1) < 8 * Len(plain)
    BY DEF Decoded
  <1>2. /\ Len(code) = 4 * ((Len(plain) + 2) \div 3) /\ Len(code) \in Nat
        /\ Len(group) \in Nat /\ Len(plain) \in Nat
    BY <1>1, Rfc4648Is
  <1>3. 6 * read >= 8 * Len(plain)
    <2>1. ~(read < Len(code) /\ IsBase64(code[read + 1]))
      BY DEF DecodeRest, Decodes
    <2>2. CASE read < Len(code)
      <3>1. read + 1 \in 1..Len(code) /\ (read + 1) - 1 = read
        BY <1>1, <1>2, <2>2
      <3>2. ~(6 * read < 8 * Len(plain))
        BY <2>1, <2>2, <3>1, CodeCharIs
      <3> QED
        BY <1>1, <1>2, <3>2
    <2>3. CASE ~(read < Len(code))
      <3>1. read = Len(code)
        BY <1>1, <1>2, <2>3
      <3> QED
        BY <1>2, <3>1
    <2> QED
      BY <2>2, <2>3
  <1> DEFINE m == Len(group)
             L == Len(plain)
  <1>4. \/ m = 0 /\ L = 3 * g
        \/ m = 2 /\ L = 3 * g + 1
        \/ m = 3 /\ L = 3 * g + 2
    <2>1. /\ m \in Nat /\ m < 4 /\ read = 4 * g + m /\ L \in Nat /\ 3 * g <= L
          /\ 6 * read >= 8 * L /\ (read # 0 => 6 * (read - 1) < 8 * L)
      BY <1>1, <1>2, <1>3
    <2> HIDE DEF m, L
    <2>2. m = 0 \/ m = 1 \/ m = 2 \/ m = 3
      BY <2>1
    <2>3. CASE m = 0
      BY ONLY <2>1, <2>3
    <2>4. CASE m = 1
      BY ONLY <2>1, <2>4
    <2>5. CASE m = 2
      BY ONLY <2>1, <2>5
    <2>6. CASE m = 3
      BY ONLY <2>1, <2>6
    <2> QED
      BY <2>2, <2>3, <2>4, <2>5, <2>6
  <1>5. back' = IF group = <<>> THEN back
               ELSE back \o SubSeq(Triple(Filled(Indices(group), 4)), 1, m - 1)
    BY DEF DecodeRest
  <1>6. CASE m = 0
    <2>1. group = <<>>
      BY <1>1, <1>6, EmptySeq
    <2>2. L = 3 * g
      BY <1>4, <1>6
    <2>3. back = plain
      BY <1>1, <2>2, SeqEqual
    <2> QED
      BY <1>5, <2>1, <2>3
  <1>7. CASE m # 0
    <2> DEFINE a == Input(3 * g + 1)
               b == Input(3 * g + 2)
               d == Input(3 * g + 3)
               x == Filled(Indices(group), 4)
               y == Triple(x)
               z == SubSeq(y, 1, m - 1)
    <2>1. (m = 2 /\ L = 3 * g + 1) \/ (m = 3 /\ L = 3 * g + 2)
      BY <1>4, <1>7
    <2>2. a = plain[3 * g + 1] /\ (m = 3 => b = plain[3 * g + 2])
      <3> HIDE DEF m
      <3>1. 3 * g + 1 <= Len(plain) /\ (m = 3 => 3 * g + 2 <= Len(plain))
        BY <1>2, <2>1
      <3> QED
        BY <3>1 DEF Input
    <2>3. a \in Octet /\ b \in Octet /\ d \in Octet
      BY InputType
    <2>4. /\ Len(Indices(group)) = m /\ Indices(group)[1] = a \div 4
          /\ Indices(group)[2] = (a % 4) * 16 + b \div 16
          /\ m = 3 => Indices(group)[3] = (b % 16) * 4 + d \div 64
      <3>1. /\ 4 * g + Len(group) <= Len(code) /\ Len(group) <= 4
            /\ Len(group) # 0 => 6 * (4 * g + Len(group) - 1) < 8 * Len(plain)
        BY <1>1, <1>2
      <3>2. Len(group) >= 1 /\ Len(group) >= 2 /\ (m = 3 => Len(group) >= 3)
        <4>1. m >= 1 /\ m >= 2 /\ (m = 3 => m >= 3)
          <5> HIDE DEF m, L, a, b, d, x
          <5> QED
            BY ONLY <2>1
        <4> QED
          BY <4>1
      <3>3. \A k \in 1..Len(group) : group[k] = code[4 * g + k]
        BY <1>1
      <3>4. /\ Len(Indices(group)) = Len(group)
            /\ Len(group) >= 1 => Indices(group)[1] = a \div 4
            /\ Len(group) >= 2 => Indices(group)[2] = (a % 4) * 16 + b \div 16
            /\ Len(group) >= 3 => Indices(group)[3] = (b % 16) * 4 + d \div 64
        BY <1>1, <3>1, <3>3, IndicesOfGroup, ZenonT(60)
      <3> HIDE DEF a, b, d
      <3> QED
        BY <3>2, <3>4
    <2>5. x[1] = a \div 4 /\ x[2] = (a % 4) * 16 + b \div 16
          /\ (m = 3 => x[3] = (b % 16) * 4 + d \div 64)
      <3> DEFINE f == Indices(group)
      <3>1. Len(f) = m /\ f[1] = a \div 4 /\ f[2] = (a % 4) * 16 + b \div 16
            /\ (m = 3 => f[3] = (b % 16) * 4 + d \div 64)
        BY <2>4
      <3> HIDE DEF f, a, b, d, m
      <3>2. Filled(f, 4)[1] = f[1] /\ Filled(f, 4)[2] = f[2] /\ (m = 3 => Filled(f, 4)[3] = f[3])
        BY <2>1, <3>1 DEF Filled
      <3> QED
        BY <3>1, <3>2 DEF f
    <2> HIDE DEF a, b, d, x
    <2>6. y[1] = a /\ (m = 3 => y[2] = b)
      BY <2>3, <2>5, TripleOfGroup
    <2>7. z \in Seq(Octet) /\ Len(z) = m - 1 /\ z[1] = a /\ (m = 3 => z[2] = b)
      <3>1. y = <<y[1], y[2], y[3]>>
        BY DEF Triple
      <3> HIDE DEF y
      <3>2. CASE m = 2
        <4>1. z = <<y[1]>>
          BY <3>1, <3>2, FirstOfThree
        <4> QED
          BY <2>3, <2>6, <3>2, <4>1
      <3>3. CASE m = 3
        <4>1. z = <<y[1], y[2]>>
          BY <3>1, <3>3, FirstOfThree
        <4> QED
          BY <2>3, <2>6, <3>3, <4>1
      <3> QED
        BY <2>1, <3>2, <3>3
    <2>8. back' = back \o z
      <3>1. group # <<>>
        BY <1>7
      <3> QED
        BY <1>5, <3>1 DEF x
    <2> HIDE DEF z
    <2>9. /\ back \o z \in Seq(Octet) /\ Len(back \o z) = Len(back) + Len(z)
          /\ \A j \in 1 .. Len(back) + Len(z) :
                (back \o z)[j] = IF j <= Len(back) THEN back[j] ELSE z[j - Len(back)]
      BY <1>1, <2>7, OctetsJoin
    <2>10. /\ Len(back) = 3 * g /\ Len(back) + Len(z) = L
           /\ m = 2 => L = 3 * g + 1
           /\ m = 3 => L = 3 * g + 2
      <3>1. Len(back) = 3 * g /\ Len(z) = m - 1
        BY <1>1, <2>7
      <3> HIDE DEF m, L
      <3> QED
        BY <2>1, <3>1
    <2>11. ASSUME NEW k \in 1..L PROVE (back \o z)[k] = plain[k]
      <3>1. k \in 1 .. Len(back) + Len(z) /\ L \in Nat
        BY <1>2, <2>10
      <3>2. CASE k <= 3 * g
        <4>1. k \in 1 .. 3 * g /\ k <= Len(back)
          BY <2>10, <3>1, <3>2
        <4> QED
          BY <1>1, <2>9, <3>1, <4>1
      <3>3. CASE ~(k <= 3 * g)
        <4>1. /\ ~(k <= Len(back)) /\ k - Len(back) = k - 3 * g
              /\ k = 3 * g + 1 \/ (m = 3 /\ k = 3 * g + 2)
          <5> HIDE DEF m, L
          <5> QED
            BY <2>1, <2>10, <3>1, <3>3
        <4>2. (back \o z)[k] = z[k - 3 * g]
          BY <2>9, <3>1, <4>1
        <4>3. 3 * g + 1 - 3 * g = 1 /\ 3 * g + 2 - 3 * g = 2
          OBVIOUS
        <4> QED
          BY <2>2, <2>7, <4>1, <4>2, <4>3, SMTT(60)
      <3> QED
        BY <3>2, <3>3
    <2>12. Len(back \o z) = Len(plain) /\ back \o z \in Seq(Octet)
      BY <2>9, <2>10
    <2>13. back \o z = plain
      BY <2>11, <2>12, SeqEqual
    <2> QED
      BY <2>8, <2>13
  <1> QED
    BY <1>6, <1>7

(***************************************************************************)
(* The form value.  A server reads it from a position by a function that   *)
(* the code determines; a round of url_encode makes that function longer by *)
(* the byte the round has read.                                            *)
(***************************************************************************)

\* What is read from position k of cs, when f is what is read from those behind.
TailRead(cs, f, k) ==
    IF k > Len(cs) THEN <<>>
    ELSE IF cs[k] = Percent
         THEN <<16 * HexValue(cs[k + 1]) + HexValue(cs[k + 2])>> \o f[k + 3]
         ELSE <<cs[k]>> \o f[k + 1]

\* f gives, for every position of cs, what is read from there.
ServerReads(cs, f) == f = [k \in 1 .. Len(cs) + 3 |-> TailRead(cs, f, k)]

\* No escape is cut off at the end, and nothing but escapes is escaped.
WellEscaped(cs) ==
    \A k \in 1..Len(cs) : /\ Unreserved(cs[k]) \/ cs[k] = Percent
                          /\ cs[k] = Percent => k + 2 <= Len(cs)

\* A server reads t in cs.
ReadAs(cs, t) ==
    \E f : /\ ServerReads(cs, f)
           /\ \A k \in 1 .. Len(cs) + 3 : f[k] \in Seq(Int)
           /\ f[1] = t

LEMMA ReadOnce ==
    ASSUME NEW cs, Len(cs) \in Nat, NEW f, NEW h, ServerReads(cs, f), ServerReads(cs, h)
    PROVE  f[1] = h[1]
  <1> DEFINE n == Len(cs)
             S == {d \in Nat : \A k \in 1 .. n + 3 : k + d >= n + 3 => f[k] = h[k]}
  <1>1. \A k \in 1 .. n + 3 : f[k] = TailRead(cs, f, k) /\ h[k] = TailRead(cs, h, k)
    BY DEF ServerReads
  <1>2. ASSUME NEW k \in 1 .. n + 3, k > n PROVE f[k] = h[k]
    BY <1>1, <1>2 DEF TailRead
  <1>3. 0 \in S
    <2>1. \A k \in 1 .. n + 3 : k + 0 >= n + 3 => k > n
      OBVIOUS
    <2> QED
      BY <1>2, <2>1
  <1>4. ASSUME NEW d \in Nat, d \in S PROVE d + 1 \in S
    <2> SUFFICES ASSUME NEW k \in 1 .. n + 3, k + (d + 1) >= n + 3 PROVE f[k] = h[k]
      OBVIOUS
    <2>1. CASE k > n
      BY <1>2, <2>1
    <2>2. CASE ~(k > n)
      <3>1. k + 1 \in 1 .. n + 3 /\ k + 3 \in 1 .. n + 3
            /\ (k + 1) + d >= n + 3 /\ (k + 3) + d >= n + 3
        BY <2>2
      <3>2. f[k + 1] = h[k + 1] /\ f[k + 3] = h[k + 3]
        BY <1>4, <3>1
      <3> QED
        BY <1>1, <3>2 DEF TailRead
    <2> QED
      BY <2>1, <2>2
  <1>5. Nat \subseteq S
    <2> HIDE DEF S
    <2> QED
      BY <1>3, <1>4, Induction
  <1>6. n + 2 \in S
    <2> HIDE DEF S
    <2>1. n + 2 \in Nat
      OBVIOUS
    <2> QED
      BY <1>5, <2>1
  <1>7. 1 \in 1 .. n + 3 /\ 1 + (n + 2) >= n + 3
    OBVIOUS
  <1> QED
    BY <1>6, <1>7

LEMMA UnescapedIs ==
    ASSUME NEW t, Len(code) \in Nat, ReadAs(code, t)
    PROVE  Unescaped = t
  <1> DEFINE from[k \in 1 .. Len(code) + 3] ==
                IF k > Len(code) THEN <<>>
                ELSE IF code[k] = Percent
                     THEN <<16 * HexValue(code[k + 1]) + HexValue(code[k + 2])>> \o from[k + 3]
                     ELSE <<code[k]>> \o from[k + 1]
  <1>1. PICK f : ServerReads(code, f) /\ f[1] = t
    BY DEF ReadAs
  <1>2. \E h : h = [k \in 1 .. Len(code) + 3 |->
                      IF k > Len(code) THEN <<>>
                      ELSE IF code[k] = Percent
                           THEN <<16 * HexValue(code[k + 1]) + HexValue(code[k + 2])>> \o h[k + 3]
                           ELSE <<code[k]>> \o h[k + 1]]
    BY <1>1 DEF ServerReads, TailRead
  <1>3. from = [k \in 1 .. Len(code) + 3 |->
                      IF k > Len(code) THEN <<>>
                      ELSE IF code[k] = Percent
                           THEN <<16 * HexValue(code[k + 1]) + HexValue(code[k + 2])>> \o from[k + 3]
                           ELSE <<code[k]>> \o from[k + 1]]
    BY <1>2
  <1>4. Unescaped = from[1]
    BY DEF Unescaped
  <1> HIDE DEF from
  <1>5. ServerReads(code, from)
    BY <1>3 DEF ServerReads, TailRead
  <1> QED
    BY <1>1, <1>4, <1>5, ReadOnce

LEMMA HexDigits ==
    ASSUME NEW d \in 0..15
    PROVE  HexDigit(d) \in Octet /\ HexValue(HexDigit(d)) = d
           /\ Unreserved(HexDigit(d)) /\ HexDigit(d) # Percent
  BY DEF HexDigit, HexValue, Unreserved, IsAlnum, Within, Percent, Octet

\* The escaped byte, read alone.
LEMMA EscapeRead ==
    ASSUME NEW x \in Octet
    PROVE  /\ Escaped(x) \in Seq(Octet) /\ Len(Escaped(x)) \in {1, 3}
           /\ WellEscaped(Escaped(x))
           /\ Len(Escaped(x)) = 1 => Escaped(x)[1] = x /\ x # Percent
           /\ Len(Escaped(x)) = 3 =>
                /\ Escaped(x)[1] = Percent
                /\ 16 * HexValue(Escaped(x)[2]) + HexValue(Escaped(x)[3]) = x
                /\ Escaped(x)[2] # Percent /\ Escaped(x)[3] # Percent
  <1>1. CASE Unreserved(x)
    <2>1. Escaped(x) = <<x>>
      BY <1>1 DEF Escaped
    <2>2. x # Percent
      BY <1>1 DEF Unreserved, IsAlnum, Within, Percent
    <2>3. <<x>> \in Seq(Octet) /\ Len(<<x>>) = 1 /\ <<x>>[1] = x
      OBVIOUS
    <2>4. WellEscaped(<<x>>)
      BY <1>1, <2>2, <2>3 DEF WellEscaped
    <2> QED
      BY <2>1, <2>2, <2>3, <2>4
  <1>2. CASE ~Unreserved(x)
    <2> DEFINE u == HexDigit(x \div 16)
               v == HexDigit(x % 16)
    <2>1. Escaped(x) = <<Percent, u, v>>
      BY <1>2 DEF Escaped
    <2>2. x \div 16 \in 0..15 /\ x % 16 \in 0..15 /\ 16 * (x \div 16) + (x % 16) = x
      BY DEF Octet
    <2>3. /\ u \in Octet /\ HexValue(u) = x \div 16 /\ Unreserved(u) /\ u # Percent
          /\ v \in Octet /\ HexValue(v) = x % 16 /\ Unreserved(v) /\ v # Percent
      BY <2>2, HexDigits
    <2>4. Percent \in Octet
      BY DEF Percent, Octet
    <2> HIDE DEF u, v
    <2>5. /\ <<Percent, u, v>> \in Seq(Octet) /\ Len(<<Percent, u, v>>) = 3
          /\ <<Percent, u, v>>[1] = Percent /\ <<Percent, u, v>>[2] = u /\ <<Percent, u, v>>[3] = v
      BY <2>3, <2>4
    <2>6. WellEscaped(<<Percent, u, v>>)
      <3>1. \A k \in 1..3 : k = 1 \/ k = 2 \/ k = 3
        OBVIOUS
      <3> QED
        BY <2>3, <2>5, <3>1 DEF WellEscaped
    <2> QED
      BY <2>1, <2>2, <2>3, <2>5, <2>6
  <1> QED
    BY <1>1, <1>2

LEMMA IntsRegroup ==
    ASSUME NEW p \in Seq(Int), NEW q \in Seq(Int), NEW w \in Seq(Int)
    PROVE  (p \o q) \o w = p \o (q \o w)
  BY Regroup, SMTT(60)

\* A byte more is escaped: the server reads a byte more.
LEMMA EscapedIsRead ==
    ASSUME NEW cs \in Seq(Octet), WellEscaped(cs), NEW t \in Seq(Octet), ReadAs(cs, t), NEW x \in Octet
    PROVE  /\ cs \o Escaped(x) \in Seq(Octet) /\ WellEscaped(cs \o Escaped(x))
           /\ ReadAs(cs \o Escaped(x), t \o <<x>>)
  <1> DEFINE n == Len(cs)
             e == Escaped(x)
             l == Len(e)
             ds == cs \o e
  <1>1. PICK f : /\ ServerReads(cs, f)
                 /\ \A k \in 1 .. n + 3 : f[k] \in Seq(Int)
                 /\ f[1] = t
    BY DEF ReadAs
  <1>2. /\ e \in Seq(Octet) /\ l \in {1, 3} /\ WellEscaped(e)
        /\ l = 1 => e[1] = x /\ x # Percent
        /\ l = 3 => /\ e[1] = Percent /\ 16 * HexValue(e[2]) + HexValue(e[3]) = x
                    /\ e[2] # Percent /\ e[3] # Percent
    BY EscapeRead
  <1>3. n \in Nat /\ l \in Nat /\ l >= 1
    BY <1>2
  <1> HIDE DEF e
  <1>4. /\ ds \in Seq(Octet) /\ Len(ds) = n + l
        /\ \A k \in 1 .. n + l : ds[k] = IF k <= n THEN cs[k] ELSE e[k - n]
    BY <1>2, OctetsJoin
  <1> HIDE DEF n, l, ds
  <1>5. \A k \in 1..n : ds[k] = cs[k]
    BY <1>3, <1>4
  <1>6. \A k \in 1..l : ds[n + k] = e[k]
    <2> SUFFICES ASSUME NEW k \in 1..l PROVE ds[n + k] = e[k]
      OBVIOUS
    <2>1. n + k \in 1 .. n + l /\ ~(n + k <= n) /\ (n + k) - n = k
      BY <1>3
    <2> QED
      BY <1>4, <2>1
  <1>7. WellEscaped(ds)
    <2> SUFFICES ASSUME NEW k \in 1 .. n + l
                 PROVE  /\ Unreserved(ds[k]) \/ ds[k] = Percent
                        /\ ds[k] = Percent => k + 2 <= n + l
      BY <1>4 DEF WellEscaped
    <2>1. CASE k \in 1..n
      <3>1. Unreserved(cs[k]) \/ cs[k] = Percent
        BY <2>1 DEF WellEscaped, n
      <3>2. cs[k] = Percent => k + 2 <= n
        BY <2>1 DEF WellEscaped, n
      <3> QED
        BY <1>3, <1>5, <2>1, <3>1, <3>2
    <2>2. CASE k \notin 1..n
      <3>1. PICK d \in 1..l : k = n + d
        <4>1. k - n \in 1..l /\ k = n + (k - n)
          BY <1>3, <2>2
        <4> QED
          BY <4>1
      <3>2. Unreserved(e[d]) \/ e[d] = Percent
        BY <1>2 DEF WellEscaped, l
      <3>3. e[d] = Percent => d + 2 <= l
        BY <1>2 DEF WellEscaped, l
      <3>4. d + 2 <= l => k + 2 <= n + l
        BY <1>3, <3>1
      <3> QED
        BY <1>6, <3>1, <3>2, <3>3, <3>4
    <2> QED
      BY <2>1, <2>2
  <1> DEFINE tail(k) == IF k > n + l THEN <<>>
                        ELSE IF k = n + l THEN <<ds[n + l]>>
                        ELSE <<ds[k]>> \o <<ds[n + l]>>
             h == [k \in 1 .. Len(ds) + 3 |->
                     IF k <= n THEN f[k] \o <<x>>
                     ELSE IF k = n + 1 THEN <<x>> ELSE tail(k)]
  <1>8. /\ Percent \in Octet /\ Octet \subseteq Int /\ x \in Int
        /\ \A k \in 1 .. n + l : ds[k] \in Int
    <2>1. Percent \in Octet /\ Octet \subseteq Int
      BY DEF Percent, Octet
    <2>2. \A k \in 1 .. n + l : ds[k] \in Octet
      BY <1>4
    <2> QED
      BY <2>1, <2>2
  <1>9. ASSUME NEW k \in 1 .. Len(ds) + 3 PROVE h[k] = TailRead(ds, h, k)
    <2>0. k \in Nat /\ k >= 1 /\ Len(ds) = n + l
      BY <1>3, <1>4
    <2>1. CASE k > n + l
      <3>1. TailRead(ds, h, k) = <<>>
        BY <2>0, <2>1 DEF TailRead
      <3>2. ~(k <= n) /\ k # n + 1
        BY <1>3, <2>0, <2>1
      <3> QED
        BY <2>1, <3>1, <3>2
    <2>2. CASE k <= n
      <3>1. /\ k \in 1..n /\ k \in 1 .. n + 3 /\ ~(k > n) /\ ~(k > n + l)
            /\ k + 1 \in 1 .. n + 1 /\ k + 1 \in 1 .. Len(ds) + 3
        BY <1>3, <2>0, <2>2
      <3>2. f[k] = TailRead(cs, f, k)
        BY <1>1, <3>1 DEF ServerReads, n
      <3>3. ds[k] = cs[k]
        BY <1>5, <3>1
      <3>4. f[n + 1] = <<>>
        <4>1. n + 1 \in 1 .. n + 3 /\ n + 1 > n
          BY <1>3
        <4> QED
          BY <1>1, <4>1 DEF ServerReads, TailRead, n
      <3>5. ASSUME NEW d \in 1 .. n + 1 PROVE h[d] = f[d] \o <<x>>
        <4>1. d \in 1 .. Len(ds) + 3
          BY <1>3, <2>0
        <4>2. CASE d <= n
          BY <4>1, <4>2
        <4>3. CASE ~(d <= n)
          <5>1. d = n + 1
            BY <1>3, <4>3
          <5>2. f[d] \o <<x>> = <<x>>
            <6>1. <<>> \o <<x>> = <<x>>
              BY <1>8
            <6> QED
              BY <3>4, <5>1, <6>1
          <5> QED
            BY <4>1, <4>3, <5>1, <5>2
        <4> QED
          BY <4>2, <4>3
      <3>6. \A d \in 1 .. n + 1 : f[d] \in Seq(Int)
        <4>1. 1 .. n + 1 \subseteq 1 .. n + 3
          BY <1>3
        <4> QED
          BY <1>1, <4>1
      <3> HIDE DEF h
      <3>7. CASE cs[k] = Percent
        <4> DEFINE v == 16 * HexValue(cs[k + 1]) + HexValue(cs[k + 2])
        <4>1. k + 2 <= n
          BY <3>1, <3>7 DEF WellEscaped, n
        <4>2. k + 1 \in 1..n /\ k + 2 \in 1..n /\ k + 3 \in 1 .. n + 1
          BY <1>3, <2>0, <4>1
        <4>3. f[k] = <<v>> \o f[k + 3]
          BY <3>1, <3>2, <3>7 DEF TailRead, n
        <4>4. v \in Int
          <5>1. k + 1 \in 1 .. n + l /\ k + 2 \in 1 .. n + l
            BY <1>3, <4>2
          <5>2. ds[k + 1] = cs[k + 1] /\ ds[k + 2] = cs[k + 2]
            BY <1>5, <4>2
          <5>3. cs[k + 1] \in Int /\ cs[k + 2] \in Int
            BY <1>8, <5>1, <5>2
          <5>4. HexValue(cs[k + 1]) \in Int /\ HexValue(cs[k + 2]) \in Int
            <6>1. ASSUME NEW digit \in Int PROVE HexValue(digit) \in Int
              BY DEF HexValue
            <6> QED
              BY ONLY <5>3, <6>1
          <5> QED
            BY <5>4
        <4>5. TailRead(ds, h, k) = <<v>> \o h[k + 3]
          BY <1>5, <2>0, <3>1, <3>3, <3>7, <4>2 DEF TailRead
        <4> HIDE DEF v
        <4>6. h[k + 3] = f[k + 3] \o <<x>> /\ h[k] = f[k] \o <<x>>
          <5>1. k \in 1 .. n + 1
            BY <1>3, <3>1
          <5> QED
            BY <3>5, <4>2, <5>1
        <4>7. f[k + 3] \in Seq(Int) /\ <<v>> \in Seq(Int) /\ <<x>> \in Seq(Int)
          BY <1>8, <3>6, <4>2, <4>4
        <4>8. (<<v>> \o f[k + 3]) \o <<x>> = <<v>> \o (f[k + 3] \o <<x>>)
          BY <4>7, IntsRegroup
        <4> QED
          BY <4>3, <4>5, <4>6, <4>8
      <3>8. CASE cs[k] # Percent
        <4>1. f[k] = <<cs[k]>> \o f[k + 1]
          BY <3>1, <3>2, <3>8 DEF TailRead, n
        <4>2. TailRead(ds, h, k) = <<cs[k]>> \o h[k + 1]
          BY <2>0, <3>1, <3>3, <3>8 DEF TailRead
        <4>3. h[k + 1] = f[k + 1] \o <<x>> /\ h[k] = f[k] \o <<x>>
          <5>1. k \in 1 .. n + 1
            BY <1>3, <3>1
          <5> QED
            BY <3>1, <3>5, <5>1
        <4>4. f[k + 1] \in Seq(Int) /\ <<cs[k]>> \in Seq(Int) /\ <<x>> \in Seq(Int)
          <5>1. cs[k] \in Int
            <6>1. k \in 1 .. n + l
              BY <1>3, <3>1
            <6> QED
              BY <1>8, <3>3, <6>1
          <5> QED
            BY <1>8, <3>1, <3>6, <5>1
        <4>5. (<<cs[k]>> \o f[k + 1]) \o <<x>> = <<cs[k]>> \o (f[k + 1] \o <<x>>)
          BY <4>4, IntsRegroup
        <4> QED
          BY <4>1, <4>2, <4>3, <4>5
      <3> QED
        BY <3>7, <3>8
    <2>3. CASE k > n /\ k <= n + l
      <3>1. CASE l = 1
        <4>1. k = n + 1 /\ ~(k <= n) /\ ~(k > n + l) /\ k + 1 \in 1 .. Len(ds) + 3 /\ k + 1 > n + l
              /\ ~(k + 1 <= n) /\ k + 1 # n + 1
          BY <1>3, <2>0, <2>3, <3>1
        <4>2. ds[k] = x /\ x # Percent
          BY <1>2, <1>6, <3>1, <4>1
        <4>3. h[k + 1] = <<>> /\ h[k] = <<x>>
          BY <4>1
        <4>4. <<x>> \o <<>> = <<x>>
          BY <1>8
        <4> HIDE DEF h
        <4> QED
          BY <2>0, <4>1, <4>2, <4>3, <4>4 DEF TailRead
      <3>2. CASE l = 3
        <4>1. /\ 1 \in 1..l /\ 2 \in 1..l /\ 3 \in 1..l
              /\ ds[n + 1] = Percent /\ ds[n + 2] = e[2] /\ ds[n + 3] = e[3]
              /\ e[2] # Percent /\ e[3] # Percent
              /\ 16 * HexValue(ds[n + 2]) + HexValue(ds[n + 3]) = x
          BY <1>2, <1>6, <3>2
        <4>2. k = n + 1 \/ k = n + 2 \/ k = n + 3
          BY <1>3, <2>0, <2>3, <3>2
        <4>3. ~(k <= n) /\ ~(k > n + l) /\ n + l = n + 3
          BY <1>3, <2>0, <2>3, <3>2
        <4>4. CASE k = n + 1
          <5>1. k + 3 \in 1 .. Len(ds) + 3 /\ k + 3 > n + l /\ ~(k + 3 <= n) /\ k + 3 # n + 1
                /\ k + 1 = n + 2 /\ k + 2 = n + 3
            BY <1>3, <2>0, <3>2, <4>4
          <5>2. h[k + 3] = <<>> /\ h[k] = <<x>>
            BY <4>3, <4>4, <5>1
          <5>3. <<x>> \o <<>> = <<x>>
            BY <1>8
          <5> HIDE DEF h
          <5> QED
            BY <2>0, <4>1, <4>3, <4>4, <5>1, <5>2, <5>3 DEF TailRead
        <4>5. CASE k = n + 2
          <5>1. /\ k + 1 \in 1 .. Len(ds) + 3 /\ k + 1 = n + l /\ ~(k + 1 <= n) /\ k + 1 # n + 1
                /\ ~(k + 1 > n + l) /\ k # n + 1 /\ k # n + l
            BY <1>3, <2>0, <3>2, <4>5
          <5>2. h[k + 1] = <<ds[n + l]>> /\ h[k] = <<ds[k]>> \o <<ds[n + l]>>
            BY <4>3, <5>1
          <5> HIDE DEF h
          <5> QED
            BY <2>0, <4>1, <4>3, <4>5, <5>2 DEF TailRead
        <4>6. CASE k = n + 3
          <5>1. /\ k + 1 \in 1 .. Len(ds) + 3 /\ k + 1 > n + l /\ ~(k + 1 <= n) /\ k + 1 # n + 1
                /\ k # n + 1 /\ k = n + l
            BY <1>3, <2>0, <3>2, <4>6
          <5>2. h[k + 1] = <<>> /\ h[k] = <<ds[k]>>
            BY <4>3, <5>1
          <5>3. <<ds[k]>> \o <<>> = <<ds[k]>>
            BY <1>8, <2>3
          <5> HIDE DEF h
          <5> QED
            BY <2>0, <4>1, <4>3, <4>6, <5>2, <5>3 DEF TailRead
        <4> QED
          BY <4>2, <4>4, <4>5, <4>6
      <3> QED
        BY <1>2, <3>1, <3>2 DEF l
    <2> QED
      BY <1>3, <2>0, <2>1, <2>2, <2>3
  <1>10. ASSUME NEW k \in 1 .. Len(ds) + 3 PROVE h[k] \in Seq(Int)
    <2>0. k \in Nat /\ k >= 1 /\ Len(ds) = n + l
      BY <1>3, <1>4
    <2>1. CASE k <= n
      <3>1. k \in 1 .. n + 3
        BY <1>3, <2>0, <2>1
      <3>2. f[k] \in Seq(Int) /\ <<x>> \in Seq(Int)
        BY <1>1, <1>8, <3>1 DEF n
      <3>3. f[k] \o <<x>> \in Seq(Int)
        BY <3>2, ConcatProperties
      <3> QED
        BY <2>1, <3>3
    <2>2. CASE ~(k <= n)
      <3>1. <<x>> \in Seq(Int) /\ <<>> \in Seq(Int)
        BY <1>8
      <3>2. tail(k) \in Seq(Int)
        <4>1. CASE k > n + l
          BY <3>1, <4>1
        <4>2. CASE ~(k > n + l)
          <5>1. k \in 1 .. n + l /\ n + l \in 1 .. n + l
            BY <1>3, <2>0, <4>2
          <5>2. <<ds[k]>> \in Seq(Int) /\ <<ds[n + l]>> \in Seq(Int)
            BY <1>8, <5>1
          <5>3. <<ds[k]>> \o <<ds[n + l]>> \in Seq(Int)
            BY <5>2, ConcatProperties
          <5> QED
            BY <4>2, <5>2, <5>3
        <4> QED
          BY <4>1, <4>2
      <3> HIDE DEF tail
      <3> QED
        BY <2>2, <3>1, <3>2
    <2> QED
      BY <2>1, <2>2
  <1>11. h[1] = t \o <<x>>
    <2>1. 1 \in 1 .. Len(ds) + 3
      BY <1>3, <1>4
    <2>2. CASE 1 <= n
      BY <1>1, <2>1, <2>2
    <2>3. CASE ~(1 <= n)
      <3>1. n = 0
        BY <1>3, <2>3
      <3>2. t = <<>>
        <4>1. 1 \in 1 .. n + 3 /\ 1 > n
          BY <3>1
        <4> QED
          BY <1>1, <4>1 DEF ServerReads, TailRead, n
      <3>3. <<>> \o <<x>> = <<x>>
        BY <1>8
      <3>4. h[1] = <<x>>
        BY <2>1, <2>3, <3>1
      <3> QED
        BY <3>2, <3>3, <3>4
    <2> QED
      BY <2>2, <2>3
  <1>12. ServerReads(ds, h)
    <2>1. h = [k \in 1 .. Len(ds) + 3 |-> h[k]]
      OBVIOUS
    <2> HIDE DEF h
    <2> QED
      BY <1>9, <2>1 DEF ServerReads
  <1>13. ReadAs(ds, t \o <<x>>)
    <2> HIDE DEF h
    <2> QED
      BY <1>10, <1>11, <1>12 DEF ReadAs
  <1> QED
    BY <1>4, <1>7, <1>13 DEF ds, e

\* What a form value has been given to: the loop of url_encode has escaped the
\* bytes before read, and a server reads just these.
UrlInv ==
    /\ read \in 0..Len(plain)
    /\ code \in Seq(Octet) /\ WellEscaped(code)
    /\ ReadAs(code, SubSeq(plain, 1, read))
    /\ doing = "sent" => read = Len(plain)

EncodingInv ==
    /\ plain \in Seq(Octet)
    /\ doing \in {"base64_encode", "base64_decode", "returned", "url_encode", "sent"}
    /\ doing = "base64_encode" => \E g \in Nat : Encodes(g)
    /\ doing = "base64_decode" => code = Rfc4648 /\ \E g \in Nat : Decoded(g)
    /\ doing = "returned" => code = Rfc4648 /\ back = plain
    /\ doing \in {"url_encode", "sent"} => UrlInv

LEMMA NothingEncoded ==
    ASSUME EncodingInit
    PROVE  EncodingInv
  <1>1. plain \in Seq(Octet) /\ read = 0 /\ group = <<>> /\ code = <<>> /\ back = <<>>
        /\ doing \in {"base64_encode", "url_encode"}
    BY EncodingAssumption DEF EncodingInit
  <1>2. /\ Len(plain) \in Nat /\ <<>> \in Seq(Octet) /\ Len(<<>>) = 0 /\ SubSeq(plain, 1, 0) = <<>>
        /\ 3 * 0 + 0 = 0 /\ 4 * 0 = 0 /\ 1..0 = {}
    BY <1>1
  <1>3. Encodes(0)
    BY <1>1, <1>2 DEF Encodes
  <1>4. ReadAs(<<>>, <<>>)
    <2> DEFINE f == [k \in 1 .. Len(<<>>) + 3 |-> <<>>]
    <2>1. \A k \in 1 .. Len(<<>>) + 3 : f[k] = <<>> /\ k > Len(<<>>)
      OBVIOUS
    <2>2. f = [k \in 1 .. Len(<<>>) + 3 |-> f[k]] /\ 1 \in 1 .. Len(<<>>) + 3
      OBVIOUS
    <2> HIDE DEF f
    <2>3. ServerReads(<<>>, f)
      BY <2>1, <2>2 DEF ServerReads, TailRead
    <2>4. <<>> \in Seq(Int) /\ f[1] = <<>>
      BY <2>1, <2>2, SMTT(60)
    <2>5. \A k \in 1 .. Len(<<>>) + 3 : f[k] \in Seq(Int)
      BY <2>1, <2>4
    <2> QED
      BY <2>3, <2>4, <2>5 DEF ReadAs
  <1>5. UrlInv
    <2>1. WellEscaped(<<>>)
      BY DEF WellEscaped
    <2>2. read \in 0..Len(plain) /\ SubSeq(plain, 1, read) = <<>> /\ doing # "sent"
      BY <1>1, <1>2
    <2>3. code \in Seq(Octet) /\ WellEscaped(code) /\ ReadAs(code, <<>>)
      BY <1>1, <1>2, <1>4, <2>1
    <2> QED
      BY <2>2, <2>3 DEF UrlInv
  <1> QED
    BY <1>1, <1>3, <1>5 DEF EncodingInv

LEMMA DecodingBegins ==
    ASSUME NEW g \in Nat, EncodingInv, Encodes(g), EncodeRest
    PROVE  code' = Rfc4648 /\ Decoded(0)'
  <1>1. plain \in Seq(Octet) /\ Len(plain) \in Nat
    BY DEF EncodingInv
  <1>2. code' = Rfc4648 /\ code' \in Seq(Octet) /\ Len(code') \in Nat
    BY <1>1, EncodeRestStep
  <1>3. group' = <<>> /\ read' = 0 /\ plain' = plain /\ back' = <<>>
    BY DEF EncodeRest, Encodes
  <1>4. /\ <<>> \in Seq(Octet) /\ Len(<<>>) = 0
        /\ 3 * 0 = 0 /\ 4 * 0 + 0 = 0 /\ 1..0 = {}
    OBVIOUS
  <1> QED
    BY <1>1, <1>2, <1>3, <1>4 DEF Decoded

LEMMA UrlEncodeCharStep ==
    ASSUME plain \in Seq(Octet), UrlInv, UrlEncodeChar
    PROVE  UrlInv'
  <1> DEFINE x == plain[read + 1]
             t == SubSeq(plain, 1, read)
  <1>1. /\ read \in Nat /\ read < Len(plain) /\ Len(plain) \in Nat /\ read' = read + 1
        /\ plain' = plain /\ doing' = "url_encode" /\ code' = code \o Escaped(x)
        /\ code \in Seq(Octet) /\ WellEscaped(code) /\ ReadAs(code, t)
    BY DEF UrlEncodeChar, UrlInv
  <1>2. x \in Octet /\ t \in Seq(Octet) /\ read + 1 \in 1..Len(plain)
    BY <1>1
  <1>3. t \o <<x>> = SubSeq(plain, 1, read + 1)
    <2>1. /\ Len(t) = read /\ \A k \in 1..read : t[k] = plain[k]
      BY <1>1
    <2>2. /\ SubSeq(plain, 1, read + 1) \in Seq(Octet) /\ Len(SubSeq(plain, 1, read + 1)) = read + 1
          /\ \A k \in 1 .. read + 1 : SubSeq(plain, 1, read + 1)[k] = plain[k]
      BY <1>1
    <2> HIDE DEF t
    <2>3. /\ t \o <<x>> \in Seq(Octet) /\ Len(t \o <<x>>) = read + 1
          /\ \A k \in 1 .. read + 1 : (t \o <<x>>)[k] = IF k <= read THEN t[k] ELSE x
      <3> HIDE DEF x
      <3> QED
        BY <1>1, <1>2, <2>1
    <2>4. \A k \in 1 .. read + 1 : (t \o <<x>>)[k] = plain[k]
      BY <1>1, <2>1, <2>3
    <2> QED
      BY <2>2, <2>3, <2>4, SeqEqual
  <1> HIDE DEF x, t
  <1>4. /\ code' \in Seq(Octet) /\ WellEscaped(code') /\ ReadAs(code', t \o <<x>>)
    BY <1>1, <1>2, EscapedIsRead
  <1>5. read' \in 0..Len(plain')
    BY <1>1
  <1> QED
    BY <1>1, <1>3, <1>4, <1>5 DEF UrlInv

LEMMA InductiveEncodingInv == EncodingInv /\ [EncodingNext]_encodingVars => EncodingInv'
  <1> SUFFICES ASSUME EncodingInv, [EncodingNext]_encodingVars PROVE EncodingInv'
    OBVIOUS
  <1>0. plain \in Seq(Octet)
    BY DEF EncodingInv
  <1>1. CASE EncodeByte
    <2>1. PICK g \in Nat : Encodes(g)
      BY <1>1 DEF EncodingInv, EncodeByte
    <2>2. Encodes(g)' \/ Encodes(g + 1)'
      BY <1>0, <1>1, <2>1, EncodeByteStep
    <2>3. \E d \in Nat : Encodes(d)'
      BY <2>2
    <2>4. plain' = plain /\ doing' = "base64_encode"
      BY <1>1 DEF EncodeByte
    <2> QED
      BY <1>0, <2>3, <2>4 DEF EncodingInv
  <1>2. CASE EncodeRest
    <2>1. PICK g \in Nat : Encodes(g)
      BY <1>2 DEF EncodingInv, EncodeRest
    <2>2. code' = Rfc4648 /\ Decoded(0)'
      BY <1>2, <2>1, DecodingBegins
    <2>3. plain' = plain /\ doing' = "base64_decode"
      BY <1>2 DEF EncodeRest
    <2>4. code' = Rfc4648'
      BY <2>2, <2>3 DEF Rfc4648, Sextet, Bit
    <2>5. \E d \in Nat : Decoded(d)'
      BY <2>2
    <2> QED
      BY <1>0, <2>3, <2>4, <2>5 DEF EncodingInv
  <1>3. CASE DecodeChar
    <2>1. code = Rfc4648
      BY <1>3 DEF EncodingInv, DecodeChar, Decodes
    <2>2. PICK g \in Nat : Decoded(g)
      BY <1>3 DEF EncodingInv, DecodeChar, Decodes
    <2>3. Decoded(g)' \/ Decoded(g + 1)'
      BY <1>0, <1>3, <2>1, <2>2, DecodeCharStep
    <2>4. \E d \in Nat : Decoded(d)'
      BY <2>3
    <2>5. plain' = plain /\ doing' = "base64_decode" /\ code' = code
      BY <1>3 DEF DecodeChar, Decodes
    <2>6. code' = Rfc4648'
      BY <2>1, <2>5 DEF Rfc4648, Sextet, Bit
    <2> QED
      BY <1>0, <2>4, <2>5, <2>6 DEF EncodingInv
  <1>4. CASE DecodeRest
    <2>1. code = Rfc4648
      BY <1>4 DEF EncodingInv, DecodeRest
    <2>2. PICK g \in Nat : Decoded(g)
      BY <1>4 DEF EncodingInv, DecodeRest
    <2>3. back' = plain
      BY <1>0, <1>4, <2>1, <2>2, DecodeRestStep
    <2>4. plain' = plain /\ doing' = "returned" /\ code' = code
      BY <1>4 DEF DecodeRest
    <2>5. code' = Rfc4648'
      BY <2>1, <2>4 DEF Rfc4648, Sextet, Bit
    <2> QED
      BY <1>0, <2>3, <2>4, <2>5 DEF EncodingInv
  <1>5. CASE UrlEncodeChar
    <2>1. UrlInv
      BY <1>5 DEF EncodingInv, UrlEncodeChar
    <2>2. UrlInv'
      BY <1>0, <1>5, <2>1, UrlEncodeCharStep
    <2>3. plain' = plain /\ doing' = "url_encode"
      BY <1>5 DEF UrlEncodeChar
    <2> QED
      BY <1>0, <2>2, <2>3 DEF EncodingInv
  <1>6. CASE UrlEncoded
    <2>1. UrlInv
      BY <1>6 DEF EncodingInv, UrlEncoded
    <2>2. plain' = plain /\ read' = read /\ code' = code /\ doing' = "sent" /\ read = Len(plain)
      BY <1>6 DEF UrlEncoded
    <2>3. UrlInv'
      BY <2>1, <2>2 DEF UrlInv
    <2> QED
      BY <1>0, <2>2, <2>3 DEF EncodingInv
  <1>7. CASE UNCHANGED encodingVars
    <2>1. /\ plain' = plain /\ doing' = doing /\ read' = read
          /\ group' = group /\ code' = code /\ back' = back
      BY <1>7 DEF encodingVars
    <2>2. Rfc4648' = Rfc4648
      BY <2>1 DEF Rfc4648, Sextet, Bit
    <2>3. ASSUME NEW g \in Nat, Encodes(g) PROVE Encodes(g)'
      BY <2>1, <2>3 DEF Encodes, CharOf, Sextet, Bit
    <2>4. ASSUME NEW g \in Nat, Decoded(g) PROVE Decoded(g)'
      BY <2>1, <2>4 DEF Decoded
    <2>5. UrlInv => UrlInv'
      BY <2>1 DEF UrlInv
    <2> QED
      BY <2>1, <2>2, <2>3, <2>4, <2>5 DEF EncodingInv
  <1> QED
    BY <1>1, <1>2, <1>3, <1>4, <1>5, <1>6, <1>7 DEF EncodingNext

LEMMA InvIsExact == EncodingInv => EncodingExact
  <1> SUFFICES ASSUME EncodingInv PROVE EncodingExact
    OBVIOUS
  <1>1. doing \in {"base64_decode", "returned"} => code = Rfc4648
    BY DEF EncodingInv
  <1>2. doing = "returned" => back = plain
    BY DEF EncodingInv
  <1>3. ASSUME doing = "sent"
        PROVE  (\A k \in DOMAIN code : Unreserved(code[k]) \/ code[k] = Percent) /\ Unescaped = plain
    <2>1. /\ code \in Seq(Octet) /\ WellEscaped(code)
          /\ ReadAs(code, SubSeq(plain, 1, read)) /\ read = Len(plain)
      BY <1>3 DEF EncodingInv, UrlInv
    <2>2. plain \in Seq(Octet) /\ SubSeq(plain, 1, Len(plain)) = plain
      BY DEF EncodingInv
    <2>3. DOMAIN code = 1..Len(code) /\ Len(code) \in Nat
      BY <2>1
    <2>4. Unescaped = plain
      BY <2>1, <2>2, <2>3, UnescapedIs
    <2> QED
      BY <2>1, <2>3, <2>4 DEF WellEscaped
  <1> QED
    BY <1>1, <1>2, <1>3 DEF EncodingExact

\* What base64_encode makes of a token is its base 64 as RFC 4648 defines it,
\* whatever its length, and base64_decode gives the token back; what url_encode
\* makes of a form value holds no separator, and a server reads the value in it.
THEOREM EncodingIsExact == EncodingSpec => []EncodingExact
  <1>1. EncodingInit => EncodingInv
    BY NothingEncoded
  <1> QED
    BY <1>1, InductiveEncodingInv, InvIsExact, PTL DEF EncodingSpec

=============================================================================
