--------------------------- MODULE MultipartParser ---------------------------
(***************************************************************************)
(* multipart_parser.c as http_request uses it: one call of                 *)
(* multipart_parser_execute over the whole body, one action per parser     *)
(* state, one byte per step.  The states that fall through in the C switch *)
(* (start, header_field_start, header_value_start, part_data_start) share  *)
(* the action of the state they fall into.                                 *)
(*                                                                         *)
(* The two callbacks http_request sets are modelled with the parser:       *)
(* on_part_data appends to current_file_data, here part, and               *)
(* on_part_data_end moves it to files.  The others are null.  Positions    *)
(* are those of the code, from 0: buf[k] is body[k + 1].                   *)
(***************************************************************************)
EXTENDS Integers, Sequences

CONSTANTS
    Byte,      \* the bytes of a body
    Letters,   \* those tolower() takes to a letter
    Boundary,  \* multipart_boundary, the "--" http_request prepends included
    Uploads    \* the bodies of the requests, each with the parts it was made of

CR == "CR"
LF == "LF"
Blanks == {" ", "TAB"}

Part == [head : Seq(Byte), data : Seq(Byte)]

\* A header value, hence a boundary, holds no CR; http_request never passes an
\* empty one, a content type without boundary= is itself the boundary.
ASSUME MultipartAssumption ==
    /\ {CR, LF, "-", ":"} \cup Blanks \cup Letters \subseteq Byte
    /\ Letters \cap ({CR, LF, "-", ":"} \cup Blanks) = {}
    /\ Boundary \in Seq(Byte) /\ Len(Boundary) > 0
    /\ \A k \in 1..Len(Boundary) : Boundary[k] # CR
    /\ Uploads \subseteq [parts : Seq(Part), body : Seq(Byte)]

VARIABLES
    body,      \* buf
    i, mark,   \* the byte looked at, the first byte not emitted yet
    state,     \* p->state
    index,     \* p->index
    look,      \* p->lookbehind
    part,      \* http_request::current_file_data
    files,     \* http_request::files
    returned,  \* the value returned, -1 while the call runs
    first,     \* where the data of the current part starts (history)
    sent       \* the parts the client made the body of (history)

parser == <<body, i, mark, state, index, look, part, files, returned, first, sent>>

\* malloc leaves the bytes of lookbehind unset.
ParserInit ==
    /\ \E u \in Uploads : body = u.body /\ sent = u.parts
    /\ i = 0 /\ mark = 0 /\ first = 0
    /\ state = "start" /\ index = 0
    /\ look = [k \in 0 .. Len(Boundary) + 1 |-> "unset"]
    /\ part = <<>> /\ files = <<>>
    /\ returned = -1

-----------------------------------------------------------------------------

Char == body[i + 1]
IsLast == i = Len(body) - 1
Piece(from, to) == SubSeq(body, from + 1, to)
\* Mutant: Putting back a look-alike of the boundary forgets its CR LF.
LookbehindWithoutLineEnd(n) == [k \in 1..n-1 |-> look[k]]

Lookbehind(n) == [k \in 1..n |-> look[k - 1]]

\* The head of the loop: the case of the states ss is taken.
Reads(ss) == returned = -1 /\ i < Len(body) /\ state \in ss

Emit(bytes) == part' = part \o bytes

\* Leave the switch with break, then ++i.
Goto(s) == state' = s /\ i' = i + 1 /\ UNCHANGED <<body, returned, sent>>

\* Mutant: The byte that ended a look-alike is taken as data and not looked at again.
ReadAgainSkips ==
    state' = "part_data" /\ mark' = i /\ i' = i + 1 /\ UNCHANGED <<body, returned, sent>>

\* mark = i --, break, ++i: the same byte is read again as part data.
ReadAgain == state' = "part_data" /\ mark' = i /\ UNCHANGED <<body, i, returned, sent>>

Delimiter == Boundary \o <<CR, LF>>

StartBoundary ==
    /\ Reads({"start", "start_boundary"})
    /\ Char = Delimiter[index + 1]
    /\ \/ /\ index + 1 < Len(Delimiter)
          /\ index' = index + 1
          /\ Goto("start_boundary")
       \/ /\ index + 1 = Len(Delimiter)
          /\ index' = 0
          /\ Goto("header_field_start")
    /\ UNCHANGED <<mark, look, part, files, first>>

HeaderField ==
    /\ Reads({"header_field_start", "header_field"})
    /\ mark' = IF state = "header_field_start" THEN i ELSE mark
    /\ \/ Char = CR /\ Goto("headers_almost_done")
       \/ Char \in Blanks \cup {":"} /\ Goto("header_value_start")
       \/ Char \in Letters \cup {"-"} /\ Goto("header_field")
    /\ UNCHANGED <<index, look, part, files, first>>

HeaderValue ==
    /\ Reads({"header_value_start", "header_value"})
    /\ \/ /\ state = "header_value_start" /\ Char \in Blanks
          /\ Goto(state) /\ UNCHANGED mark
       \/ /\ state = "header_value_start" => Char \notin Blanks
          /\ mark' = IF state = "header_value_start" THEN i ELSE mark
          /\ Goto(IF Char = CR THEN "header_value_almost_done" ELSE "header_value")
    /\ UNCHANGED <<index, look, part, files, first>>

\* The LF that ends a header, the headers, or a delimiter between two parts.
LineEnd ==
    /\ \/ Reads({"header_value_almost_done", "part_data_end"}) /\ Goto("header_field_start")
       \/ Reads({"headers_almost_done"}) /\ Goto("part_data_start")
    /\ Char = LF
    /\ UNCHANGED <<mark, index, look, part, files, first>>

PartData ==
    /\ Reads({"part_data_start", "part_data"})
    /\ first' = IF state = "part_data_start" THEN i ELSE first
    /\ LET m == IF state = "part_data_start" THEN i ELSE mark
       IN  \/ /\ Char = CR
              /\ Emit(Piece(m, i))
              /\ mark' = i
              /\ look' = [look EXCEPT ![0] = CR]
              /\ Goto("part_data_almost_boundary")
           \/ /\ Char # CR
              /\ IF IsLast THEN Emit(Piece(m, i + 1)) ELSE UNCHANGED part
              /\ mark' = m
              /\ Goto("part_data")
              /\ UNCHANGED look
    /\ UNCHANGED <<index, files>>

\* Mutant: the match of the boundary starts where the last one ended.
AlmostBoundaryKeepsIndex ==
    /\ Reads({"part_data_almost_boundary"})
    /\ \/ /\ Char = LF
          /\ look' = [look EXCEPT ![1] = LF]
          /\ Goto("part_data_boundary")
          /\ UNCHANGED <<mark, part>>
       \/ /\ Char # LF
          /\ Emit(Lookbehind(1))
          /\ ReadAgain
          /\ UNCHANGED look
    /\ UNCHANGED <<index, files, first>>

AlmostBoundary ==
    /\ Reads({"part_data_almost_boundary"})
    /\ \/ /\ Char = LF
          /\ look' = [look EXCEPT ![1] = LF]
          /\ index' = 0
          /\ Goto("part_data_boundary")
          /\ UNCHANGED <<mark, part>>
       \/ /\ Char # LF
          /\ Emit(Lookbehind(1))
          /\ ReadAgain
          /\ UNCHANGED <<index, look>>
    /\ UNCHANGED <<files, first>>

\* Mutant: The callback keeps current_file_data when it appends it to files.
PartBoundaryKeepsData ==
    /\ Reads({"part_data_boundary"})
    /\ \/ /\ Boundary[index + 1] # Char
          /\ Emit(Lookbehind(2 + index))
          /\ ReadAgain
          /\ UNCHANGED <<index, look, files>>
       \/ /\ Boundary[index + 1] = Char
          /\ look' = [look EXCEPT ![2 + index] = Char]
          /\ index' = index + 1
          /\ UNCHANGED part
          /\ IF index' = Len(Boundary)
             THEN files' = Append(files, part) /\ Goto("part_data_almost_end")
             ELSE Goto("part_data_boundary") /\ UNCHANGED files
          /\ UNCHANGED mark
    /\ UNCHANGED first

PartBoundary ==
    /\ Reads({"part_data_boundary"})
    /\ \/ /\ Boundary[index + 1] # Char
          /\ Emit(Lookbehind(2 + index))
          /\ ReadAgain
          /\ UNCHANGED <<index, look, files>>
       \/ /\ Boundary[index + 1] = Char
          /\ look' = [look EXCEPT ![2 + index] = Char]
          /\ index' = index + 1
          /\ IF index' = Len(Boundary)
             THEN files' = Append(files, part) /\ part' = <<>> /\ Goto("part_data_almost_end")
             ELSE Goto("part_data_boundary") /\ UNCHANGED <<files, part>>
          /\ UNCHANGED mark
    /\ UNCHANGED first

AfterBoundary ==
    /\ \/ Reads({"part_data_almost_end"}) /\ Char = "-" /\ Goto("part_data_final_hyphen")
       \/ Reads({"part_data_almost_end"}) /\ Char = CR /\ Goto("part_data_end")
       \/ Reads({"part_data_final_hyphen"}) /\ Char = "-" /\ Goto("end")
       \/ Reads({"end"}) /\ Goto("end")
    /\ UNCHANGED <<mark, index, look, part, files, first>>

\* Every "return i": the byte is not one the state accepts.
Refuse ==
    /\ \/ Reads({"start", "start_boundary"}) /\ Char # Delimiter[index + 1]
       \/ /\ Reads({"header_field_start", "header_field"})
          /\ Char \notin {CR, ":", "-"} \cup Blanks \cup Letters
       \/ /\ Reads({"headers_almost_done", "header_value_almost_done", "part_data_end"})
          /\ Char # LF
       \/ Reads({"part_data_almost_end"}) /\ Char \notin {"-", CR}
       \/ Reads({"part_data_final_hyphen"}) /\ Char # "-"
    /\ returned' = i
    /\ UNCHANGED <<body, i, mark, state, index, look, part, files, first, sent>>

Finish ==
    /\ returned = -1 /\ i = Len(body)
    /\ returned' = Len(body)
    /\ UNCHANGED <<body, i, mark, state, index, look, part, files, first, sent>>

ParserNext ==
    \/ StartBoundary \/ HeaderField \/ HeaderValue \/ LineEnd
    \/ PartData \/ AlmostBoundary \/ PartBoundary \/ AfterBoundary
    \/ Refuse \/ Finish

ParserSpec == ParserInit /\ [][ParserNext]_parser

-----------------------------------------------------------------------------
(* Properties *)

States == {"start", "start_boundary", "header_field_start", "header_field",
    "headers_almost_done", "header_value_start", "header_value",
    "header_value_almost_done", "part_data_start", "part_data",
    "part_data_almost_boundary", "part_data_boundary", "part_data_almost_end",
    "part_data_end", "part_data_final_hyphen", "end"}

\* The variables have their types; the parser never looks past the body or past
\* the lookbehind buffer it allocated, and the length i - mark of an emitted
\* piece is never negative (all are size_t).
ParserTypeOK ==
    /\ body \in Seq(Byte)
    /\ i \in 0..Len(body) /\ mark \in 0..i /\ first \in 0..i
    /\ state \in States
    /\ index \in 0 .. Len(Boundary) + 1
    /\ state = "part_data_boundary" => index < Len(Boundary)
    /\ look \in [0 .. Len(Boundary) + 1 -> Byte \cup {"unset"}]
    /\ part \in Seq(Byte) /\ files \in Seq(Seq(Byte))
    /\ returned \in -1 .. Len(body)
    /\ sent \in Seq(Part)

\* What has been read of the part and not been emitted.
Pending ==
    CASE state = "part_data" -> IF i = Len(body) THEN <<>> ELSE Piece(mark, i)
      [] state = "part_data_almost_boundary" -> Lookbehind(1)
      [] state = "part_data_boundary" -> Lookbehind(2 + index)
      [] OTHER -> <<>>

\* While a part is read, what the callback has collected followed by what the
\* parser still holds back is exactly the bytes of the body since the part's
\* data began: a look-alike of the boundary, several of them, a CR before a
\* CR, are put back whole and once, though they are emitted from another
\* buffer (lookbehind) than the rest (buf + mark).
PartExact ==
    state \in {"part_data", "part_data_almost_boundary", "part_data_boundary"}
        => part \o Pending = Piece(first, i)

\* What a client may make a part of: a head of header lines, each a name, a
\* colon and a value, and data in which no line begins with the boundary (RFC
\* 2046 has the client choose one that occurs nowhere).
LineBegins(h, o) == o = 0 \/ (o >= 2 /\ h[o - 1] = CR /\ h[o] = LF)
NameAhead(h, o) ==
    \E m \in o + 1 .. Len(h) :
        h[m] = ":" /\ \A k \in o + 1 .. m - 1 : h[k] \in Letters \cup {"-"}
HeaderLines(h) ==
    /\ h # <<>> => Len(h) >= 2 /\ h[Len(h) - 1] = CR
    /\ \A k \in 1..Len(h) : h[k] = CR => k < Len(h) /\ h[k + 1] = LF
    /\ \A o \in 0 .. Len(h) - 1 : LineBegins(h, o) => NameAhead(h, o)
BoundaryAt(d, o) ==
    /\ o + 2 + Len(Boundary) <= Len(d)
    /\ d[o + 1] = CR /\ d[o + 2] = LF
    /\ \A k \in 1..Len(Boundary) : d[o + 2 + k] = Boundary[k]
Writable(p) == HeaderLines(p.head) /\ \A o \in 0..Len(p.data) : ~BoundaryAt(p.data, o)

\* How a client writes a body (RFC 2046, without a preamble).
Encoded[n \in 0..Len(sent)] ==
    IF n = 0 THEN Boundary
    ELSE Encoded[n - 1] \o <<CR, LF>> \o sent[n].head \o <<CR, LF>>
             \o sent[n].data \o <<CR, LF>> \o Boundary
Encode == Encoded[Len(sent)] \o <<"-", "-">>
Contents == [k \in 1..Len(sent) |-> sent[k].data]
IsPrefixOf(s, t) == Len(s) <= Len(t) /\ s = SubSeq(t, 1, Len(s))

\* Of a body a client wrote from one or more parts, http_request::files holds
\* the parts, in order, byte for byte, and never anything else on the way; once
\* the call has returned it holds all of them, and the whole body has been read.
\* Of a body that was cut off it holds no part that did not arrive in full.
FilesExact ==
    /\ IsPrefixOf(body, Encode) => IsPrefixOf(files, Contents)
    /\ sent # <<>> /\ body = Encode /\ returned # -1
        => files = Contents /\ returned = Len(body)

=============================================================================
