---------------------------- MODULE MCHttpRequest ----------------------------
(* Bodies of one part with any data of up to MaxData bytes and of two shorter *)
(* parts, whole and cut off at every byte, and bodies that go wrong after the *)
(* first delimiter; targets of up to MaxQuery characters and some longer ones *)
EXTENDS HttpRequest, SequencesExt

CONSTANTS MaxData, MaxQuery

MCBoundary == <<"-", "-", "b">>
MCByte == {"CR", "LF", "-", ":", " ", "TAB", "b", "0"}
Data == {"CR", "LF", "-", "b"}

Heads == {<<>>, <<"b", ":", " ", "0", "CR", "LF">>,
          <<"b", ":", "CR", "LF", "-", ":", "b", "LF", "CR", "LF">>}
Write(ps) ==
    FoldLeft(LAMBDA text, p : text \o <<"CR", "LF">> \o p.head \o <<"CR", "LF">> \o p.data
                                  \o <<"CR", "LF">> \o MCBoundary, MCBoundary, ps)
        \o <<"-", "-">>
PartsUpTo(n, heads) ==
    {p \in [head : heads, data : BoundedSeq(Data, n)] : Writable(p)}
Whole(ps) == [parts |-> ps, body |-> Write(ps)]
CutOff(ps) == {[parts |-> ps, body |-> SubSeq(Write(ps), 1, n)] : n \in 0..Len(Write(ps))}

One == {<<p>> : p \in PartsUpTo(MaxData, {<<>>})}
Two == {<<p, q>> : p, q \in PartsUpTo(1, Heads)}
Odd == {[parts |-> <<>>, body |-> MCBoundary \o s] : s \in BoundedSeq(MCByte, 3)}
MCUploads == {Whole(ps) : ps \in One \cup Two} \cup UNION {CutOff(ps) : ps \in One \cup Two} \cup Odd

Empty == [parts |-> <<>>, body |-> <<>>]
Queries == {<<"/">> \o q : q \in BoundedSeq({"?", "=", "&", "a", "b"}, MaxQuery)}
           \cup {<<"?">> \o q : q \in BoundedSeq({"=", "&", "a", "b"}, MaxQuery + 1)}
           \cup {<<"a", "?", "a", "=", "b", "&", "a", "=", "a">> \o q
                     : q \in BoundedSeq({"&", "a", "="}, 1)}
MCCharacters == {"/", "?", "#", "=", "&", "a", "b"}
MCTargets == Queries \cup {<<>>}
AllUploads == MCUploads \cup {Empty}
MCRequests ==
    [target : MCTargets, upload : {Empty}, multipart : {FALSE}]
    \cup [target : {<<"/">>}, upload : AllUploads, multipart : {TRUE}]
=============================================================================
