---------------------------- MODULE MCConversions ----------------------------
(* What comes in as text, and what goes out: the requests of MCHttpRequest,   *)
(* and tokens and form values.  Each behaviour is of one of them, the other    *)
(* has ended.                                                                  *)
EXTENDS MCHttpRequest, Encoding

CONSTANTS MaxToken, MaxField

\* Bytes with all their bits set or clear on either side of each cut.
MCTokens == BoundedSeq({0, 3, 15, 192, 240, 251, 255}, MaxToken)
\* NUL, a line feed, ' ', '%', '&', '-', '/', '0', '=', 'A', 'z', '~', 255
MCFields == BoundedSeq({0, 10, 32, 37, 38, 45, 47, 48, 61, 65, 122, 126, 255}, MaxField)

\* A request with an empty target, after its constructor.
RequestEnded ==
    /\ target = <<>> /\ multipart = FALSE /\ body = <<>> /\ sent = <<>>
    /\ i = 0 /\ mark = 0 /\ first = 0
    /\ state = "start" /\ index = 0
    /\ look = [k \in 0 .. Len(Boundary) + 1 |-> "unset"]
    /\ part = <<>> /\ files = <<>>
    /\ returned = -1
    /\ c = 0 /\ name = <<>> /\ value = <<>>
    /\ inParams = FALSE /\ inValue = FALSE
    /\ path = <<>> /\ params = <<>>
    /\ split = TRUE

\* An empty form value that was sent.
EncodingEnded ==
    plain = <<>> /\ doing = "sent" /\ read = 0 /\ group = <<>> /\ code = <<>> /\ back = <<>>

ConversionsInit == (Init /\ EncodingEnded) \/ (EncodingInit /\ RequestEnded)
ConversionsNext ==
    \/ Next /\ UNCHANGED encodingVars
    \/ EncodingNext /\ UNCHANGED vars
ConversionsSpec == ConversionsInit /\ [][ConversionsNext]_<<vars, encodingVars>>
=============================================================================
