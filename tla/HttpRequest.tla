----------------------------- MODULE HttpRequest -----------------------------
(***************************************************************************)
(* The constructor of http_request: the target is split into path and      *)
(* url_params in one pass, then, when the content type says multipart, the *)
(* body is split into files by the parser of MultipartParser.  Headers are *)
(* copied and not modelled further; of the content type only whether it    *)
(* contains "multipart" matters, an absent one counts as JSON.             *)
(*                                                                         *)
(* The maps are functions with a growing domain; operator[]= overwrites,   *)
(* emplace does not.                                                       *)
(***************************************************************************)
EXTENDS MultipartParser, FiniteSets

CONSTANTS
    Characters, \* those of a target
    Targets,    \* the request targets
    Requests    \* [target, upload, multipart] records: what clients send

ASSUME RequestAssumption ==
    /\ Targets \subseteq Seq(Characters)
    /\ Requests \subseteq [target : Targets, upload : Uploads, multipart : BOOLEAN]

VARIABLES
    target, multipart,  \* of _req
    c,                  \* how many characters of the target have been read
    name, value,        \* current_param_name, current_param_value
    inParams, inValue,  \* in_params, in_value
    path, params,       \* http_request::path, url_params
    split               \* the last piece of the target has been handled

query == <<target, multipart, c, name, value, inParams, inValue, path, params, split>>
vars == <<query, parser>>

Init ==
    /\ \E r \in Requests :
        /\ target = r.target /\ multipart = r.multipart
        /\ body = r.upload.body /\ sent = r.upload.parts
    /\ i = 0 /\ mark = 0 /\ first = 0
    /\ state = "start" /\ index = 0
    /\ look = [k \in 0 .. Len(Boundary) + 1 |-> "unset"]
    /\ part = <<>> /\ files = <<>>
    /\ returned = -1
    /\ c = 0 /\ name = <<>> /\ value = <<>>
    /\ inParams = FALSE /\ inValue = FALSE
    /\ path = <<>> /\ params = <<>>
    /\ split = FALSE

-----------------------------------------------------------------------------

Store(f, k, v) == [x \in DOMAIN f \cup {k} |-> IF x = k THEN v ELSE f[x]]
Emplace(f, k, v) == IF k \in DOMAIN f THEN f ELSE Store(f, k, v)

NextChar == target[c + 1]

\* One round of the for loop over the target, whatever the branch.
ReadsTarget == c < Len(target) /\ c' = c + 1 /\ UNCHANGED <<target, multipart, split, parser>>

\* Mutant: The name is kept when the path is taken from it.
SeparatorKeepsName ==
    /\ ReadsTarget
    /\ NextChar \in {"?", "#"}
    /\ path' = name
    /\ name' = Append(name, NextChar)
    /\ inParams' = TRUE
    /\ UNCHANGED <<value, inValue, params>>

\* Any '?' or '#' makes what was collected the path, the second one too.
Separator ==
    /\ ReadsTarget
    /\ NextChar \in {"?", "#"}
    /\ path' = name
    /\ name' = <<>>
    /\ inParams' = TRUE
    /\ UNCHANGED <<value, inValue, params>>

Equals ==
    /\ ReadsTarget
    /\ NextChar = "=" /\ inParams /\ ~inValue
    /\ inValue' = TRUE
    /\ UNCHANGED <<name, value, inParams, path, params>>

\* Mutant: The next parameter starts with the value of the one before.
AmpersandKeepsValue ==
    /\ ReadsTarget
    /\ NextChar = "&" /\ inParams
    /\ params' = Store(params, name, value)
    /\ name' = <<>>
    /\ inValue' = FALSE
    /\ UNCHANGED <<value, inParams, path>>

Ampersand ==
    /\ ReadsTarget
    /\ NextChar = "&" /\ inParams
    /\ params' = Store(params, name, value)
    /\ name' = <<>> /\ value' = <<>>
    /\ inValue' = FALSE
    /\ UNCHANGED <<inParams, path>>

Ordinary ==
    /\ ReadsTarget
    /\ NextChar \notin {"?", "#"}
    /\ NextChar = "=" => ~inParams \/ inValue
    /\ NextChar = "&" => ~inParams
    /\ IF inParams /\ inValue
       THEN value' = Append(value, NextChar) /\ UNCHANGED name
       ELSE name' = Append(name, NextChar) /\ UNCHANGED value
    /\ UNCHANGED <<inParams, inValue, path, params>>

\* "when we reach the end of the string we need to handle the last piece"
LastPiece ==
    /\ c = Len(target) /\ ~split
    /\ split' = TRUE
    /\ IF Len(name) = 0 THEN UNCHANGED <<path, params>>
       ELSE IF inParams THEN params' = Emplace(params, name, value) /\ UNCHANGED path
       ELSE path' = name /\ UNCHANGED params
    /\ UNCHANGED <<target, multipart, c, name, value, inParams, inValue, parser>>

\* multipart_parser_execute; its result is not looked at.
ParseBody == split /\ multipart /\ ParserNext /\ UNCHANGED query

SplitTarget == Separator \/ Equals \/ Ampersand \/ Ordinary \/ LastPiece

Next == SplitTarget \/ ParseBody

Spec == Init /\ [][Next]_vars

-----------------------------------------------------------------------------
(* Properties *)

Pieces(s) == {SubSeq(s, a, b) : a \in 1 .. Len(s) + 1, b \in 0..Len(s)}

\* The variables have their types; the path and a parameter's name are pieces
\* of the target (a value need not be one: a second '?' in it is left out).
TypeOK ==
    /\ ParserTypeOK
    /\ target \in Seq(Characters) /\ c \in 0..Len(target) /\ multipart \in BOOLEAN
    /\ value \in Seq(Characters) /\ params \in [DOMAIN params -> Seq(Characters)]
    /\ {name, path} \cup DOMAIN params \subseteq Pieces(target)
    /\ inParams \in BOOLEAN /\ inValue \in BOOLEAN /\ split \in BOOLEAN

Separators == {k \in 1..Len(target) : target[k] \in {"?", "#"}}

\* The fields of a target with one separator, as intervals of positions.
Start == CHOOSE k \in Separators : TRUE
Cuts == {Start, Len(target) + 1} \cup {k \in Start..Len(target) : target[k] = "&"}
Fields == {f \in Cuts \X Cuts : f[1] < f[2] /\ \A k \in Cuts : k <= f[1] \/ f[2] <= k}
EqualSigns(f) == {k \in f[1] + 1 .. f[2] - 1 : target[k] = "="}
NameEnd(f) == IF EqualSigns(f) = {} THEN f[2]
              ELSE CHOOSE k \in EqualSigns(f) : \A m \in EqualSigns(f) : k <= m
NameOf(f) == SubSeq(target, f[1] + 1, NameEnd(f) - 1)
ValueOf(f) == SubSeq(target, NameEnd(f) + 1, f[2] - 1)
IsLastField(f) == f[2] = Len(target) + 1

\* Of two fields of one name the later is kept, unless it is the target's last.
Wins(f) ==
    \A g \in Fields \ {f} : NameOf(g) = NameOf(f) =>
        IF IsLastField(f) THEN FALSE ELSE g[1] < f[1] \/ IsLastField(g)
Kept == {f \in Fields : Wins(f) /\ (IsLastField(f) => NameOf(f) # <<>>)}

\* A target without '?' and '#' is the path.  With one of them, what precedes it
\* is the path and url_params holds the fields that follow: each name with what
\* is between its first '=' and the next '&', whatever the order and number of
\* empty names, missing values and further '='.  With several, nothing is said:
\* the code then takes the last piece before a separator for the path.
TargetExact ==
    split =>
        /\ Separators = {} => path = target /\ params = <<>>
        /\ Cardinality(Separators) = 1 =>
            /\ path = SubSeq(target, 1, Start - 1)
            /\ DOMAIN params = {NameOf(f) : f \in Kept}
            /\ \A f \in Kept : params[NameOf(f)] = ValueOf(f)

=============================================================================
