------------------------------- MODULE Encoding -------------------------------
(***************************************************************************)
(* base64_encode, which makes the session tokens, with base64_decode, which *)
(* undoes it, and Requests::url_encode, which makes the form that          *)
(* get_token sends to the OAuth server.  Bytes and characters are numbers, *)
(* as in C++; a round of a loop over the input is a step.                  *)
(***************************************************************************)
EXTENDS Integers, Sequences

CONSTANTS
    Tokens,     \* what base64_encode is given
    FormValues  \* what url_encode is given

Octet == 0..255

ASSUME EncodingAssumption == Tokens \cup FormValues \subseteq Seq(Octet)

VARIABLES
    plain,    \* the input
    doing,    \* the function that runs
    read,     \* how much of its input has been read
    group,    \* char_array_3 or char_array_4, as far as it is filled
    code,     \* the encoded characters
    back      \* what decoding code has given

encodingVars == <<plain, doing, read, group, code, back>>

EncodingInit ==
    /\ \/ doing = "base64_encode" /\ plain \in Tokens
       \/ doing = "url_encode" /\ plain \in FormValues
    /\ read = 0
    /\ group = <<>>
    /\ code = <<>>
    /\ back = <<>>

Within(a, c, b) == a <= c /\ c <= b
IsAlnum(c) == Within(48, c, 57) \/ Within(65, c, 90) \/ Within(97, c, 122)

-----------------------------------------------------------------------------
(* base64_encode *)

Equals64 == 61

\* base64_chars[k]
Base64Char(k) ==
    CASE k < 26            -> k + 65
      [] Within(26, k, 51) -> k + 71
      [] Within(52, k, 61) -> k - 4
      [] k = 62            -> 43
      [] k = 63            -> 47

\* char_array_4 of a full char_array_3, as characters.
Quad(b) ==
    <<Base64Char(b[1] \div 4),
      Base64Char((b[1] % 4) * 16 + b[2] \div 16),
      Base64Char((b[2] % 16) * 4 + b[3] \div 64),
      Base64Char(b[3] % 64)>>

\* The array with the rest of it set to zero.
Filled(a, n) == [k \in 1..n |-> IF k <= Len(a) THEN a[k] ELSE 0]

\* The while loop: a byte, and four characters when it completes a group.
EncodeByte ==
    /\ doing = "base64_encode"
    /\ read < Len(plain)
    /\ read' = read + 1
    /\ LET bytes == Append(group, plain[read + 1])
       IN IF Len(bytes) = 3
          THEN code' = code \o Quad(bytes) /\ group' = <<>>
          ELSE group' = bytes /\ UNCHANGED code
    /\ UNCHANGED <<plain, doing, back>>

\* Mutant: the rest gives as many characters as it has bytes.
EncodeRestTooShort ==
    /\ doing = "base64_encode"
    /\ read = Len(plain)
    /\ code' = IF group = <<>> THEN code
               ELSE code \o SubSeq(Quad(Filled(group, 3)), 1, Len(group))
                         \o [k \in 1 .. 4 - Len(group) |-> Equals64]
    /\ group' = <<>>
    /\ read' = 0
    /\ doing' = "base64_decode"
    /\ UNCHANGED <<plain, back>>

\* The bytes that do not make a group: one character more than bytes, and '='.
\* Then code is given to base64_decode.
EncodeRest ==
    /\ doing = "base64_encode"
    /\ read = Len(plain)
    /\ code' = IF group = <<>> THEN code
               ELSE code \o SubSeq(Quad(Filled(group, 3)), 1, Len(group) + 1)
                         \o [k \in 1 .. 3 - Len(group) |-> Equals64]
    /\ group' = <<>>
    /\ read' = 0
    /\ doing' = "base64_decode"
    /\ UNCHANGED <<plain, back>>

-----------------------------------------------------------------------------
(* base64_decode *)

IsBase64(c) == IsAlnum(c) \/ c \in {43, 47}

\* base64_chars.find(c)
Base64Index(c) ==
    CASE Within(65, c, 90)  -> c - 65
      [] Within(97, c, 122) -> c - 71
      [] Within(48, c, 57)  -> c + 4
      [] c = 43             -> 62
      [] c = 47             -> 63

\* char_array_3 of a char_array_4 of indices; an unsigned char keeps 8 bits.
Triple(a) ==
    <<((a[1] * 4) % 256) + ((a[2] \div 16) % 4),
      (a[2] % 16) * 16 + ((a[3] \div 4) % 16),
      (a[3] % 4) * 64 + a[4]>>

Indices(cs) == [k \in DOMAIN cs |-> Base64Index(cs[k])]

Decodes == doing = "base64_decode" /\ read < Len(code) /\ IsBase64(code[read + 1])

\* The while loop: a character, and three bytes when it completes a group.
DecodeChar ==
    /\ Decodes
    /\ read' = read + 1
    /\ LET chars == Append(group, code[read + 1])
       IN IF Len(chars) = 4
          THEN back' = back \o Triple(Indices(chars)) /\ group' = <<>>
          ELSE group' = chars /\ UNCHANGED back
    /\ UNCHANGED <<plain, doing, code>>

\* The characters that do not make a group give one byte less than they are;
\* what the array held behind them gets into no byte that is kept.
DecodeRest ==
    /\ doing = "base64_decode"
    /\ ~Decodes
    /\ back' = IF group = <<>> THEN back
               ELSE back \o SubSeq(Triple(Filled(Indices(group), 4)), 1, Len(group) - 1)
    /\ group' = <<>>
    /\ doing' = "returned"
    /\ UNCHANGED <<plain, read, code>>

-----------------------------------------------------------------------------
(* url_encode *)

Percent == 37

\* Letters, digits, '-', '_', '.' and '~' stay as they are.
Unreserved(c) == IsAlnum(c) \/ c \in {45, 95, 46, 126}

\* uppercase << hex
HexDigit(d) == IF d < 10 THEN d + 48 ELSE d + 55

Escaped(c) == IF Unreserved(c) THEN <<c>> ELSE <<Percent, HexDigit(c \div 16), HexDigit(c % 16)>>

\* The loop over the characters of the value.
UrlEncodeChar ==
    /\ doing = "url_encode"
    /\ read < Len(plain)
    /\ read' = read + 1
    /\ code' = code \o Escaped(plain[read + 1])
    /\ UNCHANGED <<plain, doing, group, back>>

\* The string is returned, and the form has its value.
UrlEncoded ==
    /\ doing = "url_encode"
    /\ read = Len(plain)
    /\ doing' = "sent"
    /\ UNCHANGED <<plain, read, group, code, back>>

EncodingNext ==
    \/ EncodeByte \/ EncodeRest \/ DecodeChar \/ DecodeRest
    \/ UrlEncodeChar \/ UrlEncoded

EncodingSpec == EncodingInit /\ [][EncodingNext]_encodingVars

-----------------------------------------------------------------------------

\* The k-th bit of the input, the highest of the first byte first.
Bit(k) == IF k \div 8 < Len(plain) THEN (plain[k \div 8 + 1] \div 2 ^ (7 - (k % 8))) % 2 ELSE 0

\* Base 64 as RFC 4648 defines it: the bits of the input six by six, filled up
\* with zero bits, and characters up to a multiple of four filled up with '='.
Sextet(j) == 32 * Bit(6 * j) + 16 * Bit(6 * j + 1) + 8 * Bit(6 * j + 2)
             + 4 * Bit(6 * j + 3) + 2 * Bit(6 * j + 4) + Bit(6 * j + 5)
Rfc4648 ==
    [j \in 1 .. 4 * ((Len(plain) + 2) \div 3) |->
        IF 6 * (j - 1) < 8 * Len(plain) THEN Base64Char(Sextet(j - 1)) ELSE Equals64]

\* What a server reads in a form value: an escape is the byte of its two hex
\* digits, and a character that is not an escape stands for itself.
HexValue(h) == IF h < 65 THEN h - 48 ELSE h - 55
Unescaped ==
    LET from[k \in 1 .. Len(code) + 3] ==
            IF k > Len(code) THEN <<>>
            ELSE IF code[k] = Percent
                 THEN <<16 * HexValue(code[k + 1]) + HexValue(code[k + 2])>> \o from[k + 3]
                 ELSE <<code[k]>> \o from[k + 1]
    IN from[1]

\* A session token is the base 64 of its bytes and decodes to them, whatever
\* their number is modulo three; a form value holds no character that the
\* server would take for a separator, and is read there as it was.
EncodingExact ==
    /\ doing \in {"base64_decode", "returned"} => code = Rfc4648
    /\ doing = "returned" => back = plain
    /\ doing = "sent" =>
        /\ \A k \in DOMAIN code : Unreserved(code[k]) \/ code[k] = Percent
        /\ Unescaped = plain
=============================================================================
