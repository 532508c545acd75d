------------------------------ MODULE EntityKey ------------------------------
(***************************************************************************)
(* How a business key becomes part of a URL, and what a server makes of    *)
(* it: ODataClient._encode_odata_string_value and _build_entity_url, with  *)
(* the server's reading of an OData key predicate (external).  A text is a *)
(* sequence of symbols.  A symbol stands for one character, except that    *)
(* the two hexadecimal digits of an escape are one symbol, so that a key   *)
(* may itself contain the text of an escape.                               *)
(***************************************************************************)
EXTENDS Naturals, SequencesExt

(* The characters quote(safe="") replaces, and the digits it writes.       *)
Reserved == {"'", "%", "/"}
Hex == [c \in Reserved |-> CASE c = "'" -> "27" [] c = "%" -> "25" [] c = "/" -> "2F"]

Unescaped == {"s", ")", "27", "2F"}
Symbols == Reserved \cup Unescaped

MapText(Piece(_), text) == FlattenSeq([i \in DOMAIN text |-> Piece(text[i])])

DoubleQuotes(text) ==
    LET Piece(c) == IF c = "'" THEN <<c, c>> ELSE <<c>> IN MapText(Piece, text)

PercentEncode(text) ==
    LET Piece(c) == IF c \in Reserved THEN <<"%", Hex[c]>> ELSE <<c>>
    IN MapText(Piece, text)

EncodedReordered(text) == DoubleQuotes(PercentEncode(text))

(* The two transforms, "distinct, ordered".                                *)
Encoded(text) == PercentEncode(DoubleQuotes(text))

EntityUrl(key) == <<"set(key='">> \o Encoded(key) \o <<"')">>

-----------------------------------------------------------------------------
(* The server: the path is split at each "/", the segment is decoded, and  *)
(* in the literal '' stands for one quote while a lone one ends it.        *)

NoRow == <<"no row">>

HasDigits(text, i) ==
    i < Len(text) /\ text[i] = "%" /\ \E c \in Reserved : Hex[c] = text[i + 1]

PercentDecode(text) ==
    LET decode[i \in 1..(Len(text) + 2)] ==
            IF i > Len(text) THEN <<>>
            ELSE IF HasDigits(text, i)
                 THEN <<CHOOSE c \in Reserved : Hex[c] = text[i + 1]>> \o decode[i + 2]
            ELSE <<text[i]>> \o decode[i + 1]
    IN decode[1]

(* The text of the literal, or NoRow if a quote in it is not doubled.      *)
ReadLiteral(text) ==
    LET read[i \in 1..(Len(text) + 2)] ==
            IF i > Len(text) THEN <<>>
            ELSE IF text[i] # "'" THEN <<text[i]>> \o read[i + 1]
            ELSE IF i < Len(text) /\ text[i + 1] = "'" THEN <<"'">> \o read[i + 2]
            ELSE NoRow
    IN IF NoRow[1] \in ToSet(read[1]) THEN NoRow ELSE read[1]

(* The key of the row the server takes the URL to name, if it names one.   *)
RowNamed(url) ==
    LET literal == SubSeq(url, 2, Len(url) - 1)
    IN IF "/" \in ToSet(literal) THEN NoRow
       ELSE ReadLiteral(PercentDecode(literal))
=============================================================================
