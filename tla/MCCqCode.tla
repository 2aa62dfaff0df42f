------------------------------ MODULE MCCqCode ------------------------------
(* Every message of two nodes whose texts and values have two tokens at    *)
(* most, among them all that mean something to the reader.  A second       *)
(* parameter has one token or is null.  The strings that nobody wrote have *)
(* three tokens, or are codes with any two tokens for a type.              *)
EXTENDS CqCode

CONSTANT null

Chars == {"x", "&", "[", "]", ",", "=", "CQ:", "amp;"}
Short == {<<>>} \cup {<<t>> : t \in Chars}
Strs  == Short \cup {<<t, u>> : t, u \in Chars}

MCTokens == Chars \cup {"#91;", "#93;", "#44;", "text", "at", "qq", "id"}

Code(data) == [type |-> <<"at">>, data |-> data]
One(v)     == Code([k \in {<<"qq">>} |-> v])
Two(v, w)  == Code([k \in {<<"qq">>, <<"id">>} |-> IF k = <<"qq">> THEN v ELSE w])

MCNodes ==
  {TextNode(s) : s \in Strs} \cup {One(v) : v \in Strs \cup {null}}
    \cup {Two(v, w) : v \in {<<"x">>, <<"]", ",">>}, w \in Short \cup {null}}
MCMessages == {<<n>> : n \in MCNodes} \cup {<<n, m>> : n, m \in MCNodes}

MCRaws ==
  [1..3 -> Chars]
    \cup {<<"[", "CQ:">> \o s \o <<",", "qq", "=">> \o t \o <<"]">> : s \in Strs, t \in Short}
=============================================================================
