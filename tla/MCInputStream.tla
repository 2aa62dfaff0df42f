--------------------------- MODULE MCInputStream ---------------------------
(* Number 1 is a friend and a member of group 7, and another friend has    *)
(* the number of the group.  MCMixed is a message of the member in the     *)
(* group and one of the friend he is.                                      *)
EXTENDS InputStream

CONSTANTS r1, r2, a1, a2

S(u, g) == [user |-> u, group |-> g]
M(i, u, g) == [id |-> i, user |-> u, group |-> g]

MCStreams == {S(1, 0), S(7, 0), S(0, 7), S(1, 7)}
MCMixed   == <<M(1, 1, 7), M(2, 1, 0)>>
=============================================================================
