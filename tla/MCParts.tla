------------------------------ MODULE MCParts ------------------------------
(***************************************************************************)
(* Each of the parts of Parts, with the codec of ResultCodec.              *)
(***************************************************************************)
EXTENDS Parts

CONSTANTS a1, a2, c1, c2, d1, d2, p1, p2, wA, wB, n1, n2, x, y, k1, k2, h1, h2

Codec == INSTANCE ResultCodec

MCEncodable(v) == Codec!Travels(v)
MCArrays(v)    == Codec!ArraysOf(v)
MCEncode(v, n) == Codec!encode(v, n)
MCDecode(j, A) == Codec!decode(j, A)
MCFailed       == Codec!Undecodable
MCMessage      == Codec!OnlyMessage

MCReturns(v)      == [does |-> "returns", value |-> v, cls |-> "", args |-> Nothing, mute |-> FALSE]
MCRaises(c, a, m) == [does |-> "raises", value |-> Nothing, cls |-> c, args |-> a, mute |-> m]
MCFunctions       == {MCReturns(v) : v \in Codec!Values}
                     \cup {MCRaises(c, a, m) : c \in {"builtin", "fixed", "exit", "mine", "encoding"},
                                               a \in Codec!Args, m \in BOOLEAN}

MCInit ==
  /\ part \in {"mine", "wait", "fund", "copy", "index", "workspaces", "keys", "exec", "pins", "call"}
  /\ Init

MCSpec == MCInit /\ [][Next]_vars /\ W!Fairness
=============================================================================
