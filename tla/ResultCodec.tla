---------------------------- MODULE ResultCodec ----------------------------
(***************************************************************************)
(* How what a remote function returns travels: as a JSON envelope, with an *)
(* .npz file beside it for the arrays.  JSON has neither tuples nor keys   *)
(* that are no strings, so such values go as objects with a tag.           *)
(***************************************************************************)
EXTENDS Integers, SequencesExt

-----------------------------------------------------------------------------
(* Python values and JSON, both as trees.  The kids of a dict, and of an   *)
(* object, are its keys and values in turn.                                *)

Tree(t, leaf, kids) == [t |-> t, leaf |-> leaf, kids |-> kids]
Str(x)     == Tree("str", x, <<>>)
Object(kids) == Tree("object", "", kids)
Array(kids)  == Tree("list", "", kids)
Plain      == {"str", "int"}                 \* and None, bool and float
Parsed     == {"bytes"}                      \* and dates, Decimal, Path, UUID: text with a tag
Sequential == {"tuple", "set"}               \* and frozenset
Numpy      == {"ndarray", "npscalar"}
TAG        == Str("__lium__")
ArrayKeys  == <<Str("a0"), Str("a1"), Str("a2")>>

Undecodable     == Tree("failed", "", <<>>)       \* decode raises

KeysOf(v)  == {v.kids[i] : i \in {i \in DOMAIN v.kids : i % 2 = 1}}

RECURSIVE ArraysOf(_), Travels(_), encode(_, _), decode(_, _)

\* The arrays of a value, in the order in which they are met.
ArraysOf(v) ==
  IF v.t \in Numpy THEN <<v>>
  ELSE FlattenSeq([i \in DOMAIN v.kids |-> ArraysOf(v.kids[i])])

Travels(v) == v.t # "other" /\ \A i \in DOMAIN v.kids : Travels(v.kids[i])

\* n arrays have been met before.
EncodeAll(kids, n) ==
  [i \in DOMAIN kids |->
     encode(kids[i], n + Len(FlattenSeq([j \in 1..(i - 1) |-> ArraysOf(kids[j])])))]

Tagged(t, key, j) == Object(<<TAG, Str(t), Str(key), j>>)

Pairs(kids) == [i \in 1..(Len(kids) \div 2) |-> Array(<<kids[2 * i - 1], kids[2 * i]>>)]

IsObject(v) == TAG \notin KeysOf(v) /\ \A k \in KeysOf(v) : k.t = "str"

encode(v, n) ==
  CASE v.t \in Plain      -> v
    [] v.t \in Parsed     -> Tagged(v.t, "value", Str(v.leaf))
    [] v.t \in Numpy      -> Tagged(v.t, "key", ArrayKeys[n + 1])
    [] v.t = "list"       -> Array(EncodeAll(v.kids, n))
    [] v.t \in Sequential -> Tagged(v.t, "items", Array(EncodeAll(v.kids, n)))
    [] v.t = "dict"       -> IF IsObject(v) THEN Object(EncodeAll(v.kids, n))
                             ELSE Tagged("dict", "items", Array(Pairs(EncodeAll(v.kids, n))))

Field(j, key) ==
  LET at == {i \in DOMAIN j.kids : i % 2 = 1 /\ j.kids[i] = key}
  IN IF at = {} THEN Undecodable ELSE j.kids[(CHOOSE i \in at : TRUE) + 1]

DecodeAll(kids, A) == [i \in DOMAIN kids |-> decode(kids[i], A)]

\* A is the sidecar as it was loaded.
decode(j, A) ==
  LET tag == Field(j, TAG) IN
  CASE j.t \in Plain                 -> j
    [] j.t = "list"                  -> Array(DecodeAll(j.kids, A))
    [] j.t = "object" /\ tag = Undecodable -> Tree("dict", "", DecodeAll(j.kids, A))
    [] OTHER ->
         CASE tag.leaf \in Parsed     -> Tree(tag.leaf, Field(j, Str("value")).leaf, <<>>)
           [] tag.leaf \in Numpy      ->
                LET at == {i \in DOMAIN A : ArrayKeys[i] = Field(j, Str("key"))}
                IN IF at = {} THEN Undecodable ELSE A[CHOOSE i \in at : TRUE]
           [] tag.leaf \in Sequential -> Tree(tag.leaf, "", DecodeAll(Field(j, Str("items")).kids, A))
           [] tag.leaf = "dict"       ->
                Tree("dict", "", FlattenSeq([i \in DOMAIN Field(j, Str("items")).kids |->
                                               DecodeAll(Field(j, Str("items")).kids[i].kids, A)]))
           [] OTHER -> Undecodable

-----------------------------------------------------------------------------
(* What is sent.                                                           *)

Hashable == {Str("x"), TAG, Tree("int", "1", <<>>), Tree("bytes", "b", <<>>)}
Leaves   == Hashable \cup {Tree(t, "n", <<>>) : t \in Numpy} \cup {Tree("other", "", <<>>)}
Small    == {Tree(t, "", <<a>>) : t \in {"list", "tuple"}, a \in Leaves} \cup {Tree("set", "", <<a>>) : a \in Hashable}
            \cup {Tree(t, "", <<>>) : t \in {"list"} \cup Sequential} \cup {Array(<<a, b>>) : a, b \in Leaves}
Dicts(V) == {Tree("dict", "", <<k, v>>) : k \in Hashable, v \in V}
\* A dict of the user's that looks like an envelope's.
Forged   == {Tree("dict", "", <<TAG, Str(t), Str("items"), Array(<<a>>)>>) :
               t \in Sequential \cup {"dict", "unknown"}, a \in Leaves}
Values   == Leaves \cup Small \cup Dicts(Leaves) \cup Forged
            \cup Dicts({Tree("tuple", "", <<a>>) : a \in Leaves}) \cup {Array(<<f>>) : f \in Forged}

\* The arguments of exceptions.
OnlyMessage == Array(<<Str("message")>>)
Args        == {Array(<<a>>) : a \in Leaves}
=============================================================================
