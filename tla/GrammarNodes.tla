---------------------------- MODULE GrammarNodes ----------------------------
(* Constructors of the nodes of a grammar: what the functions h_ch, h_token, *)
(* h_sequence and so on of hammer.h store in an HParser.                     *)
EXTENDS Integers

Ch(S) == [kind |-> "ch", sub |-> <<>>, chars |-> S]
Charset(S) == [kind |-> "charset", sub |-> <<>>, chars |-> S]
Token(s) == [kind |-> "token", sub |-> <<>>, str |-> s]
Bits(n, signedp) == [kind |-> "bits", sub |-> <<>>, length |-> 8 * n, signedp |-> signedp]
Leaf(k) == [kind |-> k, sub |-> <<>>]
Op(k, s) == [kind |-> k, sub |-> s]
Sequence(s) == Op("sequence", s)
Choice(s) == Op("choice", s)
Permutation(s) == Op("permutation", s)
Optional(p) == Op("optional", <<p>>)
Ignore(p) == Op("ignore", <<p>>)
Indirect(p) == Op("indirect", <<p>>)
Repeats(p, n, min_p, sep) ==
  [kind |-> "many", sub |-> <<p>>, count |-> n, min_p |-> min_p, sep |-> sep]
Pick(s, which) == [kind |-> "ignoreseq", sub |-> s, which |-> which]
White(p) == [kind |-> "whitespace", sub |-> <<p>>, spaces |-> {0}]
\* The user's action puts a tag on a token, or gives NULL for those of a set.
Dropping(p, tag, S) == [kind |-> "action", sub |-> <<p>>, tag |-> tag, nulls |-> S]
Tagged(p, tag) == Dropping(p, tag, {})
Where(p, S) == [kind |-> "attr_bool", sub |-> <<p>>, accept |-> S]
Put(p, x) == [kind |-> "put", sub |-> <<p>>, name |-> x]
InRange(p, S) == [kind |-> "int_range", sub |-> <<p>>, range |-> S]
GetOf(x) == [kind |-> "get", sub |-> <<>>, name |-> x]
=============================================================================
