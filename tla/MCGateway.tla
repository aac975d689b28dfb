----------------------------- MODULE MCGateway -----------------------------
(* Small instances of Gateway for TLC. *)
EXTENDS Gateway

CONSTANTS k1, k2, t1, t2, m1, m2, a, b

M(kind, id) == [kind |-> kind, id |-> id]

\* t1 is holder-bound, t2 is a bearer token.
OneBound == [t \in {t1, t2} |-> IF t = t1 THEN k1 ELSE None]

P(batch, tok, path) == [batch |-> batch, tok |-> tok, path |-> path]

\* Ids that differ and that agree, notifications, every kind of message.
MixedPosts ==
    {P(<<M("call", m1), M("call", m1)>>, t1, a),
     P(<<M("list", m1), M("call", NoId)>>, t1, b),
     P(<<M("call", m1), M("call", m2)>>, t2, a),
     P(<<M("nameless", m1), M("other", m1)>>, t2, b)}

B(key, tok, path) == [key |-> key, tok |-> tok, path |-> path]

\* Good for every request of the holder, for one path, for the other token, and
\* a key that is not the holder's.
MixedBindings == {B(k1, None, None), B(k1, t1, a), B(k1, t2, a), B(k2, t1, None)}

TwoCalls == {P(<<M("call", m1), M("call", m2)>>, t1, a), P(<<M("call", m1)>>, t1, a)}

AnyPath == {B(k1, None, None), B(k1, t1, a)}

=============================================================================
