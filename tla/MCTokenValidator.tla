-------------------------- MODULE MCTokenValidator --------------------------
(***************************************************************************)
(* Two RSA keys that the issuer publishes alone, together in either order, *)
(* or with a key of another type in front or behind.                       *)
(***************************************************************************)
EXTENDS TokenValidator

K1 == [id |-> "k1", type |-> "RSA"]
K2 == [id |-> "k2", type |-> "RSA"]
E1 == [id |-> "e1", type |-> "EC"]

MCKeySets == {<<>>, <<K1>>, <<K1, K2>>, <<K2, K1>>, <<E1, K2>>, <<K1, E1>>}

Token(key, claims) == [key |-> key, claims |-> claims]

MCTokens ==
    { Token("k1", [sub |-> "s", email |-> "m"]),
      Token("k2", [sub |-> "s", uid |-> "u"]),
      Token("k2", [sub |-> NotString, email |-> "m"]) }
=============================================================================
