--------------------------- MODULE MCProxyGateways ---------------------------
(* ProxyGateways with keys that are awkward to normalise. *)
EXTENDS ProxyGateways

RawNames == { <<>>, <<"a">>, <<"..">>, <<" ", "..">>, <<"/", "a", " ">>, <<"/", " ", "a">>,
              <<"a", "\\", "..">>, <<"a", "/", "a">>, <<"a", "..">> }

BasePrefixes == {<<>>, <<"\\", "p", "/", "/">>, <<"p", "/", "..">>}

(***************************************************************************)
(* normalizeRelativeKey against a definition by segments, for every key of *)
(* at most five tokens.                                                    *)
(***************************************************************************)
Tokens == {S3!Slash, S3!Backslash, S3!Blank, S3!Dots, "a"}
Short  == UNION {[1 .. n -> Tokens] : n \in 0 .. 5}

ASSUME KeysAreNormal == \A raw \in Short : S3!NormalizesWell(raw)

=============================================================================
