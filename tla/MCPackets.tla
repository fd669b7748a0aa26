----------------------------- MODULE MCPackets ------------------------------
(* Packets with patterns that overlap themselves and each other, and streams *)
(* with every place for a cut.                                              *)
EXTENDS Packets

MCStreams ==
    [direction : {"in"}, bytes : [1 .. 5 -> {"a", "b"}]]
    \union [direction : {"out"},
            bytes : {<<"a", "b", "a", "LF", "FF">>, <<"ESC", "a", "FF", "b", "a">>, <<"FF">>}]

MCPatterns == {<<>>, <<<<"a", "b", "a">>>>, <<<<"a", "b">>, <<>>, <<"b", "a">>>>, <<<<"b">>, <<"a", "b">>>>}

MCProfiles ==
    [min_bytes : {0}, direction : {"any"}, contains : {<<>>},
     redact : MCPatterns, highlight : MCPatterns, format : {"raw", "compact"}, color : BOOLEAN]
    \union [min_bytes : {0, 3}, direction : {"in", "any"}, contains : {<<>>, <<"b", "b">>},
            redact : {<<<<"b", "b">>>>}, highlight : {<<<<"a">>>>}, format : {"raw"}, color : {TRUE}]
    \union [min_bytes : {0}, direction : {"any"}, contains : {<<>>},
            redact : MCPatterns, highlight : {<<<<"a">>>>},
            format : {"hexdump", "base64", "json"}, color : BOOLEAN]
=============================================================================
