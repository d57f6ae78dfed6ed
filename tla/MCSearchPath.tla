---------------------------- MODULE MCSearchPath ----------------------------
EXTENDS SearchPath
a == <<DIR, "a">>
b == <<DIR, "b">>
\* The same directory with a separator at its end, and with two at its start.
aSlash == a \o <<DIR>>
bDouble == <<DIR>> \o b
Spelt == {aSlash, bDouble}
\* Empty elements between the others and at the end.
Paths == {a \o <<SEP, SEP>> \o bDouble \o <<SEP>>}
Else == <<NULL, <<SEP>> \o b>>
InDir == (<<"a">> :> {<<1, "la">>, <<1, "so">>, <<2, "so">>}) @@ (<<"b">> :> {<<1, "so">>})
ModuleDirs == {<<b>>}
=============================================================================
