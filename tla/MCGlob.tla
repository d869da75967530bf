------------------------------- MODULE MCGlob -------------------------------
(***************************************************************************)
(* Four trees, one with names of two characters on three levels, one with  *)
(* names that hold an asterisk, and one with a plus, which std::regex does *)
(* not take for itself, and a line break in a name; and every list of one  *)
(* or two of twenty-one patterns, two of which have a plus.                *)
(***************************************************************************)
EXTENDS Glob

MCChars == {"a", "b", "*", "?", "/", "!", "+", "nl"}
MCSpecial == {"+"}
MCBreaks == {"nl"}

A == <<"a">>
B == <<"b">>
AB == <<"a", "b">>
ABAB == <<"a", "b", "a", "b">>
STAR == <<"*", "b">>
PLUS == <<"a", "+">>
NL == <<"nl">>

MCTrees == {
    {<<A>>, <<A, A>>, <<A, A, B>>, <<A, B>>, <<B>>},
    {<<AB>>, <<AB, AB>>, <<AB, AB, AB>>, <<AB, AB, AB, B>>, <<ABAB>>},
    {<<A>>, <<A, PLUS>>, <<PLUS>>, <<NL>>, <<NL, A>>},
    {<<STAR>>, <<STAR, B>>, <<ABAB>>, <<ABAB, STAR>>, <<ABAB, STAR, A>>}}

MCPatterns == {
    <<>>, <<"/">>, <<"!", "a">>,
    <<"a">>, <<"b", "/">>, <<"/", "a">>, <<"?", "b">>, <<"*">>, <<"*", "a", "b">>,
    <<"a", "*", "b">>, <<"*", "a", "*", "b">>, <<"a", "/", "?">>, <<"a", "b", "/", "*">>,
    <<"*", "*">>, <<"*", "*", "/", "b">>, <<"/", "*", "*", "/", "a">>, <<"a", "b", "/", "*", "*">>,
    <<"a", "/", "*", "*", "/", "b">>, <<"a", "b", "/", "*", "*", "/", "b">>,
    <<"a", "+">>, <<"a", "/", "+">>}

MCLists == {<<p>> : p \in MCPatterns} \cup {<<p, q>> : p, q \in MCPatterns}
=============================================================================
