------------------------------ MODULE MC_Config ------------------------------
(* Small inputs for Config: lines of a file over the characters a, k, x,   *)
(* '=', '\', '#', ' ' and the domain brackets; keys and values that       *)
(* need escaping.                                                         *)
EXTENDS Config

MCLines == {<<"<", "x", ">">>, <<"<", "/", "x", ">">>, <<"a", "=", "a">>,
            <<"a", "\\", "\\", "=", "a">>, <<"#", "a">>, <<"k">>}
MCCurPaths == {<<>>, <<<<"x">>>>}
MCNames == {<<"x">>, <<"y">>}
MCKeys == {<<"a">>, <<"a", "=">>, <<"a", "\\">>}
MCVals == {<<>>, <<"a">>}

=============================================================================
