------------------------------ MODULE MCServices ------------------------------
(* Services with small sets of keys, documents, paths and targets.           *)
EXTENDS Services, TLC

\* Of these keys one lies above the others, which stand beside each other.
SomeKeys == {<<"a">>, <<"a", "b">>, <<"a", "c">>}
SomeDocs == {<<"a", "b">> :> "digits" @@ <<"a", "c">> :> "object"}
SomeNested == {<< <<"a">>, <<"b">> :> "word">>, << <<"a", "c">>, <<>> :> "obj">>}

\* Paths that overlap: each of "/a/:x", "/:x/b" and "/:x/:x" takes targets of
\* the others; the root and a trailing slash.
SomePaths == {<<"">>, <<"a", "">>, <<"a", ":x">>, <<":x", "b">>, <<":x", ":x">>}
SomeTargets ==
    SomePaths \cup {<<>>, <<"a">>, <<"a", "b">>, <<"b", "b">>, <<"b", "a">>, <<"", "b">>}
===============================================================================
