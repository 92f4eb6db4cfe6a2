------------------------------ MODULE MCShell ------------------------------
(***************************************************************************)
(* Lines of up to three characters over two letters and the space, a       *)
(* history of two; the commands share a beginning, so that tab finds one,  *)
(* several or none.                                                        *)
(***************************************************************************)
EXTENDS Shell

Letters == {"a", "b", " "}
AllLines == UNION {[1 .. n -> Letters] : n \in 0 .. MaxLine - 1}
Names == {<<"a", "b">>, <<"a", "a">>, <<"b", "a">>}
RebootLine == <<"b", "b">>
LocalLines == {<<"b", "a">>}
OneValue == <<"1">>
=============================================================================
