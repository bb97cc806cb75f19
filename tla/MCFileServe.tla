----------------------------- MODULE MCFileServe -----------------------------
(***************************************************************************)
(* Instances of FileServe: two entries at the root's top level, the first  *)
(* of which may be a directory with an entry of the other's name, and the  *)
(* second a link to it.                                                    *)
(***************************************************************************)
EXTENDS FileServe

MCNames  == {"a", "b"}
MCPlaces == {<<"a">>, <<"b">>, <<"a", "b">>}
MCLinkTo == <<"a">>

\* The URL that is printed, a directory's without its slash, and one that tries
\* to go up.
MCTyped == {[parts |-> <<>>, slash |-> TRUE], [parts |-> <<"a">>, slash |-> FALSE],
            [parts |-> <<"..", "a">>, slash |-> FALSE]}
==============================================================================
