--------------------------- MODULE MCCreatorPages ---------------------------
(***************************************************************************)
(* Small instances of CreatorPages for TLC.                                *)
(***************************************************************************)
EXTENDS CreatorPages

\* A draft that is refused, one text in two cases, and one that is not.
SomeDrafts == {
    << <<"a">>, <<" ", "A">> >>,
    << <<"a">>, <<" ">>, <<"b">> >> }

\* Equal slugs, a suffix that meets an identifier of before, and a blank row; an
\* identifier that meets a text.
EdgeDrafts == {
    << <<"a", "-", "b", "-", "x", "x">>, <<"a", " ", "b">>, <<" ">>, <<"a", "-", "b">> >>,
    << <<"id:", "a">>, <<"a">> >> }
=============================================================================
