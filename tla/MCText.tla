------------------------------- MODULE MCText -------------------------------
(***************************************************************************)
(* A screen of two rows of eight, three printing calls on it, and eight-bit *)
(* integers.  Strings are short runs of a letter, a tab, a newline, the    *)
(* delimiter, a character above 127 and a NUL.                             *)
(***************************************************************************)
EXTENDS Console

slash == 47
SomeCursors == {0, 7, 15}
SomeStrings ==
  { <<97>>, <<TAB>>, <<NL>>, <<200, NUL, 98>>, <<97, TAB, 98, NL, 99>>,
    <<slash, 97, 98, 99, 100, slash, slash, 98, slash, 97, 98>>, <<97, slash, 98>>,
    <<97, 98, 99, 100, 101, 102, 103, NL, 104, 105, 106, 107, 108, 109, 110, 111, 112>> }
\* "%s %d", "%d%%%x", "%c%s", "%d%s", "a%qb"
SomeFormats ==
  { << <<37, 115, 32, 37, 100>>, <<RA, -5>> >>, << <<37, 100, 37, 37, 37, 120>>, <<42, -1>> >>,
    << <<37, 99, 37, 115>>, <<120, RA>> >>, << <<37, 100, 37, 115>>, <<7, RA>> >>,
    << <<97, 37, 113, 98>>, <<>> >> }
SomeSizes == {0, 1, 2, 4, 20}
SomeUnits == {0, 1023, 1024, 1025, 1048575, 1048576, 5000000}
=============================================================================
