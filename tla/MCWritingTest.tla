--------------------------- MODULE MCWritingTest ---------------------------
(* A small instance of WritingTest for TLC: two letters, four words of which *)
(* two fit "a", and two phrases.                                             *)
EXTENDS WritingTest

SmallWords == << <<"b">>, <<"a">>, <<"a", "b">>, <<"a", "a">> >>
SmallPhrases == { <<"a", "b">>, <<"b">> }
=============================================================================
