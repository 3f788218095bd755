---------------------------- MODULE MCCurlSlist ----------------------------
(* The passing run takes the header names a, A, aa and b (MCKeys replaces  *)
(* Keys): three names without case, so an insert can land before, between *)
(* and after entries (aa goes between a and b), two keys that differ only  *)
(* in case (a, A), and a name that is a prefix of another (a, aa).  The    *)
(* values are the empty value and two others, so that a replace changes  *)
(* the value.  The violation configurations keep Keys as CurlSlist        *)
(* defines it over ' ', 'a' and 'b', so a key can carry a blank before or *)
(* after a letter.                                                         *)
EXTENDS CurlUrl

MCKeyChars == {65, 97, 98}
MCKeyCharsBlank == {32, 97, 98}
MCMaxKeyLen == 2
MCKeys == {<<97>>, <<65>>, <<97, 97>>, <<98>>}
MCVals == {0, 1, 2}
MCMaxLen == 3
=============================================================================
