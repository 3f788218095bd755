----------------------------- MODULE MCPageList -----------------------------
(* Model-checking instance of PageList: files of up to four bytes, every  *)
(* operation with every argument, so that every split, cut, gap and      *)
(* merge case of the list algorithms occurs.                              *)
EXTENDS SparseFile

MCMaxSize == 4

\* files of up to three bytes for the refinement check, whose abstract
\* next-state relation is evaluated on every step
MCMaxSizeRefine == 3

=============================================================================
