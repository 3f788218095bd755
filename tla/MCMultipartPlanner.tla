------------------------- MODULE MCMultipartPlanner -------------------------
(* Files of up to five bytes with a minimum part of two bytes and a part  *)
(* size of two: a one-byte PUT run is padded from a following unmodified *)
(* run only when that run is longer than 1 + 2, which needs five bytes,  *)
(* and a PUT run is cut by max_partsize only when longer than 4.         *)
EXTENDS MultipartPlanner

MCMaxSize  == 5
MCMinPart  == 2
MCPartSize == 2

=============================================================================
