---------------------------- MODULE MCSessionLife ----------------------------
(* SessionLife with interchangeable requests.                              *)
EXTENDS SessionLife, TLC
Sym == Permutations(Request)
=============================================================================
