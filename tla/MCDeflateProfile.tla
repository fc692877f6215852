-------------------------- MODULE MCDeflateProfile --------------------------
(* DeflateProfile of every output of up to five bytes, with chains of      *)
(* copies of copies, and questions in every order.                         *)
EXTENDS DeflateProfile
=============================================================================
