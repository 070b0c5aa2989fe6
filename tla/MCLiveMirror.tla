---------------------------- MODULE MCLiveMirror ----------------------------
(* Model-checking instance of LiveMirror.                                  *)
EXTENDS LiveMirror
=============================================================================
