------------------------------ MODULE MCBitmap ------------------------------
(* Model-checking instance of Bitmap: constants given in the .cfg file. *)
EXTENDS Bitmap
=============================================================================
