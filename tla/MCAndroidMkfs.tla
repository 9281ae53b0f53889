---------------------------- MODULE MCAndroidMkfs ----------------------------
(* Archives of up to five blocks: among them one where a block's number is  *)
(* the number of blocks transferred, and one with room for a long name.     *)
EXTENDS AndroidMkfs
=============================================================================
