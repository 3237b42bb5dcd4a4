---------------------------- MODULE MCAsyncFile ----------------------------
(* A file of two bytes and a program with one Data of its own.           *)
EXTENDS AsyncFile

CONSTANT kept

MCNames == {buffer, tmp, kept}
MCFile  == <<1, 2>>
=============================================================================
