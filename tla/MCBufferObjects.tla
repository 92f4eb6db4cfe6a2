-------------------------- MODULE MCBufferObjects --------------------------
(***************************************************************************)
(* A pool of five pages of four bytes and three slots.  Sizes: nothing,    *)
(* one byte, a page, a page and a byte, and the largest 32-bit size.       *)
(***************************************************************************)
EXTENDS BufferObjects

AllSizes == {0, 1, Page, Page + 1, Word - 1}
=============================================================================
