---------------------------- MODULE MCImageLayout ----------------------------
(***************************************************************************)
(* Build files of up to three files and any number of scripts.             *)
(***************************************************************************)
EXTENDS ImageLayout

\* Paths and data of every remainder by four, data of no byte among them.
MCPaths == {2, 3, 5, 8}
MCSizes == {0, 1, 2, 7}

\* A space, a digit and two letters; sizes that end the directory, are too short
\* for a file or a directory, fit, and lead out of the image.
MCChars == {32, 57, 97, 112}
MCWords == {0, 12, 24, 40, 300}
=============================================================================
