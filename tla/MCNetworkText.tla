--------------------------- MODULE MCNetworkText ---------------------------
(***************************************************************************)
(* Small instances of NetworkText: messages of at most three bytes, two of *)
(* them text, so that texts of five bytes take three messages.             *)
(***************************************************************************)
EXTENDS NetworkText

\* Every text of up to five of the bytes 1 and 2.  Read as a length, 1 is a message
\* without text and 2 one of two bytes.
MCTexts == BoundedSeq({1, 2}, 5)

AllPaths == {"unix", "request", "response"}
Request == {"request"}
=============================================================================
