---- MODULE MCFileRequests ----
(***************************************************************************)
(* Files of up to a dozen bytes against buffers of three and four, so that *)
(* every end of line, file and download meets every end of a buffer.       *)
(***************************************************************************)
EXTENDS FileRequests

MCNewLines == {<<>>, <<New>>, <<New, New, New, New>>}
====
