--------------------------- MODULE MCHttp2Session ---------------------------
(***************************************************************************)
(* Small instances of an HTTP/2 session.                                   *)
(***************************************************************************)
EXTENDS Http2Session
=============================================================================
