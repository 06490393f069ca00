---------------------------- MODULE MCHttpConnection ----------------------------
(***************************************************************************)
(* A small instance: requests with and without a body, to be kept alive,   *)
(* to be closed or silent about it, HEAD, and a malformed one.             *)
(***************************************************************************)
EXTENDS HttpConnection

Req(head, len, conn, ok) == [head |-> head, len |-> len, conn |-> conn, ok |-> ok]

MCReqSet ==
  { Req(FALSE, 0, "none", TRUE), Req(FALSE, 2, "keep-alive", TRUE),
    Req(FALSE, 1, "close", TRUE), Req(TRUE, 0, "keep-alive", TRUE),
    Req(FALSE, 0, "none", FALSE) }

\* One of them for the run that looks at the late answer of async_url_get.
MCPlainReqSet == { Req(FALSE, 0, "none", TRUE) }
=============================================================================
