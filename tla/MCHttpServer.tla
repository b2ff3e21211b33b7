---------------------------- MODULE MCHttpServer ----------------------------
(* A phone in the network of the soft AP, a browser that comes through the *)
(* station interface and reads a page, and the app, which posts to the API *)
(* a body that just fits in the buffer.                                    *)
EXTENDS HttpServer, TLC

CONSTANTS ap, sta, app

R(url, len, foreign) == [url |-> url, len |-> len, foreign |-> foreign]

MCRequests ==
    (ap :> {R("missing", 0, TRUE)})
        @@ (sta :> {R("file", 0, TRUE)})
        @@ (app :> {R("api", 2, FALSE)})
=============================================================================
