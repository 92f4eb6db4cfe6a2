--------------------------- MODULE MCConfigServer ---------------------------
(***************************************************************************)
(* Requests of every route: the list, a key, a key that is not there, and  *)
(* a PUT of each, of a body that does not parse, and of a port that is no  *)
(* number; the threads of the pool block SIGTERM and not SIGINT.           *)
(***************************************************************************)
EXTENDS ConfigServer

CONSTANTS w1, w2

Request(method, target, value, wellFormed) ==
    [method |-> method, target |-> target, value |-> value, wellFormed |-> wellFormed]

MCRequests == {Request("GET", "all", "8080", TRUE), Request("GET", "configsrv_port", "8080", TRUE),
               Request("GET", "missing", "8080", TRUE), Request("GET", "file", "8080", TRUE),
               Request("PUT", "configsrv_dist", "text", TRUE), Request("PUT", "configsrv_port", "text", TRUE),
               Request("PUT", "configsrv_port", "8080", TRUE), Request("PUT", "missing", "text", TRUE),
               Request("PUT", "configsrv_dist", "text", FALSE), Request("PUT", "all", "text", TRUE),
               Request("DELETE", "configsrv_dist", "text", TRUE)}
=============================================================================
