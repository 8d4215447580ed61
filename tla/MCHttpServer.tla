--------------------------- MODULE MCHttpServer ---------------------------
(* HttpServer and the lifecycle it implements, on small instances. *)
EXTENDS HttpServerRefinement, TLC

\* Connections are interchangeable: no definition names one.
ConnSymmetry == Permutations(Conns)
=============================================================================
