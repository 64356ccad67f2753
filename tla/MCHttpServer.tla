---------------------------- MODULE MCHttpServer ----------------------------
(* All paths of up to two components, and those of three that go down first. *)
EXTENDS HttpServer
MCRequests == {<<x>> : x \in Components} \cup (Components \X Components)
                 \cup {<<"a", x, y>> : x \in Components, y \in {"..", "a"}}
=============================================================================
