--------------------------- MODULE MCProjectServer --------------------------
(* Requests on one project over the models of SmallModels.                 *)
EXTENDS ProjectServer, SmallModels
=============================================================================
