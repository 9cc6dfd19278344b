------------------------- MODULE MCRequestPipeline -------------------------
(***************************************************************************)
(* The requests of the runs of RequestPipeline, by name and kind.           *)
(***************************************************************************)
EXTENDS RequestPipeline

KindOf ==
    [insert |-> "execute", update |-> "execute", delete |-> "execute",
     fetch |-> "fetch", closeQuery |-> "closeQuery", ownCloseQuery |-> "closeQuery",
     commit |-> "commit", rollback |-> "rollback",
     version |-> "version", close |-> "close"]

MCKind == [r \in Requests |-> KindOf[r]]
=============================================================================
