------------------------- MODULE MCCommandPipeline -------------------------
(***************************************************************************)
(* Small instances of CommandPipeline: which commands the request ids      *)
(* carry, and the symmetry of the scopes.                                  *)
(***************************************************************************)
EXTENDS CommandPipeline, TLC

CONSTANTS create, refusedCreate, cancel, otherCancel, missingCancel, invalidCancel,
          order

(* One id per path through the command handlers.                           *)
MCCommand == [r \in RequestId |->
    CASE r = create        -> [type |-> "CreateOrder", order |-> order, verdict |-> "applies"]
      [] r = refusedCreate -> [type |-> "CreateOrder", order |-> order, verdict |-> "refused"]
      [] r = missingCancel -> [type |-> "CancelOrder", order |-> order, verdict |-> "missing"]
      [] r = invalidCancel -> [type |-> "CancelOrder", order |-> order, verdict |-> "invalid"]
      [] OTHER             -> [type |-> "CancelOrder", order |-> order, verdict |-> "applies"]]

ScopeSymmetry == Permutations(Scope)
=============================================================================
