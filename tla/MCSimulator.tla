---------------------------- MODULE MCSimulator ----------------------------
(* Simulator with the station's own tables.                                 *)
EXTENDS Simulator, FsmConfig

\* Every event of the table but error_occurred.
MCEvents == { NormalTransitions[i].trigger : i \in DOMAIN NormalTransitions }
            \cup {"reset_error"}

============================================================================
