---------------------------- MODULE MCMainWindow ----------------------------
(* MainWindow with the station's own tables and a short charge.             *)
EXTENDS MainWindow, FsmConfig

\* Every event of the table but error_occurred.
MCEvents == { NormalTransitions[i].trigger : i \in DOMAIN NormalTransitions }
            \cup {"reset_error"}

============================================================================
