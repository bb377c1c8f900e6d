--------------------------- MODULE CentralSystem ---------------------------
(* Server/central_system.py: on_connect serves one charge point, message by *)
(* message; db_logger.py writes what it saw to PostgreSQL and swallows      *)
(* every failure to do so.                                                  *)
EXTENDS OcppLink, SequencesExt

CONSTANTS
  LogColumns,      \* columns of the table ocpp_logs
  ErrorColumns     \* columns of the table error_logs

VARIABLES
  serving,      \* whether on_connect's loop is still running
  received,     \* requests given to a handler, in order
  ocpp_logs,    \* operations of the rows of ocpp_logs
  error_logs    \* components of the rows of error_logs

centralVars == << serving, received, ocpp_logs, error_logs >>

CentralInit ==
  /\ serving = TRUE
  /\ received = << >>
  /\ ocpp_logs = << >>
  /\ error_logs = << >>

\* The columns the INSERTs of db_logger.py name.
InsertedLogColumns   == {"charge_point_id", "action", "payload", "timestamp"}
InsertedErrorColumns == {"component", "error_message", "details", "timestamp"}

\* The columns CreateTables.sql creates.
CreatedLogColumns   == {"id", "timestamp", "direction", "charge_point_id",
                        "message_type", "payload"}
CreatedErrorColumns == {"id", "timestamp", "charge_point_id", "error_type",
                        "error_message"}

\* insert_ocpp_log and insert_error_log: a statement that names a column the
\* table lacks is an error, printed and dropped.
Logged(rows, row)       == IF InsertedLogColumns \subseteq LogColumns
                           THEN Append(rows, row) ELSE rows
LoggedErrors(rows, new) == IF InsertedErrorColumns \subseteq ErrorColumns
                           THEN rows \o new ELSE rows

\* The reply of the handler of a request: every StartTransaction gets the
\* transaction id 1.
TransactionGiven == 1

ASSUME TransactionAssumption == NoTransaction # TransactionGiven

Reply(m) == [m EXCEPT !.transaction =
               IF m.op = "StartTransaction" THEN TransactionGiven ELSE NoTransaction]

\* Mutant: a message that cannot be answered stays in the buffer.
HandleMessageKeeps ==
  LET m == Head(up)
  IN  /\ serving
      /\ up # << >>
      /\ link = "open"
      /\ up' = Tail(up)
      /\ received' = Append(received, m)
      /\ ocpp_logs' = Logged(ocpp_logs, m.op)
      /\ down' = Append(down, Reply(m))
      /\ UNCHANGED << link, serving, error_logs >>

\* One turn of on_connect's loop.  The reply to a message that arrived before
\* a connection broke cannot be sent: route_message raises, the error is
\* logged and the socket closed again.
HandleMessage ==
  LET m == Head(up)
  IN  /\ serving
      /\ up # << >>
      /\ up' = Tail(up)
      /\ received' = Append(received, m)
      /\ ocpp_logs' = Logged(ocpp_logs, m.op)
      /\ down' = IF link = "open" THEN Append(down, Reply(m)) ELSE down
      /\ error_logs' = LoggedErrors(error_logs,
                         (IF m.op = "DataTransfer" THEN << "client" >> ELSE << >>)
                         \o (IF link = "open" THEN << >> ELSE << "central_system" >>))
      /\ UNCHANGED << link, serving >>

\* The loop ends once the connection is gone and the buffer empty; the
\* finally clause logs it.
ConnectionClosed ==
  /\ serving
  /\ link = "closed" /\ up = << >>
  /\ serving' = FALSE
  /\ error_logs' = LoggedErrors(error_logs, << "websocket" >>)
  /\ UNCHANGED << linkVars, received, ocpp_logs >>

CentralNext == HandleMessage \/ ConnectionClosed

============================================================================
