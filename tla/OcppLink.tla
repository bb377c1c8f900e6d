------------------------------ MODULE OcppLink ------------------------------
(* The OCPP 1.6 WebSocket between ChargePoint (Client) and CentralSystem    *)
(* (Server): reliable and ordered while it is open.  It is opened once, by  *)
(* setup_charge_point, and nothing reopens it.                              *)
EXTENDS Naturals, Sequences

CONSTANT NoTransaction   \* Python's None, for a transaction id

VARIABLES
  link,   \* "none" before the connection, then "open", then "closed"
  up,     \* requests under way, [id, op, transaction]
  down    \* replies under way, same records: the id and op they answer

linkVars == << link, up, down >>

Operations == { "BootNotification", "Authorize", "StartTransaction", "Heartbeat",
                "StopTransaction", "StatusNotification", "DataTransfer" }

LinkInit == link = "none" /\ up = << >> /\ down = << >>

\* The connection is made (websockets.connect, serve).
LinkOpens == link = "none" /\ link' = "open" /\ UNCHANGED << up, down >>

\* The connection breaks; of what was under way a prefix still arrives.
LinkBreaks ==
  /\ link = "open"
  /\ link' = "closed"
  /\ \E i \in 0..Len(up), j \in 0..Len(down) :
       up' = SubSeq(up, 1, i) /\ down' = SubSeq(down, 1, j)

============================================================================
