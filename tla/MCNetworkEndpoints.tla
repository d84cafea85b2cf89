------------------------- MODULE MCNetworkEndpoints -------------------------
(* The image sender and the data exchange share no state but the UI thread, *)
(* which finishes one call before the next: the run explores the states in  *)
(* which at most one of the two has been used, with larger bounds for each. *)
EXTENDS NetworkEndpoints

SenderUnused == opens = 0 /\ given = 0 /\ wanted["image"] = 0

ExchangeUnused == /\ \A c \in Exchange : wanted[c] = 0 /\ bound[c] = NotBound
                  /\ master = NoMaster /\ stage = "idle" /\ messages = {}

OneUsed == SenderUnused \/ ExchangeUnused

=============================================================================
