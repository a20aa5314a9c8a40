------------------------- MODULE MCCallbackDelivery -------------------------
(* Two workers: one reports a whole Pilot, one pauses before it started.   *)
EXTENDS CallbackDelivery, TLC

Reports ==
    "j1" :> <<"PILOT_STARTED", "THRESHOLD_BREACHED",
              "COMPENSATING_REVERTED">>
        @@ "j2" :> <<"PILOT_PAUSED">>
=============================================================================
