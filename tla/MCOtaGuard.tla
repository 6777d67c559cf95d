----------------------------- MODULE MCOtaGuard -----------------------------
(* Two builds, and the resets each run allows. *)
EXTENDS OtaGuard

MCBuilds      == {1, 2}
OnePlatform   == [b \in MCBuilds |-> "idf"]
AllCauses     == {"operator", "broker", "heap", "crash", "brownout", "poweron",
                  "deepsleep"}
=============================================================================
