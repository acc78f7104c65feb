------------------------- MODULE MC_CampaignLifecycle -------------------------
(* Instances of CampaignLifecycle for TLC.                                   *)
EXTENDS CampaignLifecycle, TLC

CONSTANTS c1, t1, t2

MCCampaigns == {c1}
MCThreads   == {t1, t2}

\* The way to a live campaign, the detours through a pause and back to planning,
\* and cancellation, which ends it as complete_campaign does.
MCMethods == {"start_planning", "start_booking", "mark_ready", "activate_campaign",
              "pause_campaign", "resume_campaign", "cancel_campaign"}

\* Threads are interchangeable; only used without liveness.
MCSymmetry == Permutations(MCThreads)
================================================================================
