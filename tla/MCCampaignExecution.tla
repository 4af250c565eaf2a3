-------------------------- MODULE MCCampaignExecution --------------------------
(* CampaignExecution with two sessions and three jobs.                        *)
EXTENDS CampaignExecution
==============================================================================
