--------------------------------- MODULE MCJobs ---------------------------------
(* The agent wants model_b; the operator deploys it and rolls it back.     *)
EXTENDS JenkinsJobs

ByHand == [job : {"deploy", "rollback"}, target : {"model_b"}]
===============================================================================
