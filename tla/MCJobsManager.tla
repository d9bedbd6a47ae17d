---------------------------- MODULE MCJobsManager ----------------------------
(* A channel with the two protocols that sessions attach: the keep-alive   *)
(* with its pinger and its replier, the address protocol with the job that *)
(* answers requests.                                                       *)
EXTENDS JobsManager

PingAndAddress == {"ping", "addr"}
ThreeJobs == [m \in PingAndAddress |->
                IF m = "ping" THEN {"pinger", "replier"} ELSE {"answerer"}]
ThePinger == {"pinger"}
TheRepliers == {"replier", "answerer"}
=============================================================================
