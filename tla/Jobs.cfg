CONSTANT Managers <- PingAndAddress
CONSTANT JobsOf <- ThreeJobs
CONSTANT Pingers <- ThePinger
CONSTANT Repliers <- TheRepliers
SPECIFICATION JobsFairSpec
PROPERTY WatchedJobsEnd
PROPERTY SubscribedJobsEnd
CHECK_DEADLOCK FALSE
