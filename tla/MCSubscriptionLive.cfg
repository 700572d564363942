\* Liveness, under the fairness of responses and timers.
\* The system may stop: a behaviour ends when its events are used up.
CONSTANTS
    Environments <- MCLiveEnvironments
    MaxEvents = 4
SPECIFICATION FairSpec
PROPERTIES
    EventuallySubscribed
    EventuallyUnsubscribed
CHECK_DEADLOCK FALSE
