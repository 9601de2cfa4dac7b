SPECIFICATION FairSpec
CONSTANTS
    Subscribers = {s1, s2}
    Updates = {u1, u2, u3}
    Capacity = 2
INVARIANT SubscriptionInv
INVARIANT NoSilentGap
INVARIANT InPublishOrder
PROPERTY MissedUpdateEndsSubscription
CHECK_DEADLOCK FALSE
