CONSTANTS
    one = one
    two = two
    three = three
    Calls <- Both
    Services <- Both
    MissionIds <- Third
    Worth = 2
    DailyLimit = 2
    Prizes <- First
    Cost = 1
    MaxBreaks = 1
    Visits <- Both
    CouponMissions <- First
    Windowed <- First
    Target = 2
    Events = 3
    Buyers <- Both
    Deals <- All
    MaxUses = 1
    Friends <- Both
    InviteLimit = 1
    Invitations <- Both
    Stays <- All
    Posts <- Both
    ReviewLimit = 3
    Edits <- Both
    MaxEdits = 3
    Docs <- Both
    Senders <- Both
    ByHand <- ApprovedAgain
    MaxSends = 3
    Days <- TwoDays
    Hours = 2
    Today = 1
    Now = 1
    SlotIds <- Both
    Changers <- First
    MaxBooked = 1
    Editors <- Both
    MaxRewrites = 3
    Unit = 8
    Lowest = 6
    Highest = 14
    Factors <- Halves
    Caps <- SmallCaps
    Demands <- FewAsked
    MaxRules = 2
    Signups <- Both
    Emails <- Both
    Cpfs <- Both
SPECIFICATION AccountsSpec
INVARIANT BookedHoursKept
CHECK_DEADLOCK FALSE
