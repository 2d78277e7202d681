CONSTANTS
    HandSize = 2
    BottomSize = 1
    MaxDeal = 3
    Users = {1}
    Showers = {3}
    Doublers = {}
    Skill <- BiddingSkill
SPECIFICATION Spec
INVARIANTS
    NoRobError
    BottomCardsOnce
    InfoOfThisDeal
    PassHasTarget
    OneWinner
PROPERTIES
    HighestBidderWins
