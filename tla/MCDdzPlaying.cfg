CONSTANTS
    HandSize = 1
    BottomSize = 1
    MaxDeal = 1
    Users = {1}
    Showers = {}
    Doublers = {1}
    Skill <- DoublingSkill
SPECIFICATION FairSpec
INVARIANTS
    ExactlyOneMover
    PaidIffDoubled
    TurnKeptWhilePaying
    BarriersComplete
PROPERTIES
    PlaysTheGame
    RoomCloses
