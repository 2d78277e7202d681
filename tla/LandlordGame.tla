---------------------------- MODULE LandlordGame ----------------------------
(***************************************************************************)
(* What a landlord room promises its three players, with none of the       *)
(* locks, timers and barriers of DdzRoom: at most MaxDeal deals, one        *)
(* landlord chosen once, who opens the play; the turn goes round the table *)
(* seat by seat; the game ends in the turn of the player who wins it.      *)
(***************************************************************************)
EXTENDS Naturals

CONSTANT MaxDeal

VARIABLES phase,     \* what the players are doing
          deals,     \* deals so far
          landlord,  \* seat, 0 before one is chosen
          turn       \* whose turn it is while playing, 0 before

gameVars == <<phase, deals, landlord, turn>>

Seats == 1 .. 3

After(p) == (p % 3) + 1

GameInit ==
    /\ phase = "bidding"
    /\ deals = 1
    /\ landlord = 0
    /\ turn = 0

DealAgain ==
    /\ phase = "bidding" /\ landlord = 0
    /\ deals < MaxDeal
    /\ deals' = deals + 1
    /\ UNCHANGED <<phase, landlord, turn>>

Choose(p) ==
    /\ phase = "bidding" /\ landlord = 0
    /\ landlord' = p
    /\ UNCHANGED <<phase, deals, turn>>

BeginDoubling ==
    /\ phase = "bidding" /\ landlord # 0
    /\ phase' = "doubling"
    /\ UNCHANGED <<deals, landlord, turn>>

BeginPlay ==
    /\ phase = "doubling"
    /\ phase' = "playing"
    /\ turn' = landlord
    /\ UNCHANGED <<deals, landlord>>

PassTheTurn ==
    /\ phase = "playing"
    /\ turn' = After(turn)
    /\ UNCHANGED <<phase, deals, landlord>>

Finish ==
    /\ phase = "playing"
    /\ phase' = "over"
    /\ UNCHANGED <<deals, landlord, turn>>

GameNext ==
    \/ DealAgain \/ \E p \in Seats : Choose(p)
    \/ BeginDoubling \/ BeginPlay \/ PassTheTurn \/ Finish

GameSpec == GameInit /\ [][GameNext]_gameVars

=============================================================================
