CONSTANTS
  NoUser = NoUser
  Users = {u1, u2}
  Days = {1}
  Strangers = {u2}
  MaxHeld = 2
  MaxEvents = 1
  Visits = {v1, v2}
  Visitors <- OneOrMore
  x_winners = 1
  MaxCityEvents = 2
SPECIFICATION LoyaltySpec
INVARIANTS TypesOK CountedVisitsExist CityVisitsExist ConfirmedIsWinner
PROPERTIES LotteriesAreDrawn WinnersStay
CHECK_DEADLOCK FALSE
