SPECIFICATION Spec
CONSTANTS
  anna = anna
  ben = ben
  lane1 = lane1
  lane2 = lane2
  Nobody = Nobody
  Players = {anna, ben}
  Lanes = {lane1, lane2}
  Owner <- LaneEach
  Mails = {}
  Addressee <- NoMails
  Wealth <- OneForAnna
  SaveLoop = FALSE
  MaxLogin = 3
  MaxEarn = 1
  MaxFail = 0
  Offers = {0, 1}
  MaxTrade = 1
INVARIANTS
  TypeOK
  GoldConserved
  SwapAsAgreed
  SwappedOnce
CHECK_DEADLOCK FALSE
