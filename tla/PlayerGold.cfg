SPECIFICATION GoldSpec
CONSTANTS
  anna = anna
  first = first
  second = second
  letter = letter
  Nobody = Nobody
  Players = {anna}
  Lanes = {first, second}
  Owner <- BothAnna
  Mails = {letter}
  Addressee <- ToAnna
  Wealth <- OnePiece
  SaveLoop = TRUE
  MaxLogin = 2
  MaxEarn = 1
  MaxFail = 1
INVARIANTS
  GoldTypeOK
  GoldKept
  LossBounded
  MailSettled
CHECK_DEADLOCK FALSE
