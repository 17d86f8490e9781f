SPECIFICATION Spec
CONSTANTS
  Pipes = {p1}
  CustomFlags <- Customs
  Limits = {0, 254, 255, 256}
  Unlimited = 255
INVARIANTS TypeOK ServedAsAsked
