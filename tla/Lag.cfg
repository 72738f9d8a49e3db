SPECIFICATION Spec
CONSTANTS
  slice = slice
  manager = manager
  service = service
  port = port
  Conditions <- MCConditions
  Inside <- MCInside
  Units = {service}
  SustainTicks = 2
  Horizon = 2
  MaxKills = 2
INVARIANT SinceIsBeginning
INVARIANT DiagnosisIsSound
PROPERTY RiseIsTold
