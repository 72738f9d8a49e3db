SPECIFICATION Spec
CONSTANTS
  Sections = {cpu, unit}
  cpu = cpu
  unit = unit
  Unfit <- MCUnfit
  Slots = {one, two}
  MaxVersion = 2
  MaxMinute = 3
  PerMinute = 2
  MaxStops = 1
INVARIANT HolesAreRefilled
INVARIANT RowsAreSound
SYMMETRY SlotsAreAlike
