SPECIFICATION DiagnosisSpec
CONSTANTS
  Reasons = {"rate", "family"}
  StatedReasons = {"rate", "family", "invented"}
  Confidences = {3, 7, 12, 99}
  Threshold = 6
  MaxShifts = 1
INVARIANT NotANumberAbstains
CHECK_DEADLOCK FALSE
