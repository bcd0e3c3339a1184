SPECIFICATION Spec
INVARIANTS TypeOK
PROPERTIES OnlyWithCause AllForgiven LoadDecides HubOffStops TriesEnd
CHECK_DEADLOCK FALSE
