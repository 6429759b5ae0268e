SPECIFICATION FairStream
CONSTANT
    Window = 1
PROPERTY TailStopsWithClient
CHECK_DEADLOCK FALSE
