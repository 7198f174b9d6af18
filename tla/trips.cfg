SPECIFICATION AllSpec
CONSTANTS
    MaxSkips = 2
    OneShots = {"event_log", "poll_log"}
INVARIANT GuardsHold
INVARIANT ColumnsAreTrue
INVARIANT FormulasAreTrue
PROPERTY RepairLasts
PROPERTY TakenComesBack
PROPERTY ModeIsKept
CHECK_DEADLOCK FALSE
