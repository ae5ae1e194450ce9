\* Two incoming flows and one of the client's own.
SPECIFICATION Spec
CONSTANTS
    Flows = {in1, in2, out}
    Mine = {out}
    NoFlow = NoFlow
    Faults = {"request"}
    MaxCommands = 1
    in1 = in1
    in2 = in2
    out = out
INVARIANT ToldOnce
PROPERTIES ActsOnPickedOrLater EmojisShown EndedForgotten
CHECK_DEADLOCK FALSE
