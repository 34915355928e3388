SPECIFICATION Spec
CONSTANTS
    Aggregates = {a1, a2}
    Events = {e1, e2}
    Writers = {w1, w2}
    MaxVersion = 4
PROPERTIES AppendSeesAll ImplementsLog

