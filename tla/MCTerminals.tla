------------------------------ MODULE MCTerminals -----------------------------
(* Instances of Autopilot over Terminals for TLC: each behaviour draws one load,*)
(* so that the state space is the sum of the four themes, not their product.    *)
EXTENDS Autopilot, TLC

NoLoad == [kinds |-> {"claude"}, spawns |-> 1, kills |-> 0, exits |-> 0, lines |-> {}, titles |-> {}, repeats |-> {},
           chunks |-> 0, keys |-> 0, resizes |-> 0, dials |-> 0, forces |-> 0, toggles |-> 0, engages |-> 0, disengages |-> 0]

\* The dot: markers, titles, focus, the end of claude.
DotLoad == [NoLoad EXCEPT !.lines = {"spinner", "prose", "waiting", "footerShells", "chrome"}, !.titles = {"left", "settled"},
                          !.chunks = 2, !.keys = 2, !.exits = 1]
\* A phone that falls behind the output.
LagLoad == [NoLoad EXCEPT !.lines = {"prose"}, !.chunks = 3, !.keys = 1, !.dials = 1, !.toggles = 2]
\* Two phones take over, resize and are ousted.
TakeoverLoad == [NoLoad EXCEPT !.dials = 2, !.resizes = 2, !.toggles = 2, !.forces = 1, !.keys = 1]
\* A shell, a second spawn and kills under a phone.
RespawnLoad == [NoLoad EXCEPT !.kinds = {"claude", "shell"}, !.spawns = 2, !.kills = 1, !.dials = 1, !.toggles = 1]
\* Two engagements on one terminal.
TwoPilotsLoad == [NoLoad EXCEPT !.engages = 2, !.disengages = 1]
\* One pilot over several turns, over screens that read the same or come back, then over
\* a denied command or a turn that runs.
TurnsLoad == [NoLoad EXCEPT !.lines = {"menu"}, !.chunks = 2, !.engages = 1]
ReturnsLoad == [NoLoad EXCEPT !.lines = {"prose"}, !.chunks = 3, !.repeats = {1, 2}, !.engages = 1]
DangerLoad == [NoLoad EXCEPT !.lines = {"danger", "spinner"}, !.chunks = 1, !.engages = 1]
\* The terminal is closed under its pilot.
ClosedLoad == [NoLoad EXCEPT !.lines = {"prose"}, !.chunks = 1, !.engages = 1, !.kills = 1]
\* A phone mutes the pilot.
MutedLoad == [NoLoad EXCEPT !.engages = 1, !.dials = 1, !.toggles = 1, !.resizes = 1]
AllLoads == {DotLoad, LagLoad, TakeoverLoad, RespawnLoad, TwoPilotsLoad, TurnsLoad, ReturnsLoad, DangerLoad, ClosedLoad,
              MutedLoad}
=============================================================================
