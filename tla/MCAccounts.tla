------------------------------ MODULE MCAccounts ------------------------------
(* Instances of ClaudeUsage: two accounts, three slots.  Each load is one way the *)
(* surroundings behave.                                                            *)
EXTENDS ClaudeUsage, TLC

CONSTANTS a1, a2, s1, s2, s3, c1, c2, c3

MCAccountIds == {a1, a2}
MCSlots == {s1, s2, s3}
MCTasks == {c1, c2, c3}
MCUnscoped == {a2}

Nothing == [save |-> 0, activate |-> 0, remove |-> 0, login |-> 0, force |-> 0, failures |-> 0, crashes |-> 0,
            sessions |-> 0, refreshes |-> 0, logins |-> 0, expiries |-> 0, outages |-> 0, ticks |-> 0, saved |-> 0]

\* A login saved, another made in a terminal, and a switch back; failures, an outage or a crash.
SwitchLoad == [save |-> 1, activate |-> 1, logins |-> 1, failures |-> 2] @@ Nothing
OfflineLoad == [save |-> 1, activate |-> 1, logins |-> 1, outages |-> 1] @@ Nothing
ContestLoad == [save |-> 1, activate |-> 1, logins |-> 2] @@ Nothing
CrashLoad == [save |-> 1, activate |-> 1, logins |-> 1, crashes |-> 1] @@ Nothing
\* Two consoles at once; one beside a save, with a failure or a crash; one and a switch.
ConsoleLoad == [login |-> 2, logins |-> 2] @@ Nothing
AdoptLoad == [login |-> 1, save |-> 1, logins |-> 1, failures |-> 1] @@ Nothing
AdoptCrashLoad == [login |-> 1, save |-> 1, logins |-> 1, crashes |-> 1] @@ Nothing
ConsoleSwitchLoad == [login |-> 1, activate |-> 1, logins |-> 1, failures |-> 1] @@ Nothing
RemoveLoad == [save |-> 2, remove |-> 1, failures |-> 1] @@ Nothing
\* A session refreshes its token around a switch, and around the one back.
SessionLoad == [saved |-> 1, activate |-> 2, sessions |-> 1, refreshes |-> 1] @@ Nothing
\* The poller under a command of each kind: tokens expire, a request fails, the distro stops
\* and starts; what a save asks of it runs into a switch.
PollLoad == [save |-> 1, expiries |-> 1, ticks |-> 2] @@ Nothing
PollSwitchLoad == [save |-> 1, activate |-> 1, expiries |-> 1, ticks |-> 1] @@ Nothing
PollOutsideLoad == [logins |-> 1, expiries |-> 1, ticks |-> 2] @@ Nothing
PollActivateLoad == [saved |-> 1, activate |-> 1, ticks |-> 2] @@ Nothing
PollConsoleLoad == [login |-> 1, logins |-> 1, ticks |-> 2] @@ Nothing
PollRemoveLoad == [saved |-> 1, remove |-> 1, ticks |-> 2] @@ Nothing
OutageLoad == [force |-> 1, failures |-> 1, outages |-> 2, expiries |-> 1, ticks |-> 2] @@ Nothing

MCLoads ==
    {SwitchLoad, OfflineLoad, ContestLoad, CrashLoad, ConsoleLoad, AdoptLoad, AdoptCrashLoad, ConsoleSwitchLoad, RemoveLoad, SessionLoad,
     PollLoad, PollSwitchLoad, PollOutsideLoad, PollActivateLoad, PollConsoleLoad, PollRemoveLoad, OutageLoad}
=============================================================================
