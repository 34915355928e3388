-------------------------------- MODULE MCLsp --------------------------------
(* Instances of LspPool for TLC: each behaviour draws one load.                 *)
EXTENDS LspPool

CONSTANTS w1, w2, w3, buf1, buf2

AllTexts == {buf1, buf2, Disk}

NoLoad == [kinds |-> {"warm"}, roots |-> {w1}, texts |-> {buf1}, calls |-> 2, mints |-> 1, closes |-> 0, idles |-> 0, begins |-> 0,
           deaths |-> 0, failures |-> 0]

\* Three worktrees over a cap of two, warmed, closed and reaped.
PoolLoad == [NoLoad EXCEPT !.roots = {w1, w2, w3}, !.calls = 3, !.closes = 1, !.idles = 1, !.failures = 1]
\* The worktree past the cap asks again.
CapLoad == [NoLoad EXCEPT !.roots = {w1, w2, w3}, !.calls = 4, !.closes = 1]
\* A path nobody registered, asked for twice at once.
MintLoad == [NoLoad EXCEPT !.kinds = {"diagnostics", "warm"}, !.mints = 2, !.closes = 1, !.idles = 1]
\* A check beside indexing, on a server that may die.
CheckLoad == [NoLoad EXCEPT !.kinds = {"check", "save"}, !.texts = {buf1}, !.begins = 3, !.deaths = 1]
\* Buffers pushed, saved and closed from two calls at once.
DocLoad == [NoLoad EXCEPT !.kinds = {"hover", "format", "save", "close"}, !.texts = {buf1, buf2}, !.deaths = 1]
AllLoads == {PoolLoad, CapLoad, MintLoad, CheckLoad, DocLoad}
=============================================================================
