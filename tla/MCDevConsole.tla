---------------------------- MODULE MCDevConsole ----------------------------
EXTENDS DevConsole, TLC

CONSTANTS a1, a2, p1

MCRanks == {"user", "vip"}

\* A file edited by hand with an explicit null, and one with a limit.
MCFiles == {("user" :> "limit" @@ "vip" :> "null")}

\* What the console sends: both limited, or one of them freed.
MCEdits == {("user" :> "limit" @@ "vip" :> "limit"), ("user" :> "zero" @@ "vip" :> "absent")}

Symmetry == Permutations(Admins)
=============================================================================
