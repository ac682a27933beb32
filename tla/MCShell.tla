------------------------------- MODULE MCShell -------------------------------
(* A session of one command after the other, with up to five processes     *)
(* after the shell and lists of at most two jobs.                          *)
EXTENDS Shell

Cmd(op, arg, redir, first) ==
    [op |-> op, arg |-> arg, redir |-> redir, first |-> first]

MCCommands ==
    {Cmd("prog", 0, "none", "none"), Cmd("prog", 0, "out", "none"),
     Cmd("reader", 0, "both", "none"), Cmd("builtin", 0, "in", "none"), Cmd("builtin", 0, "out", "none"),
     Cmd("amp", 0, "none", "none"),
     Cmd("fg", 2, "none", "none"), Cmd("bg", 1, "none", "none"),
     Cmd("bg", 2, "none", "none"), Cmd("kill", 3, "none", "none"),
     Cmd("overkill", 0, "none", "none"), Cmd("quit", 0, "none", "none"),
     Cmd("reader", 0, "none", "prog"), Cmd("reader", 0, "none", "ls"),
     Cmd("prog", 0, "out", "ls")}
=============================================================================
