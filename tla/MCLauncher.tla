------------------------------- MODULE MCLauncher -------------------------------
(***************************************************************************)
(* Instances of Launcher for TLC: every argument vector of the launcher up *)
(* to three words, and library commands with every argument of up to three *)
(* characters that quoting tells apart.                                     *)
(***************************************************************************)
EXTENDS Launcher, TLC

Words == {<<"app">>, Option("--")} \cup {Option(o) : o \in Flags \cup Valued}

Vectors == UNION {[1..n -> Words] : n \in 0..3} \cup
    {<<Option("--inject"), Option("--payload"), Option("--"), Option("--"), <<"app">>>>,
     <<Option("--"), <<"app">>, Option("--status"), Option("--"), Option("--help")>>}

Arguments == UNION {[1..n -> {"c", Blank, Quote, Backslash}] : n \in 0..3}

Commands ==
    {<<<<"app">>, a>> : a \in Arguments} \cup
    {<<>>, <<<<>>, <<"c">>>>, <<<<"app">>, <<Nul>>>>, <<<<"a", Blank, "b">>, <<>>, <<Blank>>>>,
     <<<<"a", Quote, "b">>>>, <<<<"a", Backslash>>, <<"c">>>>}

Units == {"app", "a", "b", "c", "--", Blank, Quote, Backslash, Nul} \cup Flags \cup Valued

Environment == <<
    [name |-> <<>>, value |-> "directory"],
    [name |-> <<"s", "d", "l">>, value |-> "devices"],
    [name |-> <<"S", "D", "L", "_">>, value |-> "devices"],
    [name |-> <<"s", "D">>, value |-> "devices"],
    [name |-> <<"S", "D", "L">>, value |-> "others"],
    [name |-> <<"S", "d", "L">>, value |-> "devices"],
    [name |-> <<"D", "S", "L">>, value |-> "devices"]>>

================================================================================
