--------------------------- MODULE MCLocalConsole ---------------------------
(* What the TLC run of LocalConsole adds to it. *)
EXTENDS LocalConsole

\* A separator, a command that ends the session and one that does not.
SmallTable == << [name |-> <<"-", "-", "-">>, does |-> "nothing"],
                 [name |-> <<"q", "q">>, does |-> "logout"],
                 [name |-> <<"q", "-">>, does |-> "print"] >>
=============================================================================
