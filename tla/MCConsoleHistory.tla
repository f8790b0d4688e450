-------------------------- MODULE MCConsoleHistory --------------------------
EXTENDS ConsoleHistory

CONSTANTS Operator, Customer, c1, c2, m1, m2, b

MCSide == {Operator, Customer}
MCCaller == MCSide \cup {Opener, Remover, Other}
MCConv == {c1, c2}
MCMsg == {m1, m2, b}
MCBlank == {b}
=============================================================================
