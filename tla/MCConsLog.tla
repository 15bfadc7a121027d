---------------------------- MODULE MCConsLog ----------------------------
EXTENDS ConsLog
MCInputs == {<<"text", "bell">>, <<"bell", "log", "text">>}
=============================================================================
