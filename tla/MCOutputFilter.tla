---------------------------- MODULE MCOutputFilter ----------------------------
(* Values of the constants of OutputFilter for TLC.                        *)
EXTENDS OutputFilter

\* One phrase with a terminator inside, as in a host name, one with a blank and
\* one of letters only.
MCBanned == {<<"a", ".", "b">>, <<"b", " ", "b">>, <<"b", "a">>}

=============================================================================
