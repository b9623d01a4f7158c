----------------------------- MODULE MCCloner -----------------------------
(* A small instance of Cloner for TLC.                                     *)
EXTENDS Cloner

\* g/n/1.0, the same below x, g/n/2, g/n.1/0 with the key of g/n/1.0, m/n/1.0,
\* n/1.0 without a group, and 1.0 without a name.
MCFiles ==
    {<<<<"g">>, <<"n">>, <<"1", "0">>>>,
     <<<<"x">>, <<"g">>, <<"n">>, <<"1", "0">>>>,
     <<<<"g">>, <<"n">>, <<"2">>>>,
     <<<<"g">>, <<"n", "1">>, <<"0">>>>,
     <<<<"m">>, <<"n">>, <<"1", "0">>>>,
     <<<<"n">>, <<"1", "0">>>>,
     <<<<"1", "0">>>>}

MCRepository == <<"policies">>
=============================================================================
