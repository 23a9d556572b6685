---- MODULE MCTouchSlots ----
EXTENDS TouchSlots

\* The windows main_app, explorer_app and exec_app, in the order of the
\* listener, and the calls between them.
MCSlots == <<"main", "expl", "exec">>

MCCalls == {<<"main", "expl">>, <<"main", "exec">>, <<"expl", "exec">>, <<"exec", "expl">>}

=============================================================================
