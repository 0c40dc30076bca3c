-------------------------- MODULE MCDashboardApply --------------------------
\* Every kind of step, each before or after another kind; one edit has a removal.
EXTENDS DashboardApply

SmallEdits == {<<"rename", "edit">>, <<"edit", "add">>, <<"remove", "add">>}

\* A removal after another step.
RemovalLast == {<<"rename", "remove">>}
=============================================================================
