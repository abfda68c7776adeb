------------------------- MODULE MCRequirementsBinding -------------------------
(* Instances of RequirementsBinding for TLC.                                *)
EXTENDS RequirementsBinding

Long == <<"a", "w", "w", "b">>

\* Space, a text of the Issue with space around it, and what exceeds the limit of a
\* text within a character.
MCTexts == {<<" ">>, <<"b", " ">>, Long}

Asks(text, field) ==
    [scope |-> "here", name |-> <<"a">>, subject |-> text, description |-> text,
     fields |-> [f \in Fields |-> field],
     journals |-> <<text, <<"s">>>>,
     relations |-> {1},
     children |-> [c \in Children |-> text]]

\* One that an edit takes over the budget, and one that an edit takes beyond what
\* giving up can mend.
MCIssues == {Asks(<<"b">>, <<"b", "b", "b", "b">>), Asks(Long, Long)}
===============================================================================
