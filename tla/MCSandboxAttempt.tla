-------------------------- MODULE MCSandboxAttempt --------------------------
(* An instance of SandboxAttempt for TLC.                                  *)
EXTENDS SandboxAttempt, TLC

\* A configuration holds records; an identity has blanks around it or not.
Entry(name, blanks, url) ==
    [identity |-> [name |-> name, blanks |-> blanks], remote |-> url, wellFormed |-> TRUE]

Missing == [given |-> FALSE, records |-> <<>>]

Given(records) == [given |-> TRUE, records |-> records]

\* Missing, empty, of another repository, malformed, twice the same, and right.
MCConfigurations ==
    LET ours   == Entry("ours", FALSE, "r1")
        again  == Entry("ours", TRUE, "r2")
        others == Entry("others", FALSE, "r2")
    IN  {Missing, Given(<<>>), Given(<<others>>),
         Given(<<ours, [others EXCEPT !.wellFormed = FALSE]>>),
         Given(<<ours, again>>), Given(<<others, ours>>)}

Policy(provider, packages, sources) ==
    [c \in Categories |->
        LET endpoints == CASE c = "agent-provider"    -> provider
                           [] c = "package-registry"  -> packages
                           [] c = "source-repository" -> sources
                           [] OTHER                   -> <<>>
        IN  [classification |-> IF endpoints = <<>> THEN "denied"
                                ELSE IF c = "agent-provider" THEN "required" ELSE "allowed",
             endpoints      |-> endpoints]]

\* Only the first of them is accepted.
MCWritten == {Policy(<<"api">>, <<"npm", "mirror">>, <<>>), Policy(<<>>, <<"npm">>, <<>>),
              Policy(<<"api">>, <<"npm", "npm">>, <<>>), Policy(<<"api">>, <<>>, <<"git">>),
              Policy(<<"api">>, <<"*">>, <<>>)}

\* One has the same digest as the accepted policy.
MCDeployable == {Policy(<<"api">>, <<"mirror", "npm">>, <<>>),
                 Policy(<<"api">>, <<"npm">>, <<>>)}
=============================================================================
