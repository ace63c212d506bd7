------------------------ MODULE MCInstallWorkflow ------------------------
(* Small graphs of every ecosystem for InstallWorkflow.                      *)
EXTENDS InstallWorkflow

CONSTANTS a, b, c

NoNeeds == [n \in Node |-> {}]
One(eco) == [eco |-> eco, nodes |-> {a}, edges |-> {}, sdist |-> {},
             needs |-> NoNeeds, host |-> {}]
Two(eco, host) == [One(eco) EXCEPT !.nodes = {a, b}, !.edges = {<<a, b>>}, !.host = host]
Three(eco) == [Two(eco, {}) EXCEPT !.nodes = {a, b, c}, !.edges = {<<a, b>>, <<b, c>>}]

\* An sdist a whose PEP 517 recipe needs the wheel b.
Source == [Two("pypi", {}) EXCEPT !.sdist = {a}, !.needs[a] = {b}]
\* An sdist whose recipe names a requirement that is itself an sdist.
SourceOfSource == [Source EXCEPT !.sdist = {a, b}]

MCGraphs == {One("npm"), One("github"), One("pypi"), Two("npm", {}), Two("npm", {b}),
             Two("pypi", {}), Three("pypi"), Source, SourceOfSource}
SourceGraphs == {Source}

MCTraces == {<< >>, <<"process-exec-expected">>, <<"network-attempt">>,
             <<"network-attempt", "honeytoken-access">>, <<"filesystem-outside-workspace">>}
=============================================================================
