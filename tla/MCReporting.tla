---- MODULE MCReporting ----
EXTENDS Reporting, TLC

CONSTANTS b1, b2

OneBuild == {b1}
TwoBuilds == {b1, b2}
BuildSymmetry == Permutations(TwoBuilds)

\* An app and a token; the app alone; a token alone; half an app and a token.
AllConfigs == {[app |-> "on", pat |-> TRUE], [app |-> "on", pat |-> FALSE],
               [app |-> "off", pat |-> TRUE], [app |-> "partial", pat |-> TRUE]}
AppOnly == {[app |-> "on", pat |-> FALSE]}

====
