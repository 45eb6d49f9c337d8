----------------------- MODULE MCProwlarrCoordinator -----------------------
\* Instances of ProwlarrCoordinator for TLC.
EXTENDS ProwlarrCoordinator

CONSTANTS p1, p2

Radarr    == [type |-> "radarr", name |-> "main"]
OneConfig == {Radarr}

\* The reference is set or not; it is moved, or autoRegister is switched off.
RefSpecs  == [ref : {p1, NoRef}, auto : {TRUE}]
MoveSpecs == [ref : {p1, p2}, auto : {TRUE}] \cup {[ref |-> p1, auto |-> FALSE]}

\* A ProwlarrConfig is reachable, or not, being deleted or gone, or has an
\* application of its own for the configuration.
NoOffers  == {}
AllOffers == [state : ProwStates, push : {{}}]
               \cup {[state |-> "connected", push |-> {Radarr}]}

\* One Secret for each type.
TypeSecrets ==
    [x \in Types \cup {c.name : c \in Configs} |->
        IF x = "radarr" THEN OwnKey(Radarr) ELSE NoKey]
=============================================================================
