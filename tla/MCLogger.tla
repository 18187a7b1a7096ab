--------------------------------- MODULE MCLogger ---------------------------------
EXTENDS Logger

CONSTANTS p1, p2, w1, w2, h1, h2

\* Asynchronous without hooks, and synchronous with one and room for another.
MCConfigs ==
    {[async |-> TRUE, writer |-> w1, hooks |-> <<>>, room |-> 0],
     [async |-> FALSE, writer |-> w1, hooks |-> <<h1>>, room |-> 1]}

================================================================================
