---------------------------- MODULE MCAgentHost ----------------------------
(* Instances of AgentHost for TLC, with every driver of the table.          *)
EXTENDS AgentHost, TLC

CONSTANTS plain, alarming, calming   \* a name, and one with each kind of words in it

\* How a driver reads dates is a matter of the status poller.
MCDriver == {[d EXCEPT !.dates = "none"] : d \in Drivers}

MCSymmetry == Permutations(Scan)

\* Names are tried out where they matter: words in them where the driver looks for
\* words, and whether they are equal where it copies the file.
NamesMatter ==
    /\ \E s \in Scan : name[s] = plain
    /\ driver.takes # "copy" /\ ~driver.echoes => \A s \in Scan : name[s] = plain
    /\ ~driver.echoes => \A s \in Scan : name[s] \in {plain, calming}

MCInit == Init /\ NamesMatter
MCSpec == MCInit /\ [][Next]_vars
=============================================================================
