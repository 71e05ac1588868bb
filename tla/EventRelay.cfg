\* Up to two commits of an incident, into a queue of two, with one failure of any
\* kind; an incident is selected, left and selected again.  Queries do not touch
\* each other, so a screen of the list and one of the sources are taken apart.
SPECIFICATION FairSpec
CONSTANTS
    Incidents = {i1}
    List = list
    Source = src
    Clients = {c1}
    Screens = {{list}, {src}}
    QueueSize = 2
    MaxVersion = 3
    MaxChoices = 3
    MaxFaults = 1
INVARIANT RelaySound
PROPERTIES ImplementsFeed EveryChangeShown
CHECK_DEADLOCK FALSE
