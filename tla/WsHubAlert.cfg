SPECIFICATION FairHub
CONSTANTS
    nodes = nodes
    alert = alert
    p1 = p1
    p2 = p2
    p3 = p3
    c1 = c1
    Kinds = {nodes, alert}
    Kept = {nodes}
    Aging = {nodes}
    Producers = {p1, p3}
    Topic <- Publishes
    Clients = {c1}
    MaxVersion = 1
PROPERTY AlertsArrive
