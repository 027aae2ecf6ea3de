SPECIFICATION AvalancheSpec
CONSTANTS
    Nodes = {n1, n2, n3}
    Percents <- MCPercents
PROPERTIES
    SettledIsStable
    EventuallySettled
