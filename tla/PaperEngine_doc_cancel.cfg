CONSTANTS
    o1 = o1
    tick = tick
    consumer = consumer
    Tasks = {tick, consumer}
    TickTask = tick
    Orders = {o1}
    Ids = {"a"}
    ClientId <- OneId
    Size <- OneSize
    Side <- OneSide
    LevelSizes = {1, 2}
    MaxFailures = 0
SPECIFICATION Spec
PROPERTY CancelIsFinal
