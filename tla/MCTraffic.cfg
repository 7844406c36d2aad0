SPECIFICATION TrafficSpec
CONSTANTS
    LastStage = 2
    Sources = {1, 2}
    Destinations = {1}
    Number = 2
    DestinationOf <- Contended
    Router <- Routers
    Attached <- Attachments
    Word <- Words
    Delivered <- DeliveredWords
INVARIANT DeliveredWhereDeclared
PROPERTIES ImplementsJoin EveryTokenLeaves ImplementsChannels EveryPacketDelivered
