SPECIFICATION Spec
CONSTANTS
    MaxLine = 280
    Header = 10
    MinSize = 10
    Datagrams <- AllDatagrams
    OptionLists <- Lists
    Offered <- Offers
    ServerId <- Identifier
    Garbage <- Leftovers
INVARIANTS AnswerDecodes
PROPERTIES OptionsFromDatagram Terminates
CHECK_DEADLOCK FALSE
