SPECIFICATION FairSpec
CONSTANTS
    Tabs = {t1}
    Dashboards = {d1, d2}
    Sessions = {s1, s2}
    Capacity = 1
    Backlog = 1
    MaxSlots = 1
    MaxJournal = 4
    MaxConnects = 4
INVARIANTS StreamsTypeOK InOrder
PROPERTIES LeaversReleased SlotsReturned
CHECK_DEADLOCK FALSE
