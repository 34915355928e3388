SPECIFICATION FairSpec
CONSTANTS
    a1 = a1  a2 = a2
    s1 = s1  s2 = s2  s3 = s3
    c1 = c1  c2 = c2  c3 = c3
    None = None
    Accounts <- MCAccountIds
    Slots <- MCSlots
    Tasks <- MCTasks
    Loads <- MCLoads
    Unscoped <- MCUnscoped
INVARIANTS OneRecordPerAccount RegisteredSlotIsWhole
PROPERTIES SwitchKeepsTokens BoardCatchesUp
CHECK_DEADLOCK FALSE
