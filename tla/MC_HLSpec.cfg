CONSTANTS
    thread_no = 3
    phys_mem_size = 3
    WORD_SIZE = 1
    L3_ENTRY_SIZE = 1
    L2_ENTRY_SIZE = 2
    L1_ENTRY_SIZE = 4
    MAX_PHYADDR = 4
    UPPER_VADDR = 5
    VAddrs = {0, 1, 2}
    Values = {0, 1}
    Entries <- MC_Entries
    unsound_state <- MC_unsound_state

SPECIFICATION Spec

INVARIANT TypeOK
INVARIANT Inv
INVARIANT MemDomainMatchesMappings
