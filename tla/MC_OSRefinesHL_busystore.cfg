CONSTANTS
    c1 = c1
    c2 = c2
    Cores <- MC_Cores
    ULT_no = 1
    ULT2core <- MC_ULT2core
    phys_mem_size = 3
    WORD_SIZE = 1
    L3_ENTRY_SIZE = 1
    L2_ENTRY_SIZE = 2
    L1_ENTRY_SIZE = 4
    MAX_PHYADDR = 4
    UPPER_VADDR = 5
    VAddrs = {0, 1, 2}
    Values = {0, 1}
    Entries <- MC_Entries4
    interp_thread_no <- MC_interp_thread_no
    UnmapVAddrs <- MC_NoUnmapVAddrs

SPECIFICATION Spec

PROPERTY HLSpecRefined
