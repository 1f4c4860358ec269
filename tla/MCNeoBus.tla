------------------------------ MODULE MCNeoBus ------------------------------
\* Instances of NeoBus: programs that use the ports of one device each, with
\* mirrors of them and the switches that matter to it.
EXTENDS NeoBus

MCWork == 0..3 \cup {\hFFFE, \hFFFF}
MCPalette == 0..3
MCBackup == 0..3
Using(addrs, ops, limit) == [ports |-> addrs, ops |-> ops, limit |-> limit]
Short == {"read8", "read16", "write8", "write16"}
Widths == Short \cup {"read32", "write32"}

MCPrograms ==
  { Using({\h10FFFE, \h100000, \h100001}, Widths, 2),
    Using({\h000000, \h00007E, \h0FFFFC, \h200000, \h2FFFFC, \hC0007E, \hC20000,
           \h110000, \h3A0002, \h3A0013, \h3A001B}, Short, 2),
    Using({\h00007C, \h3A0000, \h3A000A, \h3A0010}, Widths, 2),
    Using({\h400000, \h7FE001, \h3A000F, \h3A001F}, {"write8", "write16", "read16"}, 5),
    Using({\h400000, \h3A001F}, {"write32", "read32"}, 2),
    Using({\hD00000, \hDF0001, \h3A000D, \h3A001D}, Short, 3),
    Using({\h3C0000, \h3C0004}, {"read16", "write32"}, 2),
    Using({\h3C0000, \h3C0002, \h3C0003, \h3C0004}, {"read8", "write8", "write16"}, 3),
    Using({\h3C0004, \h3C0006, \h3C000A, \h3C000C}, Widths, 2),
    Using({\h300000, \h31FF01, \h300081, \h320000, \h320003, \h340001,
           \h380000, \h390001, \h360000}, Short, 2),
    Using({\h320000}, {"write8"}, 6),
    Using({\h320000}, {"write32"}, 3) }
=============================================================================
