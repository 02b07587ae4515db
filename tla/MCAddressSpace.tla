--------------------------- MODULE MCAddressSpace ---------------------------
(* Three PML4 slots: low (0), private (1) and kernel half (2).  Nine PMM   *)
(* frames are just enough for two fully mapped spaces, so that exhaustion, *)
(* teardown and the reuse of freed tables and roots all happen.            *)
EXTENDS AddressSpace

MCIndex == 0 .. 2
MCPool == 3 .. 11
MCLeaves == {21}
MCPrivateVA == {<<1, 0, 0, 0>>, <<1, 0, 0, 1>>}
MCKernelVA == {<<0, 0, 0, 0>>, <<2, 0, 0, 0>>}
=============================================================================
