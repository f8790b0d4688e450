-------------------------- MODULE MCCpuDraftServer --------------------------
EXTENDS CpuDraftServer

CONSTANTS r1, r2, r3

MCReq == {r1, r2, r3}
=============================================================================
