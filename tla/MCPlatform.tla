------------------------------ MODULE MCPlatform ------------------------------
EXTENDS Platform, Bitwise

MCXor(a, b) == a ^^ b

\* The low two bits of 0x101, 0x201 (the others like them), 0x601 and 0x651 are
\* 01; those of 0x123 are 11.
MCMonitored == <<5, 9>>

===============================================================================
