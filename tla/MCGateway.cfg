SPECIFICATION Spec
CONSTANTS
    n1 = n1
    n2 = n2
    Nonces <- MCNonces
    Threads = {t1, t2}
    Prompts = {"p"}
    ToolNames = {"echo", "net/http_get"}
    ConsentTtl = 1
    NonceTtl = 2
    CapTtl = 3
    EnableDevMint = TRUE
    MaxTime = 3
    MaxBoots = 2
    MaxLines = 4
    MaxStall = 1
SYMMETRY NonceSymmetry
INVARIANT NoReplay
INVARIANT DiskChainLinked
