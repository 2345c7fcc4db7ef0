------------------------------ MODULE MCKernel ------------------------------
(* Model values and small input sets for checking Kernel with TLC.         *)
EXTENDS Kernel

\* Raw requests: clean low and medium requests, a request with a pressure
\* phrase, and an empty input.
Raw(size, smuggling, pressure, sensitivity) ==
    [size |-> size, smuggling |-> smuggling, pressure |-> pressure, sensitivity |-> sensitivity]

MCRequests ==
    {Raw(5, FALSE, FALSE, "low"), Raw(5, FALSE, FALSE, "medium"),
     Raw(5, FALSE, TRUE, "low"), Raw(0, FALSE, FALSE, "low")}

MCLowRequests == {Raw(5, FALSE, FALSE, "low")}

MCConsents == {{}, {"high_risk_operations"}}

\* Workers are interchangeable: every property quantifies over all of them.
WorkerSymmetry == Permutations(Workers)
=============================================================================
