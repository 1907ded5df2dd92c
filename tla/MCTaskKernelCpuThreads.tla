----------------------- MODULE MCTaskKernelCpuThreads -----------------------
EXTENDS TaskKernelCpuThreads
CONSTANTS a, b
\* Nothing, two variables in a row, one of them after a synchronization, exceptions
\* between two uses of a variable, at the end and before an allocation.
MCKernels == {<<>>, <<a, b>>, <<"sync", b, b>>, <<a, "throw", a, "throw">>, <<"throw", b>>}
=============================================================================
