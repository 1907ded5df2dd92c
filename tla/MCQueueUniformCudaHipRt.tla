---------------------- MODULE MCQueueUniformCudaHipRt ----------------------
EXTENDS QueueUniformCudaHipRt
=============================================================================
