------------------------------ MODULE MCSampler ------------------------------
EXTENDS Sampler
==============================================================================
