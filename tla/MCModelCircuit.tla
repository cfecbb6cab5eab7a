--------------------------- MODULE MCModelCircuit ---------------------------
\* An instance of ModelCircuit: three calls of one endpoint with two slots.
EXTENDS ModelCircuit
CONSTANTS a1, a2, a3
=============================================================================
