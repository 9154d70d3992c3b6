--------------------------- MODULE MCRetainedItems ---------------------------
\* One unit with a module and one without, on one outdoor unit.
EXTENDS RetainedItems

MCMapped == <<"a">>
MCServed == <<"b">>
============================================================================
