--------------------------- MODULE MCCloudClient ---------------------------
(* A small instance of CloudClient: two readers that retry, one writer.  Ages *)
(* and the failure counter saturate, so the state is finite without a bound.  *)
EXTENDS CloudClient, TLC

CONSTANTS poller, web, writer

MCReaders == {poller, web}
MCWriters == {writer}
=============================================================================
