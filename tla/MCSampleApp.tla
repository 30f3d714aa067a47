------------------------------ MODULE MCSampleApp ------------------------------
(* Two transports, so that a second one could be opened if the code did.    *)
EXTENDS SampleApp

CONSTANTS t1, t2

MCTransportId == {t1, t2}
=============================================================================
