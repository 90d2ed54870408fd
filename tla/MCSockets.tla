----------------------------- MODULE MCSockets -----------------------------
\* Instances of Sockets for TLC.
EXTENDS Sockets
=============================================================================
