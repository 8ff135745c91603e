----------------------- MODULE MCDeviceConnections -----------------------
\* Instances of DeviceConnections for TLC.
EXTENDS DeviceConnections, TLC

\* Sockets and requests are interchangeable: sound for the safety runs.
Symmetry == Permutations(Sockets) \cup Permutations(Requests)
=============================================================================
