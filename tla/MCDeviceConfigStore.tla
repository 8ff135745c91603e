---------------------- MODULE MCDeviceConfigStore ----------------------
\* Instances of DeviceConfigStore for TLC.
EXTENDS DeviceConfigStore, TLC

\* Configurations are interchangeable: sound for runs without liveness.
Symmetry == Permutations(Configs)
=============================================================================
