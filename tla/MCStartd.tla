------------------------------ MODULE MCStartd ------------------------------
(***************************************************************************)
(* Small instances of the startd for TLC.                                  *)
(***************************************************************************)
EXTENDS StartdProperties

\* A machine of two Cpus: two static slots of one, or a partitionable slot that
\* holds two dynamic slots.
TwoCpus == [Cpus |-> 2, Memory |-> 4, Disk |-> 4]

OneCpu == [Cpus |-> 1, Memory |-> 1, Disk |-> 1]

\* A vanilla job that fits.
SmallJob == [Start |-> TRUE, JobUniverse |-> 5, RequestCpus |-> 1, RequestMemory |-> 1,
             RequestDisk |-> 1]

\* The schedd overrides the memory it wants the dynamic slot to have.
WideJob == [Start |-> TRUE, JobUniverse |-> 5, RequestCpus |-> 1, RequestMemory |-> 1,
            RequestDisk |-> 1, condor_RequestMemory |-> 3]

OneJob == {SmallJob}

Mixed == {SmallJob, WideJob}
=============================================================================
