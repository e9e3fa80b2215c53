---------------------------- MODULE MCCloudWorkers ----------------------------
EXTENDS CloudWorkers

CONSTANTS d1, d2, p1, a, b

Long == {<<a, b>>}
===============================================================================
