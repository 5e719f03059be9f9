----------------------------- MODULE MCWorkloads ----------------------------
\* Two agents share the bytes of one bundle, an id is published twice by one owner
\* and once by another, and one agent has no bundle.
EXTENDS Workloads

CONSTANTS a1, a2, a3, o1, o2, s1, s2, n1, n2

B(a, o, s, oci) == [agent |-> a, publisher |-> o, sha |-> s, oci |-> oci]

Published == {B(a1, o1, s1, FALSE), B(a1, o2, s2, FALSE), B(a2, o1, s1, TRUE)}
Unrequired == [a \in Agent |-> 0]
Machines == [n \in Node |-> IF n = n1 THEN OciRank ELSE NodeRank]
Everybody == [n \in Node |-> Owner]
=============================================================================
