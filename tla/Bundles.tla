------------------------------ MODULE Bundles -------------------------------
(* The bundle store of the control plane (control-plane/server.js): bundles   *)
(* are uploaded under their hash, agents are created that refer to them, nodes*)
(* pull them, and a collector removes those that no agent refers to once they *)
(* are older than a grace time.                                               *)
(*                                                                            *)
(* Time is counted in ages: of a file since it was written, of a bundle since *)
(* its last upload was acknowledged. Clients upload a bundle and then create  *)
(* an agent with it before the grace time is over; they are external.         *)
EXTENDS Integers

CONSTANTS
    Sha, Agent,
    NoBundle,     \* an agent without a bundle: there is no such agent
    Grace,        \* BUNDLE_GC_GRACE_MS
    Again,        \* whether bundles that are stored are uploaded again
    MaxUploads,   \* bound on uploads
    MaxCrashes    \* bound on uploads cut short by a crash

ASSUME BundlesAssumption ==
    /\ NoBundle \notin Sha
    /\ Grace \in Nat \ {0} /\ Again \in BOOLEAN
    /\ MaxUploads \in Nat /\ MaxCrashes \in Nat

\* No such file, or never.
Absent == -1

\* Ages past the grace time are alike.
Age == 0..(Grace + 1)

VARIABLES
    blobs,    \* <sha>.tgz: age, or Absent
    tmps,     \* <sha>.tgz.tmp: age, or Absent
    agents,   \* the bundle each agent refers to; NoBundle: no such agent
    acked,    \* age of the last acknowledged upload, or Absent
    uploads, crashes

bundlesVars == <<blobs, tmps, agents, acked, uploads, crashes>>

\* What is in the store under a hash was uploaded entirely.
BundlesTypeOK ==
    /\ blobs \in [Sha -> Age \cup {Absent}]
    /\ tmps \in [Sha -> Age \cup {Absent}]
    /\ agents \in [Agent -> Sha \cup {NoBundle}]
    /\ acked \in [Sha -> Age \cup {Absent}]
    /\ \A s \in Sha : blobs[s] # Absent => acked[s] # Absent
    /\ uploads \in 0..MaxUploads /\ crashes \in 0..MaxCrashes

BundlesInit ==
    /\ blobs = [s \in Sha |-> Absent]
    /\ tmps = [s \in Sha |-> Absent]
    /\ agents = [a \in Agent |-> NoBundle]
    /\ acked = [s \in Sha |-> Absent]
    /\ uploads = 0 /\ crashes = 0

-----------------------------------------------------------------------------
Stored(s) == blobs[s] # Absent

\* PUT /v1/bundles/:name: a bundle that is stored is left as it is.
Upload(s) ==
    /\ uploads < MaxUploads
    /\ Again \/ ~Stored(s)
    /\ uploads' = uploads + 1
    /\ acked' = [acked EXCEPT ![s] = 0]
    /\ IF Stored(s) THEN UNCHANGED <<blobs, tmps>>
       ELSE /\ blobs' = [blobs EXCEPT ![s] = 0]
            /\ tmps' = [tmps EXCEPT ![s] = Absent]
    /\ UNCHANGED <<agents, crashes>>

\* A plausible bug: the bytes are written in place.
UploadCutInPlace(s) ==
    /\ crashes < MaxCrashes
    /\ ~Stored(s)
    /\ crashes' = crashes + 1
    /\ blobs' = [blobs EXCEPT ![s] = 0]
    /\ UNCHANGED <<tmps, agents, acked, uploads>>

\* The control plane dies before the rename.
UploadCut(s) ==
    /\ crashes < MaxCrashes
    /\ ~Stored(s)
    /\ crashes' = crashes + 1
    /\ tmps' = [tmps EXCEPT ![s] = 0]
    /\ UNCHANGED <<blobs, agents, acked, uploads>>

\* POST /v1/agents by a client that uploaded the bundle less than the grace time
\* ago. Nothing looks whether it is stored.
Create(a, s) ==
    /\ agents[a] = NoBundle
    /\ acked[s] # Absent /\ acked[s] < Grace
    /\ agents' = [agents EXCEPT ![a] = s]
    /\ UNCHANGED <<blobs, tmps, acked, uploads, crashes>>

Delete(a) ==
    /\ agents[a] # NoBundle
    /\ agents' = [agents EXCEPT ![a] = NoBundle]
    /\ UNCHANGED <<blobs, tmps, acked, uploads, crashes>>

\* A plausible bug: agents are not looked at.
LiveNone == {}

\* Bundles some agent refers to.
Live == {s \in Sha : \E a \in Agent : agents[a] = s}

\* A plausible bug: interrupted uploads are skipped with all other names.
SweepsBundlesOnly ==
    LET old == {s \in Sha \ Live : blobs[s] >= Grace}
    IN  /\ old # {}
        /\ blobs' = [s \in Sha |-> IF s \in old THEN Absent ELSE blobs[s]]
        /\ UNCHANGED <<tmps, agents, acked, uploads, crashes>>

\* bundleGcSweep, told to delete.
Sweep ==
    LET old == {s \in Sha \ Live : blobs[s] >= Grace}
        cut == {s \in Sha : tmps[s] > Grace}
    IN  /\ old # {} \/ cut # {}
        /\ blobs' = [s \in Sha |-> IF s \in old THEN Absent ELSE blobs[s]]
        /\ tmps' = [s \in Sha |-> IF s \in cut THEN Absent ELSE tmps[s]]
        /\ UNCHANGED <<agents, acked, uploads, crashes>>

Aged(ages) ==
    [s \in Sha |-> IF ages[s] \in 0..Grace THEN ages[s] + 1 ELSE ages[s]]

Tick ==
    /\ blobs' = Aged(blobs)
    /\ tmps' = Aged(tmps)
    /\ acked' = Aged(acked)
    /\ UNCHANGED <<agents, uploads, crashes>>

-----------------------------------------------------------------------------
BundlesNext ==
    \/ \E s \in Sha : Upload(s) \/ UploadCut(s)
    \/ \E a \in Agent : Delete(a) \/ \E s \in Sha : Create(a, s)
    \/ Sweep
    \/ Tick

BundlesSpec == BundlesInit /\ [][BundlesNext]_bundlesVars

\* The collector runs once a day (where it is switched on), and time passes.
BundlesFairSpec == BundlesSpec /\ WF_bundlesVars(Sweep) /\ WF_bundlesVars(Tick)

-----------------------------------------------------------------------------
\* Every agent's bundle is there, so that it can be started on another node at
\* any time: what was uploaded in time is not collected before the agent is
\* created, and not while it lives.
AgentsHaveBundles == \A a \in Agent : agents[a] # NoBundle => Stored(agents[a])

\* What no agent refers to any more goes in the end, and so do the remains of
\* interrupted uploads.
OrphansGo ==
    \A s \in Sha : <>[](s \notin Live) => <>[](~Stored(s) /\ tmps[s] = Absent)
=============================================================================
